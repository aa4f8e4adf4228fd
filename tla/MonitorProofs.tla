--------------------------- MODULE MonitorProofs ----------------------------
(***************************************************************************)
(* Theorems about Monitor, for every set of watched objects, every table   *)
(* of signatures and every bound.                                          *)
(***************************************************************************)
EXTENDS Monitor, FiniteSetTheorems, TLAPS

-----------------------------------------------------------------------------
(* The inductive invariant.                                                *)

\* Only ids that the sequence has given are watched.
WatchedGiven == \A w \in Wids : Watched(w) => w < nextW

\* The rows of the round, each once: a row that is still there refers to what
\* the round read, and nobody else has stored a signature for it.
RoundOK ==
    /\ pc \in {"down", "idle"} => rest = <<>>
    /\ pc = "store" => rest # <<>>
    /\ \A m, n \in DOMAIN rest : m # n => rest[m].id # rest[n].id
    /\ \A n \in DOMAIN rest :
          /\ rest[n].id < nextW
          /\ Watched(rest[n].id) => watch[rest[n].id] = rest[n].ref
                                    /\ sig[rest[n].id] = rest[n].sig

Pos(n) == IF n > 0 THEN n ELSE 0

\* The alerts of key k that a is worth over b.
Gap(k, a, b) == IF k \in Count THEN Pos(a - b) ELSE IF a = b THEN 0 ELSE 1

\* What the worker holds for the current value of fact k of row w: what it has
\* read already, otherwise what is true.
Held(w, k) ==
    IF pc = "store" /\ rest[1].id = w /\ k # "findings" THEN seen ELSE truth[watch[w]][k]

\* What a reading of list l would be of, if it were of now: the copy, or the list.
View(l) == IF cache[l] = None THEN listing[l] ELSE cache[l]

Visible(o, k) == \E l \in Consulted(o) : KeyOf(l) = k /\ o \in View(l)

\* The alerts that the present state of row w's object may still cost: one for each
\* difference between what is true, what the worker has of it and what is stored.
FactOwed(k, t, h, s) == Gap(k, t, h) + (IF s = None THEN 0 ELSE Gap(k, h, s[k]))

FlagOwed(k, o, s) ==
    Cardinality(Outdated(o, k))
      + (IF s # None /\ s[k] # 1 /\ Visible(o, k) THEN 1 ELSE 0)

Owed(w, k) ==
    IF k \in Flag THEN FlagOwed(k, watch[w], sig[w])
    ELSE FactOwed(k, truth[watch[w]][k], Held(w, k), sig[w])

Paid(w, k) ==
    alerts[w][k] + Owed(w, k) <= changes[w][k] + lag[w][k] + FalseAlerts(k) * outages

\* The accounts of row w.
AccountsOf(w) ==
    Watched(w) =>
        /\ sig[w] = None => alerts[w] = Zero
        /\ \A k \in Keys[watch[w]] : Paid(w, k)
        /\ \A k \in Key \ Keys[watch[w]] : alerts[w][k] = 0

Accounts == \A w \in Wids : AccountsOf(w)

IInv ==
    /\ TypeOK
    /\ NothingOfUnwatched
    /\ WatchedGiven
    /\ RoundOK
    /\ Accounts
-----------------------------------------------------------------------------
(* Lemmas about numbers and sets of lists.                                 *)

LEMMA PosTypes == ASSUME NEW n \in Int PROVE Pos(n) \in Nat /\ Pos(n) >= n
BY DEF Pos

LEMMA GapIs ==
    ASSUME NEW k, NEW a \in Int, NEW b \in Int PROVE Gap(k, a, b) \in Nat /\ Gap(k, a, a) = 0
<1>1. Pos(a - b) \in Nat /\ Pos(a - a) = 0
  BY PosTypes DEF Pos
<1> QED
  BY <1>1 DEF Gap

\* Nothing is gained by way of a third value.
LEMMA Triangle ==
    ASSUME NEW k, NEW t \in Int, NEW h \in Int, NEW s \in Int
    PROVE  Gap(k, t, s) <= Gap(k, t, h) + Gap(k, h, s)
<1>1. CASE k \in Count
  BY <1>1 DEF Gap, Pos
<1>2. CASE k \notin Count
  BY <1>2 DEF Gap
<1> QED
  BY <1>1, <1>2

LEMMA FactOwedType ==
    ASSUME NEW k \in Key, NEW t \in Int, NEW h \in Int, NEW s \in Signature \cup {None}
    PROVE  FactOwed(k, t, h, s) \in Nat
<1>1. s # None => s[k] \in Int
  BY DEF Signature, Value, Missing
<1>2. Gap(k, t, h) \in Nat
  BY GapIs
<1>3. s # None => Gap(k, h, s[k]) \in Nat
  BY <1>1, GapIs
<1> QED
  BY <1>2, <1>3 DEF FactOwed

LEMMA AddressesOwed == \A t, h, s : FactOwed("ips", t, h, s) \in {0, 1, 2}
<1>1. \A a, b : Gap("ips", a, b) \in {0, 1}
  BY DEF Gap, Count
<1> QED
  BY <1>1 DEF FactOwed

\* What is true moves, and what is held with it or not at all.
LEMMA FactMoves ==
    ASSUME NEW k \in Key, NEW t \in Int, NEW h \in Int, NEW s \in Signature \cup {None},
           NEW u \in Int, NEW g \in Int, NEW d \in Nat, g = h \/ (h = t /\ g = u),
           \A x \in Int : Gap(k, u, x) <= Gap(k, t, x) + d
    PROVE  FactOwed(k, u, g, s) <= FactOwed(k, t, h, s) + d
<1>1. s # None => s[k] \in Int
  BY DEF Signature, Value, Missing
<1>2. CASE g = h
  <2>1. s # None => Gap(k, h, s[k]) \in Nat
    BY <1>1, GapIs
  <2>2. Gap(k, u, h) <= Gap(k, t, h) + d /\ Gap(k, u, h) \in Nat /\ Gap(k, t, h) \in Nat
    BY GapIs
  <2> QED
    BY <1>2, <2>1, <2>2 DEF FactOwed
<1>3. CASE h = t /\ g = u
  <2>1. Gap(k, t, t) = 0 /\ Gap(k, u, u) = 0
    BY GapIs
  <2>2. s # None => /\ Gap(k, u, s[k]) \in Nat /\ Gap(k, t, s[k]) \in Nat
                    /\ Gap(k, u, s[k]) <= Gap(k, t, s[k]) + d
    BY <1>1, GapIs
  <2> QED
    BY <1>3, <2>1, <2>2 DEF FactOwed
<1> QED
  BY <1>2, <1>3

LEMMA ListsFinite == ASSUME NEW S, S \subseteq List PROVE IsFiniteSet(S) /\ Cardinality(S) \in Nat
<1>1. IsFiniteSet({"tor"} \cup {"cert"})
  BY FS_Singleton, FS_AddElement
<1>2. IsFiniteSet(({"tor"} \cup {"cert"}) \cup {"urlhaus"})
  BY <1>1, FS_AddElement
<1>3. IsFiniteSet((({"tor"} \cup {"cert"}) \cup {"urlhaus"}) \cup {"feodo"})
  BY <1>2, FS_AddElement
<1>4. IsFiniteSet(((({"tor"} \cup {"cert"}) \cup {"urlhaus"}) \cup {"feodo"}) \cup {"threatfox"})
  BY <1>3, FS_AddElement
<1>5. IsFiniteSet(List)
  <2>1. List = (((({"tor"} \cup {"cert"}) \cup {"urlhaus"}) \cup {"feodo"}) \cup {"threatfox"})
    BY DEF List
  <2> QED
    BY <1>4, <2>1
<1>6. IsFiniteSet(S)
  BY <1>5, FS_Subset
<1> QED
  BY <1>6, FS_CardinalityType

LEMMA FewerLists ==
    ASSUME NEW S, S \subseteq List, NEW T, T \subseteq S PROVE Cardinality(T) <= Cardinality(S)
<1>1. IsFiniteSet(S)
  BY ListsFinite
<1> QED
  BY <1>1, FS_Subset

LEMMA OneListMore ==
    ASSUME NEW S, S \subseteq List, NEW l, NEW T, T \subseteq S \cup {l}
    PROVE  Cardinality(T) <= Cardinality(S) + 1
<1>1. IsFiniteSet(S) /\ Cardinality(S) \in Nat
  BY ListsFinite
<1>2. /\ IsFiniteSet(S \cup {l})
      /\ Cardinality(S \cup {l}) = IF l \in S THEN Cardinality(S) ELSE Cardinality(S) + 1
  BY <1>1, FS_AddElement
<1>3. IsFiniteSet(T) /\ Cardinality(T) <= Cardinality(S \cup {l})
  BY <1>2, FS_Subset
<1>4. Cardinality(T) \in Nat /\ Cardinality(S \cup {l}) \in Nat
  BY <1>2, <1>3, FS_CardinalityType
<1> QED
  BY <1>1, <1>2, <1>3, <1>4

LEMMA OneListLess ==
    ASSUME NEW S, S \subseteq List, NEW l \in S, NEW T, T \subseteq S \ {l}
    PROVE  Cardinality(T) + 1 <= Cardinality(S)
<1>1. IsFiniteSet(S) /\ Cardinality(S) \in Nat
  BY ListsFinite
<1>2. IsFiniteSet(S \ {l}) /\ Cardinality(S \ {l}) = Cardinality(S) - 1
  BY <1>1, FS_RemoveElement
<1>3. IsFiniteSet(T) /\ Cardinality(T) <= Cardinality(S \ {l})
  BY <1>2, FS_Subset
<1>4. Cardinality(T) \in Nat
  BY <1>3, FS_CardinalityType
<1> QED
  BY <1>1, <1>2, <1>3, <1>4

LEMMA OutdatedAre == \A o, k : Outdated(o, k) \subseteq List
BY DEF Outdated, Consulted

LEMMA OutdatedCount == \A o, k : Cardinality(Outdated(o, k)) \in Nat
BY OutdatedAre, ListsFinite

LEMMA FlagOwedType == \A k, o, s : FlagOwed(k, o, s) \in Nat
BY OutdatedCount DEF FlagOwed
-----------------------------------------------------------------------------
(* Lemmas about single rows.                                               *)

\* The types of what the accounts of a row are made of.
LEMMA RowTypes ==
    ASSUME TypeOK, NEW w \in Wids, Watched(w), NEW k \in Key
    PROVE  /\ watch[w] \in Ref
           /\ k \in Fact => truth[watch[w]][k] \in Nat /\ Held(w, k) \in Int
           /\ sig[w] \in Signature \cup {None}
           /\ sig[w] # None => sig[w][k] \in Int
           /\ alerts[w][k] \in Nat /\ changes[w][k] \in Nat /\ lag[w][k] \in Nat
           /\ outages \in Nat /\ FalseAlerts(k) \in {1, 2}
<1>1. watch[w] \in Ref
  BY DEF TypeOK, Watched
<1>2. (k \in Fact => truth[watch[w]][k] \in Nat) /\ seen \in Int
  BY <1>1 DEF TypeOK, Value, Missing
<1>3. k \in Fact => Held(w, k) \in Int
  BY <1>2 DEF Held
<1>4. sig[w] \in Signature \cup {None} /\ (sig[w] # None => sig[w][k] \in Int)
  <2>1. sig[w] \in Signature \cup {None}
    BY DEF TypeOK
  <2> QED
    BY <2>1 DEF Signature, Value, Missing
<1>5. alerts[w][k] \in Nat /\ changes[w][k] \in Nat /\ lag[w][k] \in Nat /\ outages \in Nat
  BY DEF TypeOK
<1>6. FalseAlerts(k) \in {1, 2}
  BY DEF FalseAlerts
<1> QED
  BY <1>1, <1>2, <1>3, <1>4, <1>5, <1>6

\* The keys of a row's object are keys, facts or flags.
LEMMA KeysAre ==
    ASSUME TypeOK, NEW w \in Wids, Watched(w)
    PROVE  watch[w] \in Ref /\ Keys[watch[w]] \subseteq Key
BY MonitorAssumption DEF TypeOK, Watched

OwedNat == \A w \in Wids, k \in Key : Watched(w) => Owed(w, k) \in Nat

LEMMA OwedType == TypeOK => OwedNat
<1> SUFFICES ASSUME TypeOK, NEW w \in Wids, NEW k \in Key, Watched(w)
             PROVE  Owed(w, k) \in Nat
  BY DEF OwedNat
<1>1. CASE k \in Flag
  BY <1>1, FlagOwedType DEF Owed
<1>2. CASE k \notin Flag
  <2>1. truth[watch[w]][k] \in Int /\ Held(w, k) \in Int /\ sig[w] \in Signature \cup {None}
    BY <1>2, RowTypes DEF Key
  <2> QED
    BY <1>2, <2>1, FactOwedType DEF Owed
<1> QED
  BY <1>1, <1>2

LEMMA OwedTypeNext == TypeOK' => OwedNat'
BY OwedType, PTL

\* One more outage pays for one more false alert, or two.
LEMMA OneMore ==
    ASSUME NEW f \in {1, 2}, NEW x \in Nat
    PROVE  f * x \in Nat /\ f * (x + 1) = f * x + f
<1>1. CASE f = 1
  BY <1>1
<1>2. CASE f = 2
  BY <1>2
<1> QED
  BY <1>1, <1>2

\* An outage pays for a false alert or two.
Outage == outages' \in {outages, outages + 1}
Extra(k) == IF outages' = outages THEN 0 ELSE FalseAlerts(k)

\* A step that does not touch row w keeps its accounts, if what the row owes
\* grows no faster than its changes and what outages pay for.
LEMMA RowKeeps ==
    ASSUME TypeOK, TypeOK', NEW w \in Wids, AccountsOf(w), Outage,
           watch'[w] = watch[w], sig'[w] = sig[w], alerts'[w] = alerts[w], lag'[w] = lag[w],
           \A k \in Keys[watch[w]] : Watched(w) =>
               Owed(w, k)' <= Owed(w, k) + (changes'[w][k] - changes[w][k]) + Extra(k)
    PROVE  AccountsOf(w)'
<1> SUFFICES ASSUME Watched(w)'
             PROVE  /\ sig'[w] = None => alerts'[w] = Zero
                    /\ \A k \in Keys[watch'[w]] : Paid(w, k)'
                    /\ \A k \in Key \ Keys[watch'[w]] : alerts'[w][k] = 0
  BY DEF AccountsOf
<1>1. Watched(w)
  BY DEF Watched
<1>2. ASSUME NEW k \in Keys[watch[w]] PROVE Paid(w, k)'
  <2>1. k \in Key
    BY <1>1, KeysAre
  <2>2. PICK a \in Nat, c \in Nat, g \in Nat, f \in {1, 2} :
            /\ a = alerts[w][k] /\ c = changes[w][k] /\ g = lag[w][k] /\ f = FalseAlerts(k)
    BY <1>1, <2>1, RowTypes
  <2>3. PICK d \in Nat : d = changes'[w][k]
    BY <2>1 DEF TypeOK
  <2>4. PICK p \in Nat : p = Owed(w, k)
    BY <1>1, <2>1, OwedType DEF OwedNat
  <2>5. PICK q \in Nat : q = Owed(w, k)'
    BY <2>1, OwedTypeNext DEF OwedNat
  <2>6. PICK x \in Nat, y \in Nat :
            x = f * outages /\ y = f * outages' /\ y = x + Extra(k)
    <3>1. outages \in Nat
      BY DEF TypeOK
    <3>2. f * outages \in Nat /\ f * (outages + 1) = f * outages + f
      BY <3>1, OneMore
    <3>3. CASE outages' = outages
      BY <3>2, <3>3 DEF Extra
    <3>4. CASE outages' = outages + 1
      <4>1. Extra(k) = f
        BY <2>2, <3>1, <3>4 DEF Extra
      <4> QED
        BY <3>2, <3>4, <4>1
    <3> QED
      BY <3>3, <3>4 DEF Outage
  <2>7. a + p <= c + g + x
    BY <1>1, <2>2, <2>4, <2>6 DEF AccountsOf, Paid
  <2>8. Extra(k) \in Nat /\ q <= p + (d - c) + Extra(k)
    BY <1>1, <2>2, <2>3, <2>4, <2>5 DEF Extra
  <2>9. a + q <= d + g + y
    BY <2>6, <2>7, <2>8
  <2> QED
    BY <2>2, <2>3, <2>5, <2>6, <2>9 DEF Paid
<1> QED
  BY <1>1, <1>2 DEF AccountsOf
-----------------------------------------------------------------------------
(* The initial states, and the steps that leave the accounts alone.        *)

LEMMA InitIInv == Init => IInv
<1> SUFFICES ASSUME Init PROVE IInv
  OBVIOUS
<1>1. listing \in [List -> SUBSET Ioc]
  <2>1. listing \in [List -> SUBSET (Ioc \cap exists)]
    BY DEF Init
  <2> QED
    BY <2>1
<1>2. TypeOK
  <2>1. exists \subseteq Ref
    BY MonitorAssumption DEF Init
  <2>2. truth \in [Ref -> [Fact -> Nat]] /\ cache \in [List -> {None} \cup SUBSET Ioc]
    BY DEF Init
  <2>3. 1 \in 1 .. MaxWatch + 1
    BY MonitorAssumption
  <2>4. Zero \in [Key -> Nat]
    BY DEF Zero
  <2>5. seen \in Value /\ rest \in Seq([id : Wids, ref : Ref, sig : Signature \cup {None}])
    BY DEF Init, Value
  <2> QED
    BY <1>1, <2>1, <2>2, <2>3, <2>4, <2>5 DEF Init, TypeOK, Unset
<1>3. \A w \in Wids : ~Watched(w)
  BY DEF Init, Unset, Watched
<1>4. NothingOfUnwatched
  BY <1>3 DEF Init, Unset, NothingOfUnwatched
<1>5. RoundOK
  BY DEF Init, RoundOK
<1> QED
  BY <1>2, <1>3, <1>4, <1>5 DEF IInv, WatchedGiven, Accounts, AccountsOf

LEMMA QuietKeeps ==
    ASSUME IInv, TypeOK', Outage, UNCHANGED <<watch, nextW, sig, alerts, lag>>,
           \A w \in Wids : \A k \in Keys[watch[w]] : Watched(w) =>
               Owed(w, k)' <= Owed(w, k) + (changes'[w][k] - changes[w][k]) + Extra(k)
    PROVE  NothingOfUnwatched' /\ WatchedGiven' /\ Accounts'
<1>1. NothingOfUnwatched' /\ WatchedGiven'
  BY DEF IInv, NothingOfUnwatched, WatchedGiven, Watched
<1>2. ASSUME NEW w \in Wids PROVE AccountsOf(w)'
  BY RowKeeps DEF IInv, Accounts
<1> QED
  BY <1>1, <1>2 DEF Accounts

\* Where nothing has become out of date, and nothing visible, no more is owed.
LEMMA FlagsKeep ==
    ASSUME NEW w, NEW k, UNCHANGED <<watch, sig>>,
           Outdated(watch[w], k)' \subseteq Outdated(watch[w], k),
           Visible(watch[w], k)' => Visible(watch[w], k)
    PROVE  FlagOwed(k, watch[w], sig[w])' <= FlagOwed(k, watch[w], sig[w])
<1> DEFINE S == Outdated(watch[w], k)
           T == Outdated(watch[w], k)'
<1>1. Cardinality(S) \in Nat /\ Cardinality(T) \in Nat /\ Cardinality(T) <= Cardinality(S)
  BY OutdatedAre, ListsFinite, FewerLists
<1> QED
  BY <1>1 DEF FlagOwed

\* What is held stays what it was while the round does, or outside an item.
LEMMA OwedKeeps ==
    ASSUME UNCHANGED <<truth, listing, cache, watch, sig>>,
           \/ UNCHANGED <<pc, rest, seen>>
           \/ pc # "store" /\ pc' # "store",
           NEW w, NEW k
    PROVE  Owed(w, k)' = Owed(w, k)
BY DEF Owed, Held, FactOwed, FlagOwed, Outdated, Visible, View

\* The row at hand.
LEMMA AtHand ==
    ASSUME TypeOK, rest # <<>>
    PROVE  /\ Item = rest[1] /\ 1 \in DOMAIN rest /\ DOMAIN rest = 1 .. Len(rest)
           /\ Item.id \in Wids /\ Item.ref \in Ref /\ Item.sig \in Signature \cup {None}
           /\ Tail(rest) \in Seq([id : Wids, ref : Ref, sig : Signature \cup {None}])
           /\ \A n \in DOMAIN Tail(rest) : n + 1 \in DOMAIN rest /\ Tail(rest)[n] = rest[n + 1]
<1> DEFINE R == [id : Wids, ref : Ref, sig : Signature \cup {None}]
<1>1. rest \in Seq(R)
  BY DEF TypeOK
<1> HIDE DEF R
<1>2. /\ rest[1] \in R /\ Head(rest) = rest[1] /\ 1 \in DOMAIN rest
      /\ DOMAIN rest = 1 .. Len(rest) /\ Tail(rest) \in Seq(R)
      /\ \A n \in DOMAIN Tail(rest) : n + 1 \in DOMAIN rest /\ Tail(rest)[n] = rest[n + 1]
  BY <1>1
<1> QED
  BY <1>2 DEF R, Item

\* The rows of the round are rows of the table.
LEMMA RestIds == ASSUME TypeOK PROVE \A n \in DOMAIN rest : rest[n].id \in Wids
<1> DEFINE R == [id : Wids, ref : Ref, sig : Signature \cup {None}]
<1>1. rest \in Seq(R)
  BY DEF TypeOK
<1>2. \A r \in R : r.id \in Wids
  OBVIOUS
<1> HIDE DEF R
<1> QED
  BY <1>1, <1>2

\* The next rows of the round are rows of the round.
LEMMA TailKeeps ==
    ASSUME IInv, rest # <<>>, rest' = Tail(rest), pc' = "read",
           UNCHANGED <<watch, nextW>>,
           \A w \in Wids : w # Item.id => sig'[w] = sig[w]
    PROVE  RoundOK'
<1> DEFINE R == [id : Wids, ref : Ref, sig : Signature \cup {None}]
<1>0. TypeOK /\ RoundOK
  BY DEF IInv
<1>r. rest \in Seq(R)
  BY <1>0 DEF TypeOK
<1> HIDE DEF R
<1>1. /\ Item = rest[1] /\ 1 \in DOMAIN rest
      /\ \A n \in DOMAIN rest' : n + 1 \in DOMAIN rest /\ rest'[n] = rest[n + 1]
      /\ \A n \in DOMAIN rest' : n \in Nat /\ n >= 1
  <2>1. DOMAIN Tail(rest) = 1 .. Len(Tail(rest))
    BY <1>r
  <2> QED
    BY <1>0, <2>1, AtHand
<1>2. \A m, n \in DOMAIN rest' : m # n => rest'[m].id # rest'[n].id
  <2> SUFFICES ASSUME NEW m \in DOMAIN rest', NEW n \in DOMAIN rest', m # n
               PROVE  rest'[m].id # rest'[n].id
    OBVIOUS
  <2>1. m + 1 \in DOMAIN rest /\ n + 1 \in DOMAIN rest /\ m + 1 # n + 1
    BY <1>1
  <2> QED
    BY <1>0, <1>1, <2>1 DEF RoundOK
<1>3. ASSUME NEW n \in DOMAIN rest'
      PROVE  /\ rest'[n].id < nextW'
             /\ watch'[rest'[n].id] # None =>
                   watch'[rest'[n].id] = rest'[n].ref /\ sig'[rest'[n].id] = rest'[n].sig
  <2>1. n + 1 \in DOMAIN rest /\ n + 1 # 1 /\ rest'[n] = rest[n + 1]
    BY <1>1
  <2>5. rest[n + 1] \in R
    BY <1>r, <2>1
  <2>2. rest[n + 1].id \in Wids
    BY <2>5 DEF R
  <2>3. rest[n + 1].id # Item.id
    BY <1>0, <1>1, <2>1 DEF RoundOK
  <2>4. sig'[rest[n + 1].id] = sig[rest[n + 1].id]
    BY <2>2, <2>3
  <2> QED
    BY <1>0, <2>1, <2>4 DEF RoundOK, Watched
<1> QED
  BY <1>2, <1>3 DEF RoundOK, Watched
-----------------------------------------------------------------------------
(* The worker's steps without a statement that writes.                     *)

\* Outside an item, or without touching it, nobody owes more.
LEMMA NothingOwed ==
    ASSUME IInv, TypeOK', RoundOK',
           UNCHANGED <<truth, listing, cache, outages, watch, nextW, sig, alerts, lag, changes>>,
           \/ UNCHANGED <<pc, rest, seen>>
           \/ pc # "store" /\ pc' # "store"
    PROVE  IInv'
<1>1. ASSUME NEW w \in Wids, NEW k \in Keys[watch[w]], Watched(w)
      PROVE  Owed(w, k)' <= Owed(w, k) + (changes'[w][k] - changes[w][k]) + Extra(k)
  <2>1. Owed(w, k)' = Owed(w, k)
    BY OwedKeeps
  <2>2. k \in Key
    BY <1>1, KeysAre DEF IInv
  <2>3. Owed(w, k) \in Nat /\ changes[w][k] \in Nat
    BY <1>1, <2>2, OwedType, RowTypes DEF IInv, OwedNat
  <2> QED
    BY <2>1, <2>3 DEF Extra
<1> QED
  BY <1>1, QuietKeeps DEF IInv, Outage

LEMMA AddReadsKeeps == ASSUME NEW o \in Ref PROVE IInv /\ AddWatchReads(o) => IInv'
<1> SUFFICES ASSUME IInv, AddWatchReads(o) PROVE IInv'
  OBVIOUS
<1>1. /\ UNCHANGED <<truth, listing, cache, outages, watch, nextW, sig, alerts, lag, changes>>
      /\ UNCHANGED <<exists, flips, failed, pc, rest, txn, seen, failed, faults>> /\ adding' = adding \cup {o}
  BY DEF AddWatchReads, world, worker
<1>2. TypeOK'
  BY <1>1 DEF IInv, TypeOK
<1>3. RoundOK'
  BY <1>1 DEF IInv, RoundOK, Watched
<1> QED
  BY <1>1, <1>2, <1>3, NothingOwed

LEMMA ConnectKeeps == IInv /\ Connect => IInv'
<1> SUFFICES ASSUME IInv, Connect PROVE IInv'
  OBVIOUS
<1>1. /\ UNCHANGED <<truth, listing, cache, outages, watch, nextW, sig, alerts, lag, changes>>
      /\ UNCHANGED <<exists, flips, adding, rest, seen, failed, faults>>
      /\ pc = "down" /\ pc' = "idle" /\ txn' = "ok"
  BY DEF Connect, world, table
<1>2. TypeOK' /\ RoundOK'
  BY <1>1 DEF IInv, TypeOK, RoundOK, Watched
<1> QED
  BY <1>1, <1>2, NothingOwed

LEMMA BeginKeeps == IInv /\ BeginRound => IInv'
<1> SUFFICES ASSUME IInv, BeginRound PROVE IInv'
  OBVIOUS
<1> DEFINE R == [id : Wids, ref : Ref, sig : Signature \cup {None}]
           S == {w \in Wids : Watched(w)}
<1>1. /\ UNCHANGED <<truth, listing, cache, outages, watch, nextW, sig, alerts, lag, changes>>
      /\ UNCHANGED <<exists, flips, adding, txn, seen, failed, faults>>
      /\ pc = "idle" /\ pc' = "read" /\ TypeOK
  BY DEF BeginRound, world, table, IInv
<1>2. PICK ids \in RowIds :
          rest' = [n \in DOMAIN ids |->
                     [id |-> ids[n], ref |-> watch[ids[n]], sig |-> sig[ids[n]]]]
  BY DEF BeginRound
<1>3. Cardinality(S) \in Nat
  <2>1. S \subseteq 1 .. MaxWatch
    BY DEF Wids
  <2>2. IsFiniteSet(1 .. MaxWatch)
    BY MonitorAssumption, FS_Interval
  <2>3. IsFiniteSet(S)
    BY <2>1, <2>2, FS_Subset
  <2> QED
    BY <2>3, FS_CardinalityType
<1>4. /\ ids \in [1 .. Cardinality(S) -> S] /\ DOMAIN ids = 1 .. Cardinality(S)
      /\ \A m, n \in DOMAIN ids : m # n => ids[m] # ids[n]
  BY <1>2 DEF RowIds, ById, SetToSeqs
<1>5. \A n \in DOMAIN ids : /\ ids[n] \in Wids /\ Watched(ids[n])
                            /\ rest'[n] = [id |-> ids[n], ref |-> watch[ids[n]], sig |-> sig[ids[n]]]
  BY <1>2, <1>4
<1>6. ASSUME NEW n \in DOMAIN ids PROVE rest'[n] \in R
  <2>1. ids[n] \in Wids /\ watch[ids[n]] \in Ref /\ sig[ids[n]] \in Signature \cup {None}
    BY <1>1, <1>5 DEF TypeOK, Watched
  <2>2. [id |-> ids[n], ref |-> watch[ids[n]], sig |-> sig[ids[n]]] \in R
    BY <2>1
  <2>3. rest'[n] = [id |-> ids[n], ref |-> watch[ids[n]], sig |-> sig[ids[n]]]
    BY <1>5
  <2> HIDE DEF R, S
  <2> QED
    BY <2>2, <2>3
<1>7. rest' \in Seq(R)
  <2> HIDE DEF R, S
  <2>1. rest' \in [1 .. Cardinality(S) -> R]
    BY <1>2, <1>4, <1>6
  <2> QED
    BY <1>3, <2>1
<1>8. TypeOK'
  BY <1>1, <1>7 DEF TypeOK
<1>9. RoundOK'
  <2>1. DOMAIN rest' = DOMAIN ids
    BY <1>2
  <2>2. \A m, n \in DOMAIN rest' : m # n => rest'[m].id # rest'[n].id
    BY <1>4, <1>5, <2>1
  <2>3. \A n \in DOMAIN rest' :
          /\ rest'[n].id < nextW
          /\ watch[rest'[n].id] = rest'[n].ref /\ sig[rest'[n].id] = rest'[n].sig
    BY <1>5, <2>1 DEF IInv, WatchedGiven
  <2> QED
    BY <1>1, <2>2, <2>3 DEF RoundOK, Watched
<1> QED
  BY <1>1, <1>8, <1>9, NothingOwed

LEMMA RefusedKeeps == IInv /\ RoundRefused => IInv'
<1> SUFFICES ASSUME IInv, RoundRefused PROVE IInv'
  OBVIOUS
<1>1. /\ UNCHANGED <<truth, listing, cache, outages, watch, nextW, sig, alerts, lag, changes>>
      /\ UNCHANGED <<exists, flips, adding, faults>>
      /\ pc = "idle" /\ pc' = "down" /\ txn' = "ok" /\ rest' = <<>> /\ seen' = 0 /\ failed' = {}
  BY DEF RoundRefused, Abort, world, table
<1>2. TypeOK'
  BY <1>1 DEF IInv, TypeOK, Value
<1>3. RoundOK'
  BY <1>1 DEF RoundOK
<1> QED
  BY <1>1, <1>2, <1>3, NothingOwed

LEMMA SkipKeeps == IInv /\ SkipItem => IInv'
<1> SUFFICES ASSUME IInv, SkipItem PROVE IInv'
  OBVIOUS
<1>1. /\ UNCHANGED <<truth, listing, cache, outages, watch, nextW, sig, alerts, lag, changes>>
      /\ UNCHANGED <<exists, flips, adding, faults, txn, seen, failed>>
      /\ pc = "read" /\ pc' = "read" /\ rest # <<>> /\ rest' = Tail(rest)
  BY DEF SkipItem, world, table
<1>2. TypeOK'
  BY <1>1, AtHand DEF IInv, TypeOK
<1>3. RoundOK'
  BY <1>1, TailKeeps
<1> QED
  BY <1>1, <1>2, <1>3, NothingOwed

LEMMA EndKeeps == IInv /\ EndRound => IInv'
<1> SUFFICES ASSUME IInv, EndRound PROVE IInv'
  OBVIOUS
<1>1. /\ UNCHANGED <<truth, listing, cache, outages, watch, nextW, sig, alerts, lag, changes>>
      /\ UNCHANGED <<exists, flips, adding, faults, txn, seen, failed, rest>>
      /\ pc = "read" /\ pc' = "idle" /\ rest = <<>>
  BY DEF EndRound, world, table
<1>2. TypeOK' /\ RoundOK'
  BY <1>1 DEF IInv, TypeOK, RoundOK
<1> QED
  BY <1>1, <1>2, NothingOwed

\* A failed download is of no account before its reading is stored.
LEMMA FailedDownloadKeeps ==
    ASSUME NEW l \in List PROVE IInv /\ DownloadFails(l) => IInv'
<1> SUFFICES ASSUME IInv, DownloadFails(l) PROVE IInv'
  OBVIOUS
<1>1. /\ UNCHANGED <<truth, listing, cache, outages, watch, nextW, sig, alerts, lag, changes>>
      /\ UNCHANGED <<exists, flips, adding, faults, txn, seen, pc, rest>>
      /\ failed' = failed \cup {l}
  BY DEF DownloadFails, world, table
<1>2. TypeOK' /\ RoundOK'
  BY <1>1 DEF IInv, TypeOK, RoundOK, Watched
<1> QED
  BY <1>1, <1>2, NothingOwed

\* A fact that is held afresh, or still, costs no more.
LEMMA FactKeeps ==
    ASSUME TypeOK, NEW w \in Wids, NEW k \in Key \ Flag, Watched(w),
           UNCHANGED <<truth, watch, sig>>,
           Held(w, k)' = truth[watch[w]][k] \/ Held(w, k)' = Held(w, k)
    PROVE  Owed(w, k)' <= Owed(w, k)
<1>1. PICK t \in Int, h \in Int, g \in Int, s \in Signature \cup {None} :
          /\ t = truth[watch[w]][k] /\ h = Held(w, k) /\ g = Held(w, k)' /\ s = sig[w]
          /\ g = t \/ g = h
  BY RowTypes DEF Key
<1>2. FactOwed(k, t, h, s) \in Nat
  BY <1>1, FactOwedType
<1>3. FactOwed(k, t, g, s) <= FactOwed(k, t, h, s)
  <2>1. CASE g = h
    BY <2>1, <1>2
  <2>2. CASE g = t /\ s = None
    <3>1. Gap(k, t, t) = 0 /\ Gap(k, t, h) \in Nat
      BY GapIs
    <3> QED
      BY <2>2, <3>1 DEF FactOwed
  <2>3. CASE g = t /\ s # None
    <3>1. s[k] \in Int
      BY <2>3, <1>1 DEF Signature, Value, Missing
    <3>2. /\ Gap(k, t, t) = 0 /\ Gap(k, t, s[k]) <= Gap(k, t, h) + Gap(k, h, s[k])
          /\ Gap(k, t, s[k]) \in Nat
      BY <3>1, GapIs, Triangle
    <3> QED
      BY <2>3, <3>2 DEF FactOwed
  <2> QED
    BY <1>1, <2>1, <2>2, <2>3
<1> QED
  BY <1>1, <1>3 DEF Owed

\* Steps that leave the copies alone, and of the facts only what is held.
LEMMA HoldingKeeps ==
    ASSUME IInv, TypeOK', RoundOK', Outage,
           UNCHANGED <<truth, listing, cache, watch, nextW, sig, alerts, lag, changes>>,
           \A w \in Wids : \A k \in Keys[watch[w]] \ Flag : Watched(w) =>
               Owed(w, k)' <= Owed(w, k) + Extra(k)
    PROVE  IInv'
<1>1. ASSUME NEW w \in Wids, NEW k \in Keys[watch[w]], Watched(w)
      PROVE  Owed(w, k)' <= Owed(w, k) + (changes'[w][k] - changes[w][k]) + Extra(k)
  <2>1. k \in Key
    BY <1>1, KeysAre DEF IInv
  <2>2. Owed(w, k) \in Nat /\ changes[w][k] \in Nat /\ Extra(k) \in Nat
    BY <1>1, <2>1, OwedType, RowTypes DEF IInv, OwedNat, Extra
  <2>3. k \in Flag => Owed(w, k)' = Owed(w, k)
    BY DEF Owed, FlagOwed, Outdated, Visible, View
  <2>4. Owed(w, k)' <= Owed(w, k) + Extra(k)
    BY <1>1, <2>2, <2>3
  <2>5. Owed(w, k)' \in Nat
    <3>1. Watched(w)'
      BY <1>1 DEF Watched
    <3> QED
      BY <2>1, <3>1, OwedTypeNext DEF OwedNat
  <2> QED
    BY <2>2, <2>4, <2>5
<1> QED
  BY <1>1, QuietKeeps DEF IInv

\* An item that is given up: Fail.
LEMMA FailKeeps == IInv /\ Fail => IInv'
<1> SUFFICES ASSUME IInv, Fail PROVE IInv'
  OBVIOUS
<1>0. TypeOK
  BY DEF IInv
<1>1. /\ UNCHANGED <<truth, listing, cache, outages, watch, nextW, sig, alerts, lag, changes>>
      /\ UNCHANGED <<exists, flips, adding>>
      /\ pc' = "down" /\ txn' = "ok" /\ rest' = <<>> /\ seen' = 0 /\ failed' = {}
      /\ faults' = faults + 1
  BY DEF Fail, Abort, world, table
<1>2. TypeOK'
  BY <1>0, <1>1 DEF TypeOK, Value
<1>3. RoundOK'
  BY <1>1 DEF RoundOK
<1>4. ASSUME NEW w \in Wids, NEW k \in Keys[watch[w]] \ Flag, Watched(w)
      PROVE  Owed(w, k)' <= Owed(w, k) + Extra(k)
  <2>1. k \in Key
    BY <1>0, <1>4, KeysAre
  <2>2. Held(w, k)' = truth[watch[w]][k]
    BY <1>1 DEF Held
  <2>3. Owed(w, k)' <= Owed(w, k)
    BY <1>0, <1>1, <1>4, <2>1, <2>2, FactKeeps
  <2>4. Extra(k) = 0
    BY <1>1 DEF Extra
  <2>5. Owed(w, k) \in Nat
    BY <1>0, <1>4, <2>1, OwedType DEF OwedNat
  <2> QED
    BY <2>3, <2>4, <2>5
<1>5. Outage
  BY <1>1 DEF Outage
<1> QED
  BY <1>1, <1>2, <1>3, <1>4, <1>5, HoldingKeeps

\* The facts that are held of the row at hand.
LEMMA HeldOf ==
    ASSUME TypeOK, RoundOK, rest # <<>>, NEW w \in Wids, Watched(w), rest[1].id = w,
           NEW k \in Keys[watch[w]] \ Flag, k # "findings"
    PROVE  /\ watch[w] = Item.ref
           /\ IF Item.ref \in Target THEN k = "assets" ELSE k = "ips" /\ FalseAlerts(k) = 2
<1>1. watch[w] = Item.ref /\ Item.ref \in Ref
  BY AtHand DEF RoundOK
<1> QED
  BY <1>1, MonitorAssumption DEF Ref, Key, Fact, Count, FalseAlerts

LEMMA ReadKeeps == IInv /\ ReadItem => IInv'
<1> SUFFICES ASSUME IInv, ReadItem PROVE IInv'
  OBVIOUS
<1>0. TypeOK /\ RoundOK
  BY DEF IInv
<1>1. /\ UNCHANGED <<truth, listing, cache, outages, watch, nextW, sig, alerts, lag, changes>>
      /\ UNCHANGED <<exists, flips, adding, faults, txn, rest, failed>>
      /\ pc = "read" /\ pc' = "store" /\ rest # <<>>
      /\ seen' = truth[Item.ref][IF Item.ref \in Target THEN "assets" ELSE "ips"]
  BY DEF ReadItem, world, table
<1>2. TypeOK'
  <2>1. Item.ref \in Ref
    BY <1>0, <1>1, AtHand
  <2>2. seen' \in Value
    <3>1. truth[Item.ref]["assets"] \in Nat /\ truth[Item.ref]["ips"] \in Nat
      BY <1>0, <2>1 DEF TypeOK, Fact, Count
    <3> QED
      BY <1>1, <3>1 DEF Value
  <2> QED
    BY <1>0, <1>1, <2>2 DEF TypeOK
<1>3. RoundOK'
  BY <1>0, <1>1 DEF RoundOK, Watched
<1>4. ASSUME NEW w \in Wids, NEW k \in Keys[watch[w]] \ Flag, Watched(w)
      PROVE  Owed(w, k)' <= Owed(w, k) + Extra(k)
  <2>1. k \in Key
    BY <1>0, <1>4, KeysAre
  <2>2. Held(w, k)' = truth[watch[w]][k]
    <3>1. CASE rest[1].id = w /\ k # "findings"
      <4>1. watch[w] = Item.ref /\ IF Item.ref \in Target THEN k = "assets" ELSE k = "ips"
        BY <1>0, <1>1, <1>4, <3>1, HeldOf
      <4> QED
        BY <1>1, <3>1, <4>1 DEF Held
    <3>2. CASE ~(rest[1].id = w /\ k # "findings")
      BY <1>1, <3>2 DEF Held
    <3> QED
      BY <3>1, <3>2
  <2>3. Owed(w, k)' <= Owed(w, k)
    BY <1>0, <1>1, <1>4, <2>1, <2>2, FactKeeps
  <2>4. Extra(k) = 0
    BY <1>1 DEF Extra
  <2>5. Owed(w, k) \in Nat
    BY <1>0, <1>4, <2>1, OwedType DEF OwedNat
  <2> QED
    BY <2>3, <2>4, <2>5
<1>5. Outage
  BY <1>1 DEF Outage
<1> QED
  BY <1>1, <1>2, <1>3, <1>4, <1>5, HoldingKeeps

\* A resolver that fails pays for the list it takes away and for its return.
LEMMA ResolverKeeps == IInv /\ ResolverFails => IInv'
<1> SUFFICES ASSUME IInv, ResolverFails PROVE IInv'
  OBVIOUS
<1>0. TypeOK /\ RoundOK
  BY DEF IInv
<1>1. /\ UNCHANGED <<truth, listing, cache, watch, nextW, sig, alerts, lag, changes>>
      /\ UNCHANGED <<exists, flips, adding, faults, txn, rest, failed>>
      /\ pc = "read" /\ pc' = "store" /\ rest # <<>> /\ seen' = Missing
      /\ outages' = outages + 1 /\ Item.ref \in Domains
  BY DEF ResolverFails, table
<1>2. TypeOK'
  BY <1>0, <1>1 DEF TypeOK, Value
<1>3. RoundOK'
  BY <1>0, <1>1 DEF RoundOK, Watched
<1>4. ASSUME NEW w \in Wids, NEW k \in Keys[watch[w]] \ Flag, Watched(w)
      PROVE  Owed(w, k)' <= Owed(w, k) + Extra(k)
  <2>1. k \in Key
    BY <1>0, <1>4, KeysAre
  <2>2. PICK p \in Nat : p = Owed(w, k)
    BY <1>0, <1>4, <2>1, OwedType DEF OwedNat
  <2>3. Extra(k) = FalseAlerts(k) /\ FalseAlerts(k) \in {1, 2}
    <3>1. outages \in Nat
      BY <1>0 DEF TypeOK
    <3> QED
      BY <1>1, <3>1 DEF Extra, FalseAlerts
  <2>4. CASE rest[1].id = w /\ k # "findings"
    <3>1. k = "ips" /\ FalseAlerts(k) = 2
      BY <1>0, <1>1, <1>4, <2>4, MonitorAssumption, HeldOf
    <3>2. Owed(w, k)' = FactOwed(k, truth'[watch'[w]][k], Held(w, k)', sig'[w])
      BY <1>4 DEF Owed
    <3>3. Owed(w, k)' \in {0, 1, 2}
      BY <3>1, <3>2, AddressesOwed
    <3>4. Extra(k) = 2
      BY <2>3, <3>1
    <3>5. \A q \in {0, 1, 2} : q <= p + 2
      BY <2>2
    <3> QED
      BY <2>2, <3>3, <3>4, <3>5
  <2>5. CASE ~(rest[1].id = w /\ k # "findings")
    <3>1. Held(w, k)' = truth[watch[w]][k]
      BY <1>1, <2>5 DEF Held
    <3>2. Owed(w, k)' <= Owed(w, k)
      BY <1>0, <1>1, <1>4, <2>1, <3>1, FactKeeps
    <3>3. Owed(w, k)' \in Nat
      <4>1. Watched(w)'
        BY <1>1, <1>4 DEF Watched
      <4> QED
        BY <1>2, <2>1, <4>1, OwedTypeNext DEF OwedNat
    <3> QED
      BY <2>2, <2>3, <3>2, <3>3
  <2> QED
    BY <2>4, <2>5
<1>5. Outage
  BY <1>1 DEF Outage
<1> QED
  BY <1>1, <1>2, <1>3, <1>4, <1>5, HoldingKeeps
-----------------------------------------------------------------------------
(* Steps of the world, and of the worker's copies of the lists.            *)

\* A change that is counted costs no more than it is counted for.
LEMMA TruthMoves ==
    ASSUME IInv, TypeOK',
           UNCHANGED <<listing, cache, watch, nextW, sig, alerts, lag, outages>>,
           UNCHANGED <<pc, rest, seen>>,
           \A w \in Wids, k \in Key : changes'[w][k] >= changes[w][k],
           \A w \in Wids : Watched(w) => \A k \in Keys[watch[w]] \cap Fact : \A x \in Int :
               Gap(k, truth'[watch[w]][k], x)
                 <= Gap(k, truth[watch[w]][k], x) + (changes'[w][k] - changes[w][k])
    PROVE  IInv'
<1>0. TypeOK /\ RoundOK
  BY DEF IInv
<1>1. ASSUME NEW w \in Wids, NEW k \in Keys[watch[w]], Watched(w)
      PROVE  Owed(w, k)' <= Owed(w, k) + (changes'[w][k] - changes[w][k]) + Extra(k)
  <2>1. k \in Key
    BY <1>0, <1>1, KeysAre
  <2>2. PICK p \in Nat, d \in Nat : p = Owed(w, k) /\ d = changes'[w][k] - changes[w][k]
    <3>1. changes'[w][k] \in Nat /\ changes[w][k] \in Nat
      BY <1>0, <2>1 DEF TypeOK
    <3> QED
      BY <1>0, <1>1, <2>1, <3>1, OwedType DEF OwedNat
  <2>3. Owed(w, k)' <= Owed(w, k) + d
    <3>1. CASE k \in Flag
      <4>1. Owed(w, k)' = Owed(w, k)
        BY <3>1 DEF Owed, FlagOwed, Outdated, Visible, View
      <4> QED
        BY <2>2, <4>1
    <3>2. CASE k \notin Flag
      <4>1. k \in Fact
        BY <2>1, <3>2 DEF Key
      <4>2. Watched(w)'
        BY <1>1 DEF Watched
      <4>3. PICK t \in Int, h \in Int, z \in Signature \cup {None}, u \in Int, g \in Int :
                /\ t = truth[watch[w]][k] /\ h = Held(w, k) /\ z = sig[w]
                /\ u = truth'[watch[w]][k] /\ g = Held(w, k)'
        <5>1. truth[watch[w]][k] \in Int /\ Held(w, k) \in Int /\ sig[w] \in Signature \cup {None}
          BY <1>0, <1>1, <2>1, <4>1, RowTypes
        <5>2. watch[w] \in Ref
          BY <1>0, <1>1, <2>1, RowTypes
        <5>3. truth'[watch[w]][k] \in Int /\ seen' \in Int
          BY <4>1, <5>2 DEF TypeOK, Value, Missing
        <5>4. Held(w, k)' \in Int
          BY <5>3 DEF Held
        <5> QED
          BY <5>1, <5>3, <5>4
      <4>4. g = h \/ (h = t /\ g = u)
        BY <4>3 DEF Held
      <4>5. \A x \in Int : Gap(k, u, x) <= Gap(k, t, x) + d
        BY <1>1, <2>2, <4>1, <4>3
      <4>6. FactOwed(k, u, g, z) <= FactOwed(k, t, h, z) + d
        BY <2>1, <2>2, <4>3, <4>4, <4>5, FactMoves
      <4> QED
        BY <3>2, <4>3, <4>6 DEF Owed
    <3> QED
      BY <3>1, <3>2
  <2>4. Extra(k) = 0
    BY DEF Extra
  <2> QED
    BY <2>2, <2>3, <2>4
<1>2. RoundOK'
  BY <1>0 DEF RoundOK, Watched
<1>3. Outage
  BY DEF Outage
<1> QED
  BY <1>1, <1>2, <1>3, QuietKeeps DEF IInv

\* Watched rows count a change of their object's key.
LEMMA FlipsCount ==
    ASSUME TypeOK, NEW o \in Ref, NEW k \in Key, Flips(o, k)
    PROVE  /\ \A w \in Wids, j \in Key :
                 /\ changes'[w][j] \in Nat /\ changes'[w][j] >= changes[w][j]
                 /\ watch[w] = o /\ j = k => changes'[w][j] = changes[w][j] + 1
           /\ changes' \in [Wids -> [Key -> Nat]]
           /\ flips' \in Nat
<1>1. /\ changes' = [w \in Wids |-> IF watch[w] = o THEN [changes[w] EXCEPT ![k] = @ + 1]
                                                   ELSE changes[w]]
      /\ flips' = flips + 1
  BY DEF Flips
<1>2. changes \in [Wids -> [Key -> Nat]] /\ flips \in Nat
  BY DEF TypeOK
<1>3. ASSUME NEW w \in Wids
      PROVE  /\ changes'[w] \in [Key -> Nat]
             /\ \A j \in Key : /\ changes'[w][j] >= changes[w][j]
                              /\ watch[w] = o /\ j = k => changes'[w][j] = changes[w][j] + 1
  BY <1>1, <1>2
<1>4. changes' \in [Wids -> [Key -> Nat]]
  BY <1>1, <1>3
<1> QED
  BY <1>1, <1>2, <1>3, <1>4

LEMMA FlipKeeps == ASSUME NEW o \in Ref, NEW k \in Key PROVE IInv /\ Flip(o, k) => IInv'
<1> SUFFICES ASSUME IInv, Flip(o, k) PROVE IInv'
  OBVIOUS
<1>0. TypeOK
  BY DEF IInv
<1>1. /\ UNCHANGED <<listing, cache, watch, nextW, sig, alerts, lag, outages>>
      /\ UNCHANGED <<pc, rest, seen, exists, adding, txn, failed, faults>>
      /\ k \in Fact /\ Flips(o, k)
      /\ truth' = [truth EXCEPT ![o][k] = IF k \in Count THEN @ + 1 ELSE (@ + 1) % 2]
  BY DEF Flip, Flips, table, worker
<1>2. /\ \A w \in Wids, j \in Key :
            /\ changes'[w][j] \in Nat /\ changes'[w][j] >= changes[w][j]
            /\ watch[w] = o /\ j = k => changes'[w][j] = changes[w][j] + 1
      /\ changes' \in [Wids -> [Key -> Nat]]
      /\ flips' \in Nat
  BY <1>0, <1>1, FlipsCount
<1>3. truth' \in [Ref -> [Fact -> Nat]]
  <2>1. \A n \in Nat : n + 1 \in Nat /\ (n + 1) % 2 \in Nat
    OBVIOUS
  <2> QED
    BY <1>0, <1>1, <2>1 DEF TypeOK
<1>4. TypeOK'
  BY <1>0, <1>1, <1>2, <1>3 DEF TypeOK
<1>5. ASSUME NEW w \in Wids, Watched(w), NEW j \in Keys[watch[w]] \cap Fact, NEW x \in Int
      PROVE  Gap(j, truth'[watch[w]][j], x)
               <= Gap(j, truth[watch[w]][j], x) + (changes'[w][j] - changes[w][j])
  <2>1. j \in Key /\ watch[w] \in Ref /\ truth[watch[w]][j] \in Nat
        /\ truth'[watch[w]][j] \in Nat /\ changes[w][j] \in Nat
    BY <1>0, <1>3, <1>5, RowTypes DEF Key
  <2>2. PICK t \in Nat, u \in Nat, d \in Nat :
            /\ t = truth[watch[w]][j] /\ u = truth'[watch[w]][j]
            /\ d = changes'[w][j] - changes[w][j]
    BY <1>2, <2>1
  <2>3. Gap(j, t, x) \in Nat /\ Gap(j, u, x) \in Nat
    BY GapIs
  <2>4. CASE watch[w] = o /\ j = k
    <3>1. d = 1
      BY <1>2, <2>1, <2>2, <2>4
    <3>2. CASE k \in Count
      <4>1. u = t + 1
        BY <1>0, <1>1, <2>1, <2>2, <2>4, <3>2 DEF TypeOK
      <4> QED
        BY <2>2, <2>4, <3>1, <3>2, <4>1 DEF Gap, Pos
    <3>3. CASE k \notin Count
      <4>1. Gap(j, u, x) <= 1
        BY <2>4, <3>3 DEF Gap
      <4> QED
        BY <2>2, <2>3, <3>1, <4>1
    <3> QED
      BY <3>2, <3>3
  <2>5. CASE ~(watch[w] = o /\ j = k)
    <3>1. u = t
      BY <1>0, <1>1, <2>1, <2>2, <2>5 DEF TypeOK
    <3> QED
      BY <2>2, <2>3, <3>1
  <2> QED
    BY <2>4, <2>5
<1> QED
  BY <1>1, <1>2, <1>4, <1>5, TruthMoves

\* Delete: a count that drops costs nothing.
LEMMA DeleteKeeps == ASSUME NEW o \in Ref PROVE IInv /\ Delete(o) => IInv'
<1> SUFFICES ASSUME IInv, Delete(o) PROVE IInv'
  OBVIOUS
<1>0. TypeOK
  BY DEF IInv
<1>1. /\ UNCHANGED <<listing, cache, watch, nextW, sig, alerts, lag, outages, changes>>
      /\ UNCHANGED <<pc, rest, seen, adding, txn, failed, faults, flips>>
      /\ exists' = exists \ {o}
      /\ truth' = [truth EXCEPT ![o] = [k \in Fact |-> IF k \in Count THEN 0 ELSE @[k]]]
  BY DEF Delete, table, worker
<1>2. truth' \in [Ref -> [Fact -> Nat]]
  BY <1>0, <1>1 DEF TypeOK
<1>3. TypeOK'
  BY <1>0, <1>1, <1>2 DEF TypeOK
<1>4. ASSUME NEW w \in Wids, Watched(w), NEW k \in Keys[watch[w]] \cap Fact, NEW x \in Int
      PROVE  Gap(k, truth'[watch[w]][k], x)
               <= Gap(k, truth[watch[w]][k], x) + (changes'[w][k] - changes[w][k])
  <2>1. k \in Key /\ watch[w] \in Ref /\ truth[watch[w]][k] \in Nat
        /\ truth'[watch[w]][k] \in Nat /\ changes[w][k] \in Nat
    BY <1>0, <1>2, <1>4, RowTypes DEF Key
  <2>2. PICK t \in Nat, u \in Nat : /\ t = truth[watch[w]][k] /\ u = truth'[watch[w]][k]
    BY <2>1
  <2>3. u = t \/ (k \in Count /\ u = 0)
    BY <1>0, <1>1, <2>1, <2>2 DEF TypeOK
  <2>4. Gap(k, u, x) <= Gap(k, t, x)
    <3>1. CASE u = t
      BY <3>1, GapIs
    <3>2. CASE k \in Count /\ u = 0
      BY <3>2 DEF Gap, Pos
    <3> QED
      BY <2>3, <3>1, <3>2
  <2>5. changes'[w][k] = changes[w][k] /\ Gap(k, u, x) \in Nat /\ Gap(k, t, x) \in Nat
    BY <1>1, GapIs
  <2> QED
    BY <2>1, <2>2, <2>4, <2>5
<1>5. \A w \in Wids, k \in Key : changes'[w][k] >= changes[w][k]
  BY <1>0, <1>1 DEF TypeOK
<1> QED
  BY <1>1, <1>3, <1>4, <1>5, TruthMoves

\* Steps that touch nothing but the lists and their copies.
LEMMA ListsMove ==
    ASSUME IInv, TypeOK', Outage,
           UNCHANGED <<truth, watch, nextW, sig, alerts, lag, pc, rest, seen>>,
           \A w \in Wids, k \in Key : changes'[w][k] >= changes[w][k],
           \A w \in Wids : Watched(w) => \A k \in Keys[watch[w]] \cap Flag :
               FlagOwed(k, watch[w], sig[w])'
                 <= FlagOwed(k, watch[w], sig[w]) + (changes'[w][k] - changes[w][k]) + Extra(k)
    PROVE  IInv'
<1>0. TypeOK /\ RoundOK
  BY DEF IInv
<1>1. ASSUME NEW w \in Wids, NEW k \in Keys[watch[w]], Watched(w)
      PROVE  Owed(w, k)' <= Owed(w, k) + (changes'[w][k] - changes[w][k]) + Extra(k)
  <2>1. k \in Key
    BY <1>0, <1>1, KeysAre
  <2>2. CASE k \in Flag
    BY <1>1, <2>2 DEF Owed
  <2>3. CASE k \notin Flag
    <3>1. Owed(w, k)' = Owed(w, k)
      BY <2>3 DEF Owed, Held
    <3>2. Owed(w, k) \in Nat /\ changes[w][k] \in Nat /\ changes'[w][k] \in Nat
      BY <1>0, <1>1, <2>1, OwedType DEF OwedNat, TypeOK
    <3>3. Extra(k) \in Nat
      BY DEF Extra, FalseAlerts
    <3> QED
      BY <2>1, <3>1, <3>2, <3>3
  <2> QED
    BY <2>2, <2>3
<1>2. RoundOK'
  BY <1>0 DEF RoundOK, Watched
<1> QED
  BY <1>1, <1>2, QuietKeeps DEF IInv

\* One more list out of date, or visible, costs one.
LEMMA OneFlagMore ==
    ASSUME NEW k, NEW o, NEW z, NEW l,
           \/ /\ Outdated(o, k)' \subseteq Outdated(o, k) \cup {l}
              /\ Visible(o, k)' => Visible(o, k)
           \/ Outdated(o, k)' \subseteq Outdated(o, k)
    PROVE  /\ Cardinality(Outdated(o, k))' \in Nat
           /\ Cardinality(Outdated(o, k))'
                + (IF z # None /\ z[k] # 1 /\ Visible(o, k)' THEN 1 ELSE 0)
              <= FlagOwed(k, o, z) + 1
<1> DEFINE S == Outdated(o, k)
           T == Outdated(o, k)'
<1>1. S \subseteq List /\ T \subseteq List
  BY DEF Outdated, Consulted
<1>2. Cardinality(S) \in Nat /\ Cardinality(T) \in Nat
  BY <1>1, ListsFinite
<1>3. CASE T \subseteq S \cup {l} /\ (Visible(o, k)' => Visible(o, k))
  <2>1. Cardinality(T) <= Cardinality(S) + 1
    BY <1>1, <1>3, OneListMore
  <2> QED
    BY <1>2, <1>3, <2>1 DEF FlagOwed
<1>4. CASE T \subseteq S
  <2>1. Cardinality(T) <= Cardinality(S)
    BY <1>1, <1>4, FewerLists
  <2> QED
    BY <1>2, <1>4, <2>1 DEF FlagOwed
<1> QED
  BY <1>3, <1>4

LEMMA RelistKeeps == ASSUME NEW o \in Ref, NEW l \in List PROVE IInv /\ Relist(o, l) => IInv'
<1> SUFFICES ASSUME IInv, Relist(o, l) PROVE IInv'
  OBVIOUS
<1>0. TypeOK
  BY DEF IInv
<1>1. /\ UNCHANGED <<truth, cache, watch, nextW, sig, alerts, lag, outages>>
      /\ UNCHANGED <<pc, rest, seen, exists, adding, txn, failed, faults>>
      /\ Flips(o, KeyOf(l)) /\ l \in Consulted(o) /\ KeyOf(l) \in Key
      /\ listing' = [listing EXCEPT ![l] = IF o \in @ THEN @ \ {o} ELSE @ \cup {o}]
  BY DEF Relist, Flips, table, worker, KeyOf, Key, Flag, List
<1>2. /\ \A w \in Wids, j \in Key :
            /\ changes'[w][j] \in Nat /\ changes'[w][j] >= changes[w][j]
            /\ watch[w] = o /\ j = KeyOf(l) => changes'[w][j] = changes[w][j] + 1
      /\ changes' \in [Wids -> [Key -> Nat]]
      /\ flips' \in Nat
  BY <1>0, <1>1, FlipsCount
<1>3. o \in Ioc
  <2>1. KeyOf(l) \in Keys[o] /\ KeyOf(l) \notin Count
    BY <1>1 DEF Consulted, KeyOf, Count, List
  <2> QED
    BY <2>1, MonitorAssumption DEF Ref
<1>4. listing' \in [List -> SUBSET Ioc]
  BY <1>0, <1>1, <1>3 DEF TypeOK
<1>5. TypeOK'
  BY <1>0, <1>1, <1>2, <1>4 DEF TypeOK
<1>6. \A m \in List \ {l} : listing'[m] = listing[m]
  BY <1>0, <1>1 DEF TypeOK
<1>7. \A p : \A m \in List : p # o => (p \in listing'[m] <=> p \in listing[m])
  BY <1>0, <1>1 DEF TypeOK
<1>8. ASSUME NEW w \in Wids, Watched(w), NEW k \in Keys[watch[w]] \cap Flag
      PROVE  FlagOwed(k, watch[w], sig[w])'
               <= FlagOwed(k, watch[w], sig[w]) + (changes'[w][k] - changes[w][k]) + Extra(k)
  <2> DEFINE p == watch[w]
  <2>1. k \in Key /\ Extra(k) = 0
    BY <1>1 DEF Extra, Key
  <2>2. PICK q \in Nat, r \in Nat, d \in Nat :
            /\ q = FlagOwed(k, p, sig[w]) /\ r = FlagOwed(k, p, sig[w])'
            /\ d = changes'[w][k] - changes[w][k]
    <3>1. FlagOwed(k, p, sig[w])' \in Nat
      <4>1. Outdated(p, k)' \subseteq List
        BY DEF Outdated, Consulted
      <4> QED
        BY <4>1, ListsFinite DEF FlagOwed
    <3>2. changes'[w][k] - changes[w][k] \in Nat
      BY <1>0, <1>2, <2>1 DEF TypeOK
    <3> QED
      BY <3>1, <3>2, FlagOwedType
  <2>3. CASE p = o /\ k = KeyOf(l)
    <3>1. d = 1
      <4>1. changes[w][k] \in Nat
        BY <1>0, <2>1 DEF TypeOK
      <4> QED
        BY <1>2, <2>1, <2>2, <2>3, <4>1
    <3>2. CASE cache[l] = None
      <4>1. Outdated(p, k)' \subseteq Outdated(p, k)
        BY <1>1, <1>6, <3>2 DEF Outdated, Consulted
      <4>2. r <= q + 1
        BY <1>1, <2>2, <4>1, OneFlagMore DEF FlagOwed
      <4> QED
        BY <2>1, <2>2, <3>1, <4>2
    <3>3. CASE cache[l] # None
      <4>1. Outdated(p, k)' \subseteq Outdated(p, k) \cup {l}
        BY <1>1, <1>6 DEF Outdated, Consulted
      <4>2. Visible(p, k)' => Visible(p, k)
        BY <1>1, <1>6, <3>3 DEF Visible, View, Consulted
      <4>3. r <= q + 1
        BY <1>1, <2>2, <4>1, <4>2, OneFlagMore DEF FlagOwed
      <4> QED
        BY <2>1, <2>2, <3>1, <4>3
    <3> QED
      BY <3>2, <3>3
  <2>4. CASE ~(p = o /\ k = KeyOf(l))
    <3>1. \A m \in List : KeyOf(m) = k => (p \in listing'[m] <=> p \in listing[m])
      BY <1>6, <1>7, <2>4
    <3>2. Outdated(p, k)' \subseteq Outdated(p, k)
      BY <1>1, <3>1 DEF Outdated, Consulted
    <3>3. Visible(p, k)' => Visible(p, k)
      BY <1>1, <3>1 DEF Visible, View, Consulted
    <3>4. r <= q
      BY <1>1, <2>2, <3>2, <3>3, FlagsKeep
    <3> QED
      BY <2>1, <2>2, <3>4
  <2> QED
    BY <2>3, <2>4
<1>9. Outage
  BY <1>1 DEF Outage
<1> QED
  BY <1>1, <1>2, <1>5, <1>8, <1>9, ListsMove

\* TTLs: an old copy may go once, and what it hid appears.
LEMMA ExpireKeeps == ASSUME NEW l \in List PROVE IInv /\ Expire(l) => IInv'
<1> SUFFICES ASSUME IInv, Expire(l) PROVE IInv'
  OBVIOUS
<1>0. TypeOK
  BY DEF IInv
<1>1. /\ UNCHANGED <<truth, listing, watch, nextW, sig, alerts, lag, outages, changes>>
      /\ UNCHANGED <<pc, rest, seen, exists, flips, adding, txn, failed, faults>>
      /\ cache[l] # None /\ cache' = [cache EXCEPT ![l] = None]
  BY DEF Expire, world, table
<1>2. cache'[l] = None /\ \A m \in List \ {l} : cache'[m] = cache[m]
  BY <1>0, <1>1 DEF TypeOK
<1>3. TypeOK'
  BY <1>0, <1>1 DEF TypeOK
<1>4. ASSUME NEW w \in Wids, Watched(w), NEW k \in Keys[watch[w]] \cap Flag
      PROVE  FlagOwed(k, watch[w], sig[w])'
               <= FlagOwed(k, watch[w], sig[w]) + (changes'[w][k] - changes[w][k]) + Extra(k)
  <2> DEFINE p == watch[w]
             S == Outdated(p, k)
             T == Outdated(p, k)'
  <2>1. Extra(k) = 0 /\ changes'[w][k] - changes[w][k] = 0
    <3>1. changes[w][k] \in Nat
      BY <1>0 DEF TypeOK, Key
    <3> QED
      BY <1>1, <3>1 DEF Extra
  <2>2. FlagOwed(k, p, sig[w]) \in Nat
    BY FlagOwedType
  <2>3. S \subseteq List /\ T \subseteq List
    BY DEF Outdated, Consulted
  <2>4. Cardinality(S) \in Nat /\ Cardinality(T) \in Nat
    BY <2>3, ListsFinite
  <2>5. CASE l \in S
    <3>1. T \subseteq S \ {l}
      BY <1>1, <1>2 DEF Outdated, Consulted
    <3>2. Cardinality(T) + 1 <= Cardinality(S)
      BY <2>3, <2>5, <3>1, OneListLess
    <3>3. FlagOwed(k, p, sig[w])' <= FlagOwed(k, p, sig[w])
      BY <1>1, <2>4, <3>2 DEF FlagOwed
    <3> QED
      BY <1>1, <2>1, <2>2, <2>4, <3>3 DEF FlagOwed
  <2>6. CASE l \notin S
    <3>1. T \subseteq S
      BY <1>1, <1>2 DEF Outdated, Consulted
    <3>2. Visible(p, k)' => Visible(p, k)
      BY <1>1, <1>2, <2>6 DEF Visible, View, Outdated, Consulted
    <3>3. FlagOwed(k, p, sig[w])' <= FlagOwed(k, p, sig[w])
      BY <1>1, <3>1, <3>2, FlagsKeep
    <3> QED
      BY <1>1, <2>1, <2>2, <2>4, <3>3 DEF FlagOwed
  <2> QED
    BY <2>5, <2>6
<1>5. Outage /\ \A w \in Wids, k \in Key : changes'[w][k] >= changes[w][k]
  BY <1>0, <1>1 DEF Outage, TypeOK
<1> QED
  BY <1>1, <1>3, <1>4, <1>5, ListsMove

\* A list that is downloaded is what it is.
LEMMA DownloadKeeps == ASSUME NEW l \in List PROVE IInv /\ Download(l) => IInv'
<1> SUFFICES ASSUME IInv, Download(l) PROVE IInv'
  OBVIOUS
<1>0. TypeOK
  BY DEF IInv
<1>1. /\ UNCHANGED <<truth, listing, watch, nextW, sig, alerts, lag, outages, changes>>
      /\ UNCHANGED <<pc, rest, seen, exists, flips, adding, txn, failed, faults>>
      /\ cache[l] = None /\ cache' = [cache EXCEPT ![l] = listing[l]]
  BY DEF Download, Wanted, Lacking, world, table
<1>2. cache'[l] = listing[l] /\ \A m \in List \ {l} : cache'[m] = cache[m]
  BY <1>0, <1>1 DEF TypeOK
<1>3. TypeOK'
  BY <1>0, <1>1 DEF TypeOK
<1>4. ASSUME NEW w \in Wids, Watched(w), NEW k \in Keys[watch[w]] \cap Flag
      PROVE  FlagOwed(k, watch[w], sig[w])'
               <= FlagOwed(k, watch[w], sig[w]) + (changes'[w][k] - changes[w][k]) + Extra(k)
  <2> DEFINE p == watch[w]
  <2>1. Extra(k) = 0 /\ changes'[w][k] - changes[w][k] = 0
    <3>1. changes[w][k] \in Nat
      BY <1>0 DEF TypeOK, Key
    <3> QED
      BY <1>1, <3>1 DEF Extra
  <2>2. Outdated(p, k)' \subseteq Outdated(p, k)
    BY <1>1, <1>2 DEF Outdated, Consulted
  <2>3. Visible(p, k)' => Visible(p, k)
    BY <1>1, <1>2 DEF Visible, View, Consulted
  <2>4. FlagOwed(k, p, sig[w])' <= FlagOwed(k, p, sig[w])
    BY <1>1, <2>2, <2>3, FlagsKeep
  <2>5. FlagOwed(k, p, sig[w]) \in Nat
    BY FlagOwedType
  <2> QED
    BY <2>1, <2>4, <2>5
<1>5. Outage /\ \A w \in Wids, k \in Key : changes'[w][k] >= changes[w][k]
  BY <1>0, <1>1 DEF Outage, TypeOK
<1> QED
  BY <1>1, <1>3, <1>4, <1>5, ListsMove

\* Another page in place of the list hides what is on it: an outage.
LEMMA DownloadOtherKeeps == ASSUME NEW l \in List PROVE IInv /\ DownloadOther(l) => IInv'
<1> SUFFICES ASSUME IInv, DownloadOther(l) PROVE IInv'
  OBVIOUS
<1>0. TypeOK
  BY DEF IInv
<1>1. /\ UNCHANGED <<truth, listing, watch, nextW, sig, alerts, lag, changes>>
      /\ UNCHANGED <<pc, rest, seen, exists, flips, adding, txn, failed, faults>>
      /\ cache[l] = None /\ cache' = [cache EXCEPT ![l] = {}] /\ outages' = outages + 1
  BY DEF DownloadOther, Wanted, Lacking, table
<1>2. cache'[l] = {} /\ \A m \in List \ {l} : cache'[m] = cache[m]
  BY <1>0, <1>1 DEF TypeOK
<1>3. TypeOK'
  BY <1>0, <1>1 DEF TypeOK
<1>4. ASSUME NEW w \in Wids, Watched(w), NEW k \in Keys[watch[w]] \cap Flag
      PROVE  FlagOwed(k, watch[w], sig[w])'
               <= FlagOwed(k, watch[w], sig[w]) + (changes'[w][k] - changes[w][k]) + Extra(k)
  <2> DEFINE p == watch[w]
  <2>1. changes'[w][k] - changes[w][k] = 0
    <3>1. changes[w][k] \in Nat
      BY <1>0 DEF TypeOK, Key
    <3> QED
      BY <1>1, <3>1
  <2>2. Extra(k) = 1
    <3>1. outages \in Nat
      BY <1>0 DEF TypeOK
    <3> QED
      BY <1>1, <3>1 DEF Extra, FalseAlerts, Flag
  <2>3. Outdated(p, k)' \subseteq Outdated(p, k) \cup {l}
    BY <1>1, <1>2 DEF Outdated, Consulted
  <2>4. Visible(p, k)' => Visible(p, k)
    BY <1>1, <1>2 DEF Visible, View, Consulted
  <2>5. FlagOwed(k, p, sig[w])' <= FlagOwed(k, p, sig[w]) + 1
    BY <1>1, <2>3, <2>4, OneFlagMore DEF FlagOwed
  <2>6. FlagOwed(k, p, sig[w]) \in Nat
    BY FlagOwedType
  <2> QED
    BY <2>1, <2>2, <2>5, <2>6
<1>5. Outage /\ \A w \in Wids, k \in Key : changes'[w][k] >= changes[w][k]
  BY <1>0, <1>1 DEF Outage, TypeOK
<1> QED
  BY <1>1, <1>3, <1>4, <1>5, ListsMove
-----------------------------------------------------------------------------
(* Rows that come and go.                                                  *)

\* Nothing happens to row w.
LEMMA RowUntouched ==
    ASSUME TypeOK, TypeOK', NEW w \in Wids, AccountsOf(w), Outage,
           UNCHANGED <<truth, listing, cache, changes>>,
           watch'[w] = watch[w], sig'[w] = sig[w], alerts'[w] = alerts[w], lag'[w] = lag[w],
           Watched(w) => \A k \in Key : Held(w, k)' = Held(w, k)
    PROVE  AccountsOf(w)'
<1>1. ASSUME NEW k \in Keys[watch[w]], Watched(w)
      PROVE  Owed(w, k)' <= Owed(w, k) + (changes'[w][k] - changes[w][k]) + Extra(k)
  <2>1. k \in Key
    BY <1>1, KeysAre
  <2>2. Owed(w, k) \in Nat /\ changes[w][k] \in Nat /\ Extra(k) \in Nat
    BY <1>1, <2>1, RowTypes, OwedType DEF OwedNat, Extra
  <2>3. Owed(w, k)' = Owed(w, k)
    BY <1>1, <2>1 DEF Owed, FactOwed, FlagOwed, Outdated, Visible, View
  <2> QED
    BY <2>2, <2>3
<1> QED
  BY <1>1, RowKeeps

LEMMA AddInsertsKeeps == ASSUME NEW o \in Ref PROVE IInv /\ AddWatchInserts(o) => IInv'
<1> SUFFICES ASSUME IInv, AddWatchInserts(o) PROVE IInv'
  OBVIOUS
<1>0. TypeOK /\ WatchedGiven /\ RoundOK /\ Accounts /\ NothingOfUnwatched
  BY DEF IInv
<1>1. /\ UNCHANGED <<truth, listing, cache, outages, sig, alerts, changes>>
      /\ UNCHANGED <<exists, flips, faults, pc, rest, txn, seen, failed>>
      /\ adding' = adding \ {o}
  BY DEF AddWatchInserts, world, worker
<1>2. CASE UNCHANGED <<watch, nextW, lag>>
  <2>1. TypeOK' /\ RoundOK'
    BY <1>0, <1>1, <1>2 DEF TypeOK, RoundOK, Watched
  <2> QED
    BY <1>1, <1>2, <2>1, NothingOwed
<1>3. CASE /\ nextW \in Wids
           /\ watch' = [watch EXCEPT ![nextW] = o]
           /\ nextW' = nextW + 1
           /\ lag' = [lag EXCEPT ![nextW] = [k \in Key |-> Cardinality(Outdated(o, k))]]
  <2>1. ~Watched(nextW) /\ alerts[nextW] = Zero /\ sig[nextW] = None
    BY <1>0, <1>3 DEF WatchedGiven, NothingOfUnwatched, Wids
  <2>2. /\ watch'[nextW] = o /\ o # None
        /\ lag'[nextW] = [k \in Key |-> Cardinality(Outdated(o, k))]
        /\ \A w \in Wids : w # nextW => watch'[w] = watch[w] /\ lag'[w] = lag[w]
    BY <1>0, <1>3, MonitorAssumption DEF TypeOK
  <2>3. TypeOK'
    <3>1. nextW' \in 1 .. MaxWatch + 1
      BY <1>3, MonitorAssumption DEF Wids
    <3>2. watch' \in [Wids -> Ref \cup {None}]
      BY <1>0, <1>3 DEF TypeOK
    <3>3. [k \in Key |-> Cardinality(Outdated(o, k))] \in [Key -> Nat]
      BY OutdatedCount
    <3>4. lag' \in [Wids -> [Key -> Nat]]
      BY <1>0, <1>3, <3>3 DEF TypeOK
    <3> QED
      BY <1>0, <1>1, <3>1, <3>2, <3>4 DEF TypeOK
  <2>4. NothingOfUnwatched'
    BY <1>0, <1>1, <2>1, <2>2 DEF NothingOfUnwatched, Watched
  <2>5. WatchedGiven'
    BY <1>0, <1>3, <2>2 DEF WatchedGiven, Watched, Wids
  <2>6. \A n \in DOMAIN rest : rest[n].id \in Wids /\ rest[n].id < nextW
    BY <1>0, RestIds DEF RoundOK
  <2>7. RoundOK'
    <3>1. \A n \in DOMAIN rest : watch'[rest[n].id] = watch[rest[n].id]
                                 /\ rest[n].id < nextW + 1
      BY <1>3, <2>2, <2>6 DEF Wids
    <3> QED
      BY <1>0, <1>1, <1>3, <3>1 DEF RoundOK, Watched
  <2>8. ASSUME NEW w \in Wids, w # nextW PROVE AccountsOf(w)'
    <3>1. /\ watch'[w] = watch[w] /\ lag'[w] = lag[w] /\ AccountsOf(w) /\ Outage
          /\ sig'[w] = sig[w] /\ alerts'[w] = alerts[w]
      BY <1>0, <1>1, <2>2, <2>8 DEF Accounts, Outage
    <3>2. \A k \in Key : Held(w, k)' = Held(w, k)
      BY <1>1, <3>1 DEF Held
    <3> QED
      BY <1>0, <1>1, <2>3, <3>1, <3>2, RowUntouched
  <2>9. ASSUME NEW v \in Wids, v = nextW PROVE AccountsOf(v)'
    <3>1. ASSUME NEW k \in Keys[o] PROVE Owed(v, k)' \in Nat /\ Owed(v, k)' <= lag'[v][k]
      <4>1. k \in Key
        BY <3>1, MonitorAssumption
      <4>2. Cardinality(Outdated(o, k)) \in Nat /\ lag'[v][k] = Cardinality(Outdated(o, k))
        BY <2>2, <2>9, <4>1, OutdatedCount
      <4>3. CASE k \in Flag
        <5>1. Outdated(o, k)' = Outdated(o, k)
          BY <1>1 DEF Outdated
        <5>2. Owed(v, k)' = Cardinality(Outdated(o, k)) + 0
          BY <1>1, <2>1, <2>2, <2>9, <4>3, <5>1 DEF Owed, FlagOwed
        <5> QED
          BY <4>2, <5>2
      <4>4. CASE k \notin Flag
        <5>1. truth[o][k] \in Nat
          BY <1>0, <4>1, <4>4 DEF TypeOK, Key
        <5>2. ~(pc = "store" /\ rest[1].id = v)
          <6>1. pc = "store" => 1 \in DOMAIN rest
            BY <1>0, AtHand DEF RoundOK
          <6> QED
            BY <2>6, <2>9, <6>1 DEF Wids
        <5>3. Held(v, k)' = truth[o][k]
          BY <1>1, <2>2, <2>9, <5>2 DEF Held
        <5>4. Gap(k, truth[o][k], truth[o][k]) = 0
          BY <5>1, GapIs
        <5>5. Owed(v, k)' = 0
          BY <1>1, <2>1, <2>2, <2>9, <4>4, <5>3, <5>4 DEF Owed, FactOwed
        <5> QED
          BY <4>2, <5>5
      <4> QED
        BY <4>3, <4>4
    <3>2. ASSUME NEW k \in Keys[o] PROVE Paid(v, k)'
      <4>1. k \in Key
        BY <3>2, MonitorAssumption
      <4>2. PICK c \in Nat, g \in Nat, q \in Nat :
                c = changes[v][k] /\ g = lag'[v][k] /\ q = Owed(v, k)' /\ q <= g
        <5>1. changes[v][k] \in Nat
          BY <1>0, <4>1 DEF TypeOK
        <5>2. lag'[v][k] \in Nat
          BY <2>3, <4>1 DEF TypeOK
        <5> QED
          BY <3>1, <5>1, <5>2
      <4>3. PICK x \in Nat : x = FalseAlerts(k) * outages
        <5>1. FalseAlerts(k) \in {1, 2} /\ outages \in Nat
          BY <1>0 DEF TypeOK, FalseAlerts
        <5> QED
          BY <5>1, OneMore
      <4>4. alerts'[v][k] = 0
        BY <1>1, <2>1, <2>9, <4>1 DEF Zero
      <4>5. FalseAlerts(k) * outages' = x
        BY <1>1, <4>3
      <4>6. 0 + q <= c + g + x
        BY <4>2, <4>3
      <4> QED
        BY <1>1, <4>2, <4>4, <4>5, <4>6 DEF Paid
    <3>3. \A k \in Key : alerts[v][k] = 0
      BY <2>1, <2>9 DEF Zero
    <3> QED
      BY <1>1, <2>1, <2>2, <2>9, <3>2, <3>3 DEF AccountsOf, Watched
  <2> QED
    BY <2>3, <2>4, <2>5, <2>7, <2>8, <2>9 DEF IInv, Accounts
<1> QED
  BY <1>2, <1>3 DEF AddWatchInserts

LEMMA DeleteWatchKeeps == ASSUME NEW v \in Wids PROVE IInv /\ DeleteWatch(v) => IInv'
<1> SUFFICES ASSUME IInv, DeleteWatch(v) PROVE IInv'
  OBVIOUS
<1>0. TypeOK /\ WatchedGiven /\ RoundOK /\ Accounts /\ NothingOfUnwatched
  BY DEF IInv
<1>1. /\ UNCHANGED <<truth, listing, cache, outages, changes, lag>>
      /\ UNCHANGED <<exists, flips, faults, adding, nextW, pc, rest, txn, seen, failed>>
      /\ watch' = [watch EXCEPT ![v] = None]
      /\ sig' = [sig EXCEPT ![v] = None]
      /\ alerts' = [alerts EXCEPT ![v] = Zero]
  BY DEF DeleteWatch, world, worker
<1>2. /\ watch'[v] = None /\ sig'[v] = None /\ alerts'[v] = Zero
      /\ \A w \in Wids : w # v => /\ watch'[w] = watch[w] /\ sig'[w] = sig[w]
                                   /\ alerts'[w] = alerts[w]
  BY <1>0, <1>1 DEF TypeOK
<1>3. TypeOK'
  <2>1. watch' \in [Wids -> Ref \cup {None}] /\ sig' \in [Wids -> Signature \cup {None}]
    BY <1>0, <1>1 DEF TypeOK
  <2>2. alerts' \in [Wids -> [Key -> Nat]]
    BY <1>0, <1>1 DEF TypeOK, Zero
  <2> QED
    BY <1>0, <1>1, <2>1, <2>2 DEF TypeOK
<1>4. NothingOfUnwatched' /\ WatchedGiven'
  BY <1>0, <1>1, <1>2 DEF NothingOfUnwatched, WatchedGiven, Watched
<1>5. RoundOK'
  <2>1. \A n \in DOMAIN rest : rest[n].id \in Wids
    BY <1>0, RestIds
  <2>2. \A n \in DOMAIN rest :
          watch'[rest[n].id] # None => watch'[rest[n].id] = watch[rest[n].id]
                                       /\ sig'[rest[n].id] = sig[rest[n].id]
    BY <1>2, <2>1
  <2> QED
    BY <1>0, <1>1, <2>2 DEF RoundOK, Watched
<1>6. ASSUME NEW w \in Wids PROVE AccountsOf(w)'
  <2>1. CASE w = v
    BY <1>2, <2>1 DEF AccountsOf, Watched
  <2>2. CASE w # v
    <3>1. /\ watch'[w] = watch[w] /\ lag'[w] = lag[w] /\ AccountsOf(w) /\ Outage
          /\ sig'[w] = sig[w] /\ alerts'[w] = alerts[w]
      BY <1>0, <1>1, <1>2, <2>2 DEF Accounts, Outage
    <3>2. \A k \in Key : Held(w, k)' = Held(w, k)
      BY <1>1, <3>1 DEF Held
    <3> QED
      BY <1>0, <1>1, <1>3, <3>1, <3>2, RowUntouched
  <2> QED
    BY <2>1, <2>2
<1> QED
  BY <1>3, <1>4, <1>5, <1>6 DEF IInv, Accounts
-----------------------------------------------------------------------------
(* The step that stores.                                                   *)

LEMMA ReadingType ==
    ASSUME TypeOK, NEW o \in Ref PROVE Reading(o) \in Signature /\ Reading(o) # None
<1>1. ASSUME NEW k \in Key
      PROVE  (IF k \notin Keys[o] THEN Missing
              ELSE IF k \in Flag THEN LooksUp(o, k)
              ELSE IF k = "findings" THEN truth[o][k] ELSE seen) \in Value
  <2>1. LooksUp(o, k) \in Value
    BY DEF LooksUp, Value
  <2>2. k = "findings" => truth[o][k] \in Nat
    BY DEF TypeOK, Fact, Count
  <2> QED
    BY <2>1, <2>2 DEF TypeOK, Value
<1>2. Reading(o) \in [Key -> Value]
  BY <1>1 DEF Reading
<1> QED
  BY <1>2, MonitorAssumption DEF Signature, Value, Missing

\* What an alert adds.
LEMMA AmountType ==
    ASSUME NEW o \in Ref, NEW b \in Signature \cup {None}, NEW s \in Signature,
           NEW k \in Diff(o, b, s)
    PROVE  b # None /\ Amount(k, b[k], s[k]) \in Nat /\ Changed(k, b[k], s[k])
<1>1. b # None /\ k \in Keys[o] /\ Changed(k, b[k], s[k])
  BY DEF Diff, Falsy
<1>2. k \in Key
  BY <1>1, MonitorAssumption
<1>3. b[k] \in Int /\ s[k] \in Int
  BY <1>1, <1>2 DEF Signature, Value, Missing
<1>4. CASE k \in Count
  <2>1. s[k] > b[k]
    BY <1>1, <1>4 DEF Changed, Count, Flag
  <2> QED
    BY <1>1, <1>3, <1>4, <2>1 DEF Amount
<1>5. CASE k \notin Count
  BY <1>1, <1>5 DEF Amount
<1> QED
  BY <1>4, <1>5

\* What is looked up as listed is visible, and the other way round if every list
\* the item needs is at hand.
LEMMA LooksUpSees ==
    ASSUME NEW o, NEW k
    PROVE  /\ LooksUp(o, k) = 1 => Visible(o, k)
           /\ failed = {} /\ Lacking(o) = {} /\ Visible(o, k) => LooksUp(o, k) = 1
<1>1. LooksUp(o, k) = 1 => Visible(o, k)
  BY DEF LooksUp, Visible, View, Missing
<1>2. ASSUME failed = {}, Lacking(o) = {}, Visible(o, k) PROVE LooksUp(o, k) = 1
  <2>1. PICK l \in Consulted(o) : KeyOf(l) = k /\ o \in View(l)
    BY <1>2 DEF Visible
  <2>2. CASE cache[l] # None
    BY <1>2, <2>1, <2>2 DEF LooksUp, View
  <2>3. CASE cache[l] = None
    <3>1. Settled(o, l)
      BY <1>2, <2>1, <2>3 DEF Lacking
    <3>2. l = "urlhaus" /\ cache["cert"] # None /\ o \in cache["cert"]
      BY <1>2, <3>1 DEF Settled
    <3>3. "cert" \in Consulted(o) /\ KeyOf("cert") = k
      BY <2>1, <3>2 DEF Consulted, KeyOf, List
    <3> QED
      BY <1>2, <3>2, <3>3 DEF LooksUp
  <2> QED
    BY <2>2, <2>3
<1> QED
  BY <1>1, <1>2

\* The accounts of the row at hand after its reading is stored: what is alerted
\* was owed, except for the keys whose lists could not be downloaded.
LEMMA StoredKeeps ==
    ASSUME IInv, TypeOK', pc = "store", pc' = "read",
           UNCHANGED <<truth, listing, cache, watch, lag, changes>>,
           outages' = IF failed = {} THEN outages ELSE outages + 1,
           Lacking(Item.ref) = {}, StoreItem(Reading(Item.ref)), NEW w \in Wids, w = Item.id
    PROVE  AccountsOf(w)'
<1>0. TypeOK /\ RoundOK /\ Accounts /\ rest # <<>>
  BY DEF IInv, RoundOK
<1>1. PICK o \in Ref, b \in Signature \cup {None} :
          /\ o = Item.ref /\ b = Item.sig /\ Watched(w)
          /\ watch[w] = o /\ sig[w] = b /\ rest[1].id = w
  BY <1>0, AtHand DEF RoundOK, StoreItem
<1>2. PICK s \in Signature : s = Reading(o) /\ s # None
  BY <1>0, ReadingType
<1>3. /\ sig'[w] = s /\ watch'[w] = o
      /\ \A k \in Key : alerts'[w][k] = IF k \in Diff(o, b, s)
                                       THEN alerts[w][k] + Amount(k, b[k], s[k])
                                       ELSE alerts[w][k]
  BY <1>0, <1>1, <1>2 DEF StoreItem, TypeOK
<1>4. ASSUME NEW k \in Keys[o] PROVE Paid(w, k)'
  <2>1. k \in Key
    BY <1>4, MonitorAssumption
  <2>2. PICK a \in Nat, c \in Nat, g \in Nat, f \in {1, 2} :
            /\ a = alerts[w][k] /\ c = changes[w][k] /\ g = lag[w][k]
            /\ f = FalseAlerts(k)
    BY <1>0, <1>1, <2>1, RowTypes
  <2>3. PICK x \in Nat, y \in Nat :
            /\ x = f * outages /\ y = f * outages'
            /\ y = IF failed = {} THEN x ELSE x + f
    <3>1. outages \in Nat
      BY <1>0 DEF TypeOK
    <3>2. f * outages \in Nat /\ f * (outages + 1) = f * outages + f
      BY <3>1, OneMore
    <3>3. CASE failed = {}
      BY <3>2, <3>3
    <3>4. CASE failed # {}
      BY <3>2, <3>4
    <3> QED
      BY <3>3, <3>4
  <2>4. PICK p \in Nat : p = Owed(w, k) /\ a + p <= c + g + x
    BY <1>0, <1>1, <2>1, <2>2, <2>3, OwedType DEF OwedNat, Accounts, AccountsOf, Paid
  <2>5. PICK q \in Nat : q = Owed(w, k)'
    <3>1. Watched(w)'
      BY <1>1, <1>3 DEF Watched
    <3> QED
      BY <2>1, <3>1, OwedTypeNext DEF OwedNat
  <2>6. b # None => b[k] \in Int
    BY <1>0, <1>1, <2>1, RowTypes
  <2>7. PICK n \in Nat : n = alerts'[w][k] /\ \/ n = a
                                              \/ /\ n = a + Amount(k, b[k], s[k])
                                                 /\ b # None /\ Changed(k, b[k], s[k])
    <3>1. alerts'[w][k] \in Nat
      BY <2>1 DEF TypeOK
    <3>2. k \in Diff(o, b, s) => b # None /\ Changed(k, b[k], s[k])
      BY AmountType
    <3> QED
      BY <1>3, <2>1, <2>2, <3>1, <3>2
  <2>8. SUFFICES n + q <= c + g + y
    BY <1>1, <2>2, <2>3, <2>5, <2>7 DEF Paid
  <2>9. CASE k \notin Flag
    <3>1. PICK t \in Int, h \in Int : t = truth[o][k] /\ h = Held(w, k)
      BY <1>0, <1>1, <2>1, <2>9, RowTypes DEF Key
    <3>2. s[k] = h
      BY <1>1, <1>2, <1>4, <2>1, <2>9, <3>1 DEF Reading, Held
    <3>3. q = Gap(k, t, t) + Gap(k, t, h)
      <4>1. Held(w, k)' = t
        BY <1>1, <1>3, <3>1 DEF Held
      <4> QED
        BY <1>1, <1>2, <1>3, <2>5, <2>9, <3>1, <3>2, <4>1 DEF Owed, FactOwed
    <3>4. p = Gap(k, t, h) + (IF b = None THEN 0 ELSE Gap(k, h, b[k]))
      BY <1>1, <2>4, <2>9, <3>1 DEF Owed, FactOwed
    <3>5. b # None /\ Changed(k, b[k], s[k]) => Amount(k, b[k], s[k]) = Gap(k, h, b[k])
      BY <2>6, <2>9, <3>1, <3>2 DEF Changed, Amount, Gap, Pos, Count
    <3>6. /\ Gap(k, t, t) = 0 /\ Gap(k, t, h) \in Nat
          /\ b # None => Gap(k, h, b[k]) \in Nat
      BY <2>6, <3>1, GapIs
    <3>7. n + q <= a + p
      BY <2>7, <3>3, <3>4, <3>5, <3>6
    <3> QED
      BY <2>3, <2>4, <3>7
  <2>10. CASE k \in Flag
    <3>1. s[k] = LooksUp(o, k)
      BY <1>2, <1>4, <2>1, <2>10 DEF Reading
    <3>2. PICK e \in Nat : e = Cardinality(Outdated(o, k))
      BY OutdatedCount
    <3>3. p = e + IF b # None /\ b[k] # 1 /\ Visible(o, k) THEN 1 ELSE 0
      BY <1>1, <2>4, <2>10, <3>2 DEF Owed, FlagOwed
    <3>4. q = e + IF s[k] # 1 /\ Visible(o, k) THEN 1 ELSE 0
      BY <1>1, <1>2, <1>3, <2>5, <2>10, <3>2
      DEF Owed, FlagOwed, Outdated, Visible, View
    <3>5. b # None /\ Changed(k, b[k], s[k])
            => Amount(k, b[k], s[k]) = 1 /\ s[k] = 1 /\ b[k] # 1
      BY <2>10 DEF Changed, Amount, Count, Flag
    <3>6. CASE s[k] = 1
      <4>1. Visible(o, k)
        BY <3>1, <3>6, LooksUpSees
      <4> QED
        BY <2>3, <2>4, <2>7, <3>3, <3>4, <3>5, <3>6, <4>1
    <3>7. CASE s[k] # 1 /\ failed = {}
      <4>1. ~Visible(o, k)
        BY <1>1, <3>1, <3>7, LooksUpSees
      <4> QED
        BY <2>3, <2>4, <2>7, <3>3, <3>4, <3>5, <3>7, <4>1
    <3>8. CASE s[k] # 1 /\ failed # {}
      <4>1. n = a /\ q <= e + 1 /\ e <= p
        BY <2>7, <3>3, <3>4, <3>5, <3>8
      <4> QED
        BY <2>2, <2>3, <2>4, <3>8, <4>1
    <3> QED
      BY <3>6, <3>7, <3>8
  <2> QED
    BY <2>9, <2>10
<1>5. ASSUME NEW k \in Key \ Keys[o] PROVE alerts'[w][k] = 0
  BY <1>0, <1>1, <1>3, <1>5 DEF Accounts, AccountsOf, Diff
<1> QED
  BY <1>2, <1>3, <1>4, <1>5 DEF AccountsOf

LEMMA CheckKeeps == IInv /\ Check => IInv'
<1> SUFFICES ASSUME IInv, Check PROVE IInv'
  OBVIOUS
<1>0. TypeOK /\ WatchedGiven /\ RoundOK /\ Accounts /\ NothingOfUnwatched /\ rest # <<>>
  BY DEF IInv, RoundOK, Check
<1>1. /\ UNCHANGED <<exists, truth, listing, flips, cache, faults, changes>>
      /\ pc = "store" /\ pc' = "read" /\ rest' = Tail(rest) /\ seen' = 0 /\ failed' = {}
      /\ Lacking(Item.ref) = {}
      /\ outages' = IF failed = {} THEN outages ELSE outages + 1
      /\ StoreItem(Reading(Item.ref)) \/ StoreVanished(Reading(Item.ref))
  BY DEF Check
<1>2. /\ Item = rest[1] /\ 1 \in DOMAIN rest
      /\ Item.id \in Wids /\ Item.ref \in Ref /\ Item.sig \in Signature \cup {None}
      /\ Tail(rest) \in Seq([id : Wids, ref : Ref, sig : Signature \cup {None}])
  BY <1>0, AtHand
<1>3. /\ UNCHANGED <<adding, watch, nextW, lag>>
      /\ txn' \in {"ok", "aborted"}
      /\ sig' \in [Wids -> Signature \cup {None}]
      /\ alerts' \in [Wids -> [Key -> Nat]]
      /\ \A w \in Wids : w # Item.id \/ ~Watched(w) =>
             sig'[w] = sig[w] /\ alerts'[w] = alerts[w]
  <2>1. CASE StoreVanished(Reading(Item.ref))
    BY <1>0, <2>1 DEF StoreVanished, table, TypeOK
  <2>2. CASE StoreItem(Reading(Item.ref))
    <3> DEFINE s == Reading(Item.ref)
    <3>1. s \in Signature
      BY <1>0, <1>2, ReadingType
    <3>2. sig' = [sig EXCEPT ![Item.id] = s] /\ UNCHANGED <<adding, watch, nextW, lag, txn>>
          /\ Watched(Item.id)
      BY <2>2 DEF StoreItem
    <3>3. alerts' = [alerts EXCEPT ![Item.id] =
                      [k \in Key |-> IF k \in Diff(Item.ref, Item.sig, s)
                                     THEN @[k] + Amount(k, Item.sig[k], s[k]) ELSE @[k]]]
      BY <2>2 DEF StoreItem
    <3> HIDE DEF s
    <3>4. ASSUME NEW k \in Key
          PROVE  (IF k \in Diff(Item.ref, Item.sig, s)
                  THEN alerts[Item.id][k] + Amount(k, Item.sig[k], s[k])
                  ELSE alerts[Item.id][k]) \in Nat
      <4>1. alerts[Item.id][k] \in Nat
        BY <1>0, <1>2 DEF TypeOK
      <4>2. k \in Diff(Item.ref, Item.sig, s) => Amount(k, Item.sig[k], s[k]) \in Nat
        BY <1>2, <3>1, AmountType
      <4> QED
        BY <4>1, <4>2
    <3>5. alerts' \in [Wids -> [Key -> Nat]]
      BY <1>0, <3>3, <3>4 DEF TypeOK
    <3>6. sig' \in [Wids -> Signature \cup {None}]
      BY <1>0, <3>1, <3>2 DEF TypeOK
    <3>7. \A w \in Wids : w # Item.id => sig'[w] = sig[w] /\ alerts'[w] = alerts[w]
      BY <1>0, <3>2, <3>3 DEF TypeOK
    <3> QED
      BY <1>0, <3>2, <3>5, <3>6, <3>7 DEF TypeOK
  <2> QED
    BY <1>1, <2>1, <2>2
<1>4. TypeOK'
  <2>1. outages' \in Nat
    BY <1>0, <1>1 DEF TypeOK
  <2>2. seen' \in Value
    BY <1>1 DEF Value
  <2> QED
    BY <1>0, <1>1, <1>2, <1>3, <2>1, <2>2 DEF TypeOK
<1>5. NothingOfUnwatched' /\ WatchedGiven'
  BY <1>0, <1>3 DEF NothingOfUnwatched, WatchedGiven, Watched
<1>6. RoundOK'
  BY <1>0, <1>1, <1>3, TailKeeps
<1>7. ASSUME NEW w \in Wids, w # Item.id \/ ~Watched(w) PROVE AccountsOf(w)'
  <2>1. /\ watch'[w] = watch[w] /\ lag'[w] = lag[w] /\ AccountsOf(w) /\ Outage
        /\ sig'[w] = sig[w] /\ alerts'[w] = alerts[w]
    BY <1>0, <1>1, <1>3, <1>7 DEF Accounts, Outage
  <2>2. Watched(w) => \A k \in Key : Held(w, k)' = Held(w, k)
    BY <1>1, <1>2, <1>7, <2>1 DEF Held
  <2> QED
    BY <1>0, <1>1, <1>4, <2>1, <2>2, RowUntouched
<1>8. ASSUME NEW w \in Wids, w = Item.id, Watched(w) PROVE AccountsOf(w)'
  <2>1. StoreItem(Reading(Item.ref))
    BY <1>1, <1>8 DEF StoreVanished
  <2> QED
    BY <1>1, <1>3, <1>4, <1>8, <2>1, StoredKeeps
<1> QED
  BY <1>4, <1>5, <1>6, <1>7, <1>8 DEF IInv, Accounts
-----------------------------------------------------------------------------
(* The theorems.                                                           *)

LEMMA NextIInv == IInv /\ [Next]_vars => IInv'
<1> SUFFICES ASSUME IInv, [Next]_vars PROVE IInv'
  OBVIOUS
<1>1. CASE World
  BY <1>1, DeleteKeeps, FlipKeeps, RelistKeeps DEF World
<1>2. CASE API
  BY <1>2, AddReadsKeeps, AddInsertsKeeps, DeleteWatchKeeps DEF API
<1>3. CASE Worker
  BY <1>3, ConnectKeeps, BeginKeeps, RefusedKeeps, ReadKeeps, SkipKeeps, EndKeeps,
     CheckKeeps, DownloadKeeps, DownloadOtherKeeps, FailedDownloadKeeps DEF Worker
<1>4. CASE ResolverFails
  BY <1>4, ResolverKeeps
<1>5. CASE Fail
  BY <1>5, FailKeeps
<1>6. CASE \E l \in List : Expire(l)
  BY <1>6, ExpireKeeps
<1>7. CASE UNCHANGED vars
  <2>1. /\ UNCHANGED <<truth, listing, cache, outages, watch, nextW, sig, alerts, lag, changes>>
        /\ UNCHANGED <<exists, flips, adding, faults, txn, seen, rest, pc, failed>>
    BY <1>7 DEF vars, world, table, worker
  <2>2. TypeOK' /\ RoundOK'
    BY <2>1 DEF IInv, TypeOK, RoundOK, Watched
  <2> QED
    BY <2>1, <2>2, NothingOwed
<1> QED
  BY <1>1, <1>2, <1>3, <1>4, <1>5, <1>6, <1>7 DEF Next

LEMMA AlwaysIInv == Spec => []IInv
<1>1. Init => IInv
  BY InitIInv
<1>2. IInv /\ [Next]_vars => IInv'
  BY NextIInv
<1> QED
  BY <1>1, <1>2, PTL DEF Spec

\* Every variable of the watchlist, the alerts and the worker keeps its type.
THEOREM TypeCorrect == Spec => []TypeOK
<1>1. IInv => TypeOK
  BY DEF IInv
<1> QED
  BY <1>1, AlwaysIInv, PTL

\* A watchlist row deleted in the middle of a round leaves neither alerts nor a
\* signature, and the worker stores none for it afterwards.
THEOREM NothingStoredOfUnwatched == Spec => []NothingOfUnwatched
<1>1. IInv => NothingOfUnwatched
  BY DEF IInv
<1> QED
  BY <1>1, AlwaysIInv, PTL

\* The accounts of a row bound its alerts.
LEMMA AccountsBound == IInv => AlertsBounded
<1> SUFFICES ASSUME IInv, NEW w \in Wids, Watched(w), NEW k \in Key
             PROVE  alerts[w][k] <= changes[w][k] + lag[w][k] + FalseAlerts(k) * outages
  BY DEF AlertsBounded
<1>0. TypeOK /\ AccountsOf(w)
  BY DEF IInv, Accounts
<1>1. PICK a \in Nat, c \in Nat, g \in Nat, f \in {1, 2} :
          /\ a = alerts[w][k] /\ c = changes[w][k] /\ g = lag[w][k]
          /\ f = FalseAlerts(k)
  BY <1>0, RowTypes
<1>2. outages \in Nat /\ f * outages \in Nat
  BY <1>0, OneMore DEF TypeOK
<1>3. Owed(w, k) \in Nat
  BY <1>0, OwedType DEF OwedNat
<1>4. CASE k \in Keys[watch[w]]
  <2>1. a + Owed(w, k) <= c + g + f * outages
    BY <1>0, <1>1, <1>4 DEF AccountsOf, Paid
  <2> QED
    BY <1>1, <1>2, <1>3, <2>1
<1>5. CASE k \notin Keys[watch[w]]
  <2>1. a = 0
    BY <1>0, <1>1, <1>5 DEF AccountsOf
  <2> QED
    BY <1>1, <1>2, <2>1
<1> QED
  BY <1>4, <1>5

\* However the worker crashes, aborts, loses its rows or looks into old copies of
\* the lists: every alert is paid for by a change of the watched object since its
\* row exists, by a copy that was out of date then, or by a failed reading.
THEOREM AlertsArePaidFor == Spec => []AlertsBounded
<1>1. IInv => AlertsBounded
  BY AccountsBound
<1> QED
  BY <1>1, AlwaysIInv, PTL

\* What the documentation says of alerts holds of every row and key whose lists
\* the worker had no outdated copy of when the watch began, as long as no reading
\* fails: old copies and failures are all there is to an alert without a change.
THEOREM NoThirdCause ==
    Spec => [](outages = 0 => \A w \in Wids, k \in Key :
                  Watched(w) /\ lag[w][k] = 0 => alerts[w][k] <= changes[w][k])
<1> DEFINE Justified ==
             outages = 0 => \A w \in Wids, k \in Key :
                 Watched(w) /\ lag[w][k] = 0 => alerts[w][k] <= changes[w][k]
<1>1. IInv => Justified
  <2> SUFFICES ASSUME IInv, outages = 0, NEW w \in Wids, NEW k \in Key, Watched(w),
                      lag[w][k] = 0
               PROVE  alerts[w][k] <= changes[w][k]
    OBVIOUS
  <2>1. PICK a \in Nat, c \in Nat, f \in {1, 2} :
            a = alerts[w][k] /\ c = changes[w][k] /\ f = FalseAlerts(k)
    BY RowTypes DEF IInv
  <2>2. a <= c + 0 + f * 0
    BY <2>1, AccountsBound DEF AlertsBounded
  <2>3. f * 0 = 0
    BY <2>1
  <2> QED
    BY <2>1, <2>2, <2>3
<1> QED
  BY <1>1, AlwaysIInv, PTL

=============================================================================
