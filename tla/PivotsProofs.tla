---------------------------- MODULE PivotsProofs ----------------------------
(***************************************************************************)
(* Theorems about Pivots, for all indicators, addresses and AS numbers,    *)
(* and any number of commits and failing statements.                       *)
(***************************************************************************)
EXTENDS Pivots, TLAPS

-----------------------------------------------------------------------------
(* The inductive invariant.                                                *)

\* Rows exist with their indicator only, and a row that calls its addresses a
\* CDN's has some, all of which are remembered.
RowsOfLive ==
    /\ \A i \in Ioc : ~Live(i) => dns[i] = {} /\ cdn[i] = {} /\ as[i] = None
    /\ \A i \in behind : cdn[i] # {} /\ cdn[i] \subseteq everCdn

\* What the handler speaks of has been registered, so that what is not live
\* among it will not be again.
Known(i) == reg[i] # "new"

\* The locals, by the statements already answered.
Stage ==
    /\ pc \in {"idle", "focal"} => focalIPs = {}
    /\ pc \in {"idle", "focal", "cdn"} => cdnIPs = {}
    /\ pc # "each" => rest = {}
    /\ pc \in {"idle", "focal", "cdn", "related"} => related = {}
    /\ pc \in {"idle", "focal", "cdn", "related", "each", "asn"} => focalAsn = None
    /\ pc = "peers" => focalAsn # None
    /\ pc # "answer" => byAsn = {}
    /\ pc = "answer" /\ focalAsn = None => byAsn = {}
    /\ rest \cap related = {}
    /\ pc \in {"cdn", "related", "each"} => focalIPs # {}
    /\ focal # None => Known(focal) /\ focal \notin must
    /\ \A j \in rest \cup related \cup must : Known(j)
    /\ cdnIPs \subseteq everCdn

\* What was related when the handler began still is, as far as it exists, and is
\* found by each statement that no other has failed before.
MustFound ==
    pc # "idle" /\ Live(focal) =>
        \A j \in must : Live(j) =>
            /\ IpsForIOC(focal) \cap IpsForIOC(j) # {}
            /\ ~failed /\ pc # "focal" => focalIPs \cap IpsForIOC(j) # {}
            /\ ~failed /\ pc \notin {"focal", "cdn", "related"} => j \in rest \cup related

\* A relation found has a shared address, until its indicator goes.
Reasons ==
    ~failed =>
        /\ \A j \in rest : Live(j) => focalIPs \cap IpsForIOC(j) # {}
        /\ \A j \in related : Live(j) => shared[j] # {}

\* The others that share an address with those of the handler's indicator.
Sharers == {j \in Ioc \ {focal} : Live(j) /\ focalIPs \cap IpsForIOC(j) # {}}

\* As long as nothing has changed, the locals are what the database says.
Calm ==
    calm /\ pc # "idle" =>
        /\ pc # "focal" => focalIPs = IpsForIOC(focal)
        /\ pc \notin {"focal", "cdn"} /\ focalIPs # {} => cdnIPs = CdnIPSet
        /\ pc \notin {"focal", "cdn", "related"} => rest \cup related = Sharers
        /\ \A j \in related : shared[j] = focalIPs \cap IpsForIOC(j)
        /\ \A j \in related : j \in low <=> shared[j] \subseteq cdnIPs
        /\ pc \in {"peers", "answer"} => focalAsn = as[focal]
        /\ pc = "answer" /\ focalAsn # None => byAsn = Peers

IInv ==
    /\ TypeOK
    /\ RowsOfLive
    /\ Stage
    /\ WeakOnlyOverCdn
    /\ MustFound
    /\ Reasons
    /\ Calm
-----------------------------------------------------------------------------
(* Lemmas about the operators.                                             *)

\* What a reader of the whole database calls i's addresses is what ipsForIOC
\* returns.
LEMMA AddressesAreRead == \A i : Addresses(i) = IpsForIOC(i)
BY DEF Addresses, IpsForIOC

\* Of the assumption only this is needed.
LEMMA Constants ==
    /\ Own \in [Ioc -> SUBSET Addr]
    /\ MaxCommits \in Nat /\ MaxErrors \in Nat
    /\ None \notin Asn /\ None \notin Ioc
BY PivotsAssumption

\* A query answered in part finds nothing that the whole does not.
LEMMA PartOfIps == ASSUME NEW i PROVE \A ips \in IpsReadOf(i) : ips \subseteq IpsForIOC(i)
BY DEF IpsReadOf, IpsForIOC

\* The main query finds who has one of the addresses.
LEMMA RelatedAreSharers == RelatedBy = Sharers
BY DEF RelatedBy, Sharers, IpsForIOC

LEMMA IpsType == ASSUME TypeOK, NEW i \in Ioc PROVE IpsForIOC(i) \subseteq Addr
BY Constants DEF TypeOK, IpsForIOC
-----------------------------------------------------------------------------
(* Every step keeps the invariant.                                         *)

LEMMA InitIInv == Init => IInv
<1> SUFFICES ASSUME Init PROVE IInv
  OBVIOUS
<1>1. TypeOK
  <2>1. commits \in 0 .. MaxCommits /\ errors \in 0 .. MaxErrors
    BY Constants DEF Init
  <2>2. /\ reg \in [Ioc -> {"new", "live", "gone"}]
        /\ dns \in [Ioc -> SUBSET Addr] /\ cdn \in [Ioc -> SUBSET Addr]
        /\ as \in [Ioc -> Asn \cup {None}] /\ shared \in [Ioc -> SUBSET Addr]
    BY DEF Init, Cleared
  <2> QED
    BY <2>1, <2>2 DEF Init, TypeOK
<1>2. RowsOfLive /\ Stage /\ WeakOnlyOverCdn
  BY DEF Init, RowsOfLive, Stage, WeakOnlyOverCdn, Cleared
<1>3. MustFound /\ Reasons /\ Calm
  BY DEF Init, MustFound, Reasons, Calm
<1> QED
  BY <1>1, <1>2, <1>3 DEF IInv

LEMMA AddKeeps == ASSUME NEW i \in Ioc PROVE IInv /\ AddIOC(i) => IInv'
<1> SUFFICES ASSUME IInv, AddIOC(i) PROVE IInv'
  OBVIOUS
<1>1. /\ reg[i] = "new" /\ reg' = [reg EXCEPT ![i] = "live"] /\ calm' = FALSE
      /\ UNCHANGED <<dns, cdn, behind, as, commits, pc, focal, focalIPs, cdnIPs, rest, shared,
                     low, related, byAsn, focalAsn, errors, failed, must, everCdn>>
  BY DEF AddIOC, locals
<1>2. TypeOK'
  BY <1>1 DEF IInv, TypeOK
<1>3. \A j \in Ioc : (Live(j)' => Live(j) \/ j = i) /\ (Known(j) => Known(j)' /\ j # i)
  BY <1>1 DEF IInv, TypeOK, Live, Known
<1>4. RowsOfLive'
  BY <1>1, <1>3 DEF IInv, RowsOfLive, TypeOK, Live
<1>5. Stage' /\ WeakOnlyOverCdn'
  BY <1>1, <1>3 DEF IInv, TypeOK, Stage, WeakOnlyOverCdn, Known
<1>6. MustFound'
  BY <1>1, <1>3 DEF IInv, TypeOK, Stage, MustFound, IpsForIOC, Live
<1>7. Reasons'
  BY <1>1, <1>3 DEF IInv, TypeOK, Stage, Reasons, IpsForIOC, Live
<1> QED
  BY <1>1, <1>2, <1>4, <1>5, <1>6, <1>7 DEF IInv, Calm

LEMMA DeleteKeeps == ASSUME NEW i \in Ioc PROVE IInv /\ DeleteIOC(i) => IInv'
<1> SUFFICES ASSUME IInv, DeleteIOC(i) PROVE IInv'
  OBVIOUS
<1>1. /\ reg[i] = "live" /\ reg' = [reg EXCEPT ![i] = "gone"]
      /\ dns' = [dns EXCEPT ![i] = {}] /\ cdn' = [cdn EXCEPT ![i] = {}]
      /\ behind' = behind \ {i} /\ as' = [as EXCEPT ![i] = None] /\ calm' = FALSE
      /\ UNCHANGED <<commits, pc, focal, focalIPs, cdnIPs, rest, shared, low, related, byAsn,
                     focalAsn, errors, failed, must, everCdn>>
  BY DEF DeleteIOC, locals, Live
<1>2. TypeOK'
  BY <1>1 DEF IInv, TypeOK
<1>3. \A j \in Ioc : Live(j)' => Live(j) /\ j # i /\ dns'[j] = dns[j] /\ cdn'[j] = cdn[j]
  BY <1>1 DEF IInv, TypeOK, Live
<1>4. RowsOfLive'
  BY <1>1 DEF IInv, RowsOfLive, TypeOK, Live
<1>5. Stage' /\ WeakOnlyOverCdn'
  BY <1>1 DEF IInv, TypeOK, Stage, WeakOnlyOverCdn, Known
<1>6. MustFound'
  BY <1>1, <1>3 DEF IInv, TypeOK, Stage, MustFound, IpsForIOC, Live
<1>7. Reasons'
  BY <1>1, <1>3 DEF IInv, TypeOK, Stage, Reasons, IpsForIOC, Live
<1> QED
  BY <1>1, <1>2, <1>4, <1>5, <1>6, <1>7 DEF IInv, Calm

\* A commit adds rows to one live indicator: no address is lost.
LEMMA CommitKeeps ==
    ASSUME NEW i \in Ioc, IInv, TypeOK', RowsOfLive', Live(i),
           everCdn \subseteq everCdn',
           \A j \in Ioc : dns[j] \subseteq dns'[j] /\ cdn[j] \subseteq cdn'[j],
           calm' = FALSE,
           UNCHANGED <<reg, pc, focal, focalIPs, cdnIPs, rest, shared, low, related, byAsn,
                       focalAsn, errors, failed, must>>
    PROVE  IInv'
<1>1. Stage' /\ WeakOnlyOverCdn'
  BY DEF IInv, TypeOK, Stage, WeakOnlyOverCdn, Known
<1>2. MustFound'
  BY DEF IInv, TypeOK, Stage, MustFound, IpsForIOC, Live
<1>3. Reasons'
  BY DEF IInv, TypeOK, Stage, Reasons, IpsForIOC, Live
<1> QED
  BY <1>1, <1>2, <1>3 DEF IInv, Calm

LEMMA DnsKeeps ==
    ASSUME NEW i \in Ioc, NEW A \in (SUBSET Addr) \ {{}} PROVE IInv /\ CommitDns(i, A) => IInv'
<1> SUFFICES ASSUME IInv, CommitDns(i, A) PROVE IInv'
  OBVIOUS
<1>1. /\ Live(i) /\ dns[i] = {} /\ dns' = [dns EXCEPT ![i] = A] /\ calm' = FALSE
      /\ commits < MaxCommits /\ commits' = commits + 1
      /\ UNCHANGED <<reg, cdn, behind, as, pc, focal, focalIPs, cdnIPs, rest, shared, low,
                     related, byAsn, focalAsn, errors, failed, must, everCdn>>
  BY DEF CommitDns, WorkerCommits, locals
<1>2. TypeOK'
  <2>1. commits' \in 0 .. MaxCommits
    BY <1>1, Constants DEF IInv, TypeOK
  <2> QED
    BY <1>1, <2>1 DEF IInv, TypeOK
<1>3. RowsOfLive'
  BY <1>1 DEF IInv, TypeOK, RowsOfLive, Live
<1>4. \A j \in Ioc : dns[j] \subseteq dns'[j]
  BY <1>1 DEF IInv, TypeOK
<1> QED
  BY <1>1, <1>2, <1>3, <1>4, CommitKeeps

LEMMA CdnKeeps ==
    ASSUME NEW i \in Ioc, NEW A \in (SUBSET Addr) \ {{}}, NEW b \in BOOLEAN
    PROVE  IInv /\ CommitCdn(i, A, b) => IInv'
<1> SUFFICES ASSUME IInv, CommitCdn(i, A, b) PROVE IInv'
  OBVIOUS
<1>1. /\ Live(i) /\ cdn[i] = {} /\ cdn' = [cdn EXCEPT ![i] = A] /\ calm' = FALSE
      /\ behind' = IF b THEN behind \cup {i} ELSE behind
      /\ everCdn' = IF b THEN everCdn \cup A ELSE everCdn
      /\ commits < MaxCommits /\ commits' = commits + 1
      /\ UNCHANGED <<reg, dns, as, pc, focal, focalIPs, cdnIPs, rest, shared, low,
                     related, byAsn, focalAsn, errors, failed, must>>
  BY DEF CommitCdn, WorkerCommits, locals
<1>2. TypeOK'
  <2>1. commits' \in 0 .. MaxCommits
    BY <1>1, Constants DEF IInv, TypeOK
  <2> QED
    BY <1>1, <2>1 DEF IInv, TypeOK
<1>3. RowsOfLive'
  <2>1. \A j \in Ioc : j # i => cdn'[j] = cdn[j]
    BY <1>1 DEF IInv, TypeOK
  <2>2. cdn'[i] = A /\ i \notin behind /\ (i \in behind' => A \subseteq everCdn')
    BY <1>1 DEF IInv, TypeOK, RowsOfLive
  <2>3. \A j \in behind' : cdn'[j] # {} /\ cdn'[j] \subseteq everCdn'
    <3> SUFFICES ASSUME NEW j \in behind' PROVE cdn'[j] # {} /\ cdn'[j] \subseteq everCdn'
      OBVIOUS
    <3>1. everCdn \subseteq everCdn' /\ j \in Ioc
      BY <1>1, <1>2 DEF TypeOK
    <3>2. CASE j = i
      BY <2>2, <3>2
    <3>3. CASE j # i
      BY <1>1, <2>1, <3>1, <3>3 DEF IInv, RowsOfLive
    <3> QED
      BY <3>2, <3>3
  <2>4. \A j \in Ioc : ~Live(j)' => j # i /\ ~Live(j)
    BY <1>1 DEF Live
  <2> QED
    BY <1>1, <2>1, <2>3, <2>4 DEF IInv, RowsOfLive
<1>4. \A j \in Ioc : cdn[j] \subseteq cdn'[j]
  BY <1>1 DEF IInv, TypeOK
<1> QED
  BY <1>1, <1>2, <1>3, <1>4, CommitKeeps

LEMMA GeoipKeeps ==
    ASSUME NEW i \in Ioc, NEW a \in Asn PROVE IInv /\ CommitGeoip(i, a) => IInv'
<1> SUFFICES ASSUME IInv, CommitGeoip(i, a) PROVE IInv'
  OBVIOUS
<1>1. /\ Live(i) /\ as' = [as EXCEPT ![i] = a] /\ calm' = FALSE
      /\ commits < MaxCommits /\ commits' = commits + 1
      /\ UNCHANGED <<reg, dns, cdn, behind, pc, focal, focalIPs, cdnIPs, rest, shared, low,
                     related, byAsn, focalAsn, errors, failed, must, everCdn>>
  BY DEF CommitGeoip, WorkerCommits, locals
<1>2. TypeOK'
  <2>1. commits' \in 0 .. MaxCommits
    BY <1>1, Constants DEF IInv, TypeOK
  <2> QED
    BY <1>1, <2>1 DEF IInv, TypeOK
<1>3. RowsOfLive'
  BY <1>1 DEF IInv, TypeOK, RowsOfLive, Live
<1> QED
  BY <1>1, <1>2, <1>3, CommitKeeps
-----------------------------------------------------------------------------
(* The handler's statements change its locals only.                        *)

\* Under a statement of the handler the database stays as it is.
LEMMA DbStays ==
    ASSUME IInv, UNCHANGED <<db, everCdn>>
    PROVE  /\ UNCHANGED <<reg, dns, cdn, behind, as, commits>>
           /\ \A i : IpsForIOC(i)' = IpsForIOC(i) /\ Live(i)' = Live(i) /\ Known(i)' = Known(i)
           /\ CdnIPSet' = CdnIPSet
           /\ RowsOfLive'
<1>1. UNCHANGED <<reg, dns, cdn, behind, as, commits>>
  BY DEF db
<1>2. \A i : IpsForIOC(i)' = IpsForIOC(i) /\ Live(i)' = Live(i) /\ Known(i)' = Known(i)
  BY <1>1 DEF IpsForIOC, Live, Known
<1>3. CdnIPSet' = CdnIPSet
  BY <1>1 DEF CdnIPSet
<1>4. RowsOfLive'
  BY <1>1 DEF IInv, RowsOfLive, Live
<1> QED
  BY <1>1, <1>2, <1>3, <1>4

\* An answer that counts as undisturbed is a statement answered in full.
LEMMA Outcome ==
    ASSUME IInv, Succeeds \/ Fails
    PROVE  /\ errors' \in 0 .. MaxErrors /\ calm' \in BOOLEAN /\ failed' \in BOOLEAN
           /\ Fails => failed' /\ ~calm'
           /\ Succeeds => failed' = failed /\ calm' = calm
<1>1. errors' \in 0 .. MaxErrors
  BY Constants DEF IInv, TypeOK, Succeeds, Fails
<1> QED
  BY <1>1 DEF IInv, TypeOK, Succeeds, Fails

\* The type of the locals.
LocalsOK ==
    /\ pc \in {"idle", "focal", "cdn", "related", "each", "asn", "peers", "answer"}
    /\ focal \in Ioc \cup {None}
    /\ focalIPs \subseteq Addr /\ cdnIPs \subseteq Addr
    /\ focal = None <=> pc = "idle"
    /\ rest \cup related \subseteq Ioc \ {focal} /\ low \subseteq related
    /\ shared \in [Ioc -> SUBSET Addr]
    /\ byAsn \subseteq Ioc
    /\ focalAsn \in Asn \cup {None}
    /\ must \subseteq Ioc

LEMMA LocalsTyped == IInv => LocalsOK
BY DEF IInv, TypeOK, LocalsOK

LEMMA TypeStays ==
    ASSUME IInv, UNCHANGED <<db, everCdn>>, Succeeds \/ Fails, LocalsOK' PROVE TypeOK'
<1>1. errors' \in 0 .. MaxErrors /\ calm' \in BOOLEAN /\ failed' \in BOOLEAN
  BY Outcome
<1>2. commits' \in 0 .. MaxCommits
  BY DEF IInv, TypeOK, db
<1>3. /\ reg' \in [Ioc -> {"new", "live", "gone"}]
      /\ dns' \in [Ioc -> SUBSET Addr] /\ cdn' \in [Ioc -> SUBSET Addr]
      /\ behind' \subseteq Ioc /\ as' \in [Ioc -> Asn \cup {None}]
      /\ everCdn' \subseteq Addr
  BY DEF IInv, TypeOK, db
<1> QED
  BY <1>1, <1>2, <1>3 DEF TypeOK, LocalsOK

\* What the database calls a CDN's now has been called so.
LEMMA CdnIsRemembered == IInv => CdnIPSet \subseteq everCdn
BY DEF IInv, RowsOfLive, CdnIPSet

LEMMA BeginKeeps == ASSUME NEW i \in Ioc PROVE IInv /\ Begin(i) => IInv'
<1> SUFFICES ASSUME IInv, Begin(i) PROVE IInv'
  OBVIOUS
<1>1. /\ pc = "idle" /\ Live(i) /\ pc' = "focal" /\ focal' = i /\ calm' /\ failed' = FALSE
      /\ must' = Sharing(i)
      /\ UNCHANGED <<focalIPs, cdnIPs, rest, shared, low, related, byAsn, focalAsn,
                     errors, everCdn>>
  BY DEF Begin
<1>2. /\ UNCHANGED <<reg, dns, cdn, behind, as, commits>> /\ RowsOfLive'
      /\ \A j : IpsForIOC(j)' = IpsForIOC(j) /\ Live(j)' = Live(j) /\ Known(j)' = Known(j)
  BY DbStays DEF Begin
<1>3. \A j \in must' : j \in Ioc /\ j # i /\ Live(j) /\ IpsForIOC(i) \cap IpsForIOC(j) # {}
  BY <1>1, AddressesAreRead DEF Sharing
<1>4. focalIPs = {} /\ cdnIPs = {} /\ rest = {} /\ related = {} /\ focalAsn = None /\ byAsn = {}
  BY <1>1 DEF IInv, Stage
<1>5. TypeOK'
  <2>1. commits' \in 0 .. MaxCommits /\ errors' \in 0 .. MaxErrors /\ calm' \in BOOLEAN
    BY <1>1, <1>2 DEF Begin, IInv, TypeOK
  <2>2. i # None
    BY Constants
  <2> QED
    BY <1>1, <1>2, <1>3, <1>4, <2>1, <2>2 DEF IInv, TypeOK
<1>6. Stage'
  BY <1>1, <1>2, <1>3, <1>4 DEF IInv, Stage, Live, Known
<1>7. WeakOnlyOverCdn' /\ Reasons' /\ Calm'
  BY <1>1, <1>4 DEF IInv, WeakOnlyOverCdn, TypeOK, Reasons, Calm
<1>8. MustFound'
  BY <1>1, <1>2, <1>3 DEF MustFound
<1> QED
  BY <1>2, <1>5, <1>6, <1>7, <1>8 DEF IInv

LEMMA FocalKeeps == IInv /\ FocalIPs => IInv'
<1> SUFFICES ASSUME IInv, FocalIPs PROVE IInv'
  OBVIOUS
<1>1. /\ pc = "focal" /\ pc' = IF focalIPs' = {} THEN "asn" ELSE "cdn"
      /\ UNCHANGED <<focal, cdnIPs, rest, shared, low, related, byAsn, focalAsn,
                     must, everCdn>>
      /\ Succeeds \/ Fails
      /\ \/ focalIPs' = IpsForIOC(focal) /\ Succeeds
         \/ focalIPs' \in IpsReadOf(focal) /\ Fails
  BY DEF FocalIPs
<1>2. /\ UNCHANGED <<reg, dns, cdn, behind, as, commits>> /\ RowsOfLive'
      /\ \A j : IpsForIOC(j)' = IpsForIOC(j) /\ Live(j)' = Live(j) /\ Known(j)' = Known(j)
      /\ CdnIPSet' = CdnIPSet
  BY DbStays DEF FocalIPs
<1>3. /\ ~failed' \/ calm' => focalIPs' = IpsForIOC(focal)
      /\ (~failed' => ~failed) /\ (calm' => calm)
  BY <1>1, Outcome
<1>4. focal \in Ioc /\ focalIPs' \subseteq Addr
  BY <1>1, IpsType, PartOfIps DEF IInv, TypeOK
<1>5. cdnIPs = {} /\ rest = {} /\ related = {} /\ focalAsn = None /\ byAsn = {}
  BY <1>1 DEF IInv, Stage
<1>6. TypeOK'
  <2>1. LocalsOK'
    BY <1>1, <1>4, <1>5, LocalsTyped DEF LocalsOK
  <2> QED
    BY <1>1, <2>1, TypeStays DEF FocalIPs
<1>7. Stage'
  BY <1>1, <1>2, <1>5 DEF IInv, Stage
<1>8. WeakOnlyOverCdn' /\ Reasons'
  BY <1>1, <1>5 DEF IInv, WeakOnlyOverCdn, TypeOK, Reasons
<1>9. MustFound'
  BY <1>1, <1>2, <1>3 DEF IInv, MustFound
<1>10. Calm'
  <2> SUFFICES ASSUME calm' PROVE Calm'
    BY DEF Calm
  <2>1. focalIPs' = IpsForIOC(focal)'
    BY <1>1, <1>2, <1>3
  <2>2. focalIPs' = {} => Sharers' = {}
    BY DEF Sharers
  <2> QED
    BY <1>1, <1>5, <2>1, <2>2 DEF Calm
<1> QED
  BY <1>2, <1>6, <1>7, <1>8, <1>9, <1>10 DEF IInv

LEMMA CdnReadKeeps == IInv /\ ReadCdnIPs => IInv'
<1> SUFFICES ASSUME IInv, ReadCdnIPs PROVE IInv'
  OBVIOUS
<1>1. /\ pc = "cdn" /\ pc' = "related"
      /\ UNCHANGED <<focal, focalIPs, rest, shared, low, related, byAsn, focalAsn,
                     must, everCdn>>
      /\ Succeeds \/ Fails
      /\ \/ cdnIPs' = CdnIPSet /\ Succeeds
         \/ cdnIPs' \in SUBSET CdnIPSet /\ Fails
  BY DEF ReadCdnIPs
<1>2. /\ UNCHANGED <<reg, dns, cdn, behind, as, commits>> /\ RowsOfLive'
      /\ \A j : IpsForIOC(j)' = IpsForIOC(j) /\ Live(j)' = Live(j) /\ Known(j)' = Known(j)
      /\ CdnIPSet' = CdnIPSet
  BY DbStays DEF ReadCdnIPs
<1>3. /\ calm' => cdnIPs' = CdnIPSet
      /\ (~failed' => ~failed) /\ (calm' => calm)
  BY <1>1, Outcome
<1>4. cdnIPs' \subseteq everCdn
  BY <1>1, CdnIsRemembered
<1>5. rest = {} /\ related = {} /\ focalAsn = None /\ byAsn = {}
  BY <1>1 DEF IInv, Stage
<1>6. TypeOK'
  <2>1. cdnIPs' \subseteq Addr
    BY <1>4 DEF IInv, TypeOK
  <2>2. LocalsOK'
    BY <1>1, <1>5, <2>1, LocalsTyped DEF LocalsOK
  <2> QED
    BY <1>1, <2>2, TypeStays DEF ReadCdnIPs
<1>7. Stage'
  BY <1>1, <1>2, <1>4, <1>5 DEF IInv, Stage
<1>8. WeakOnlyOverCdn' /\ Reasons'
  BY <1>1, <1>5 DEF IInv, WeakOnlyOverCdn, TypeOK, Reasons
<1>9. MustFound'
  BY <1>1, <1>2, <1>3 DEF IInv, MustFound
<1>10. Calm'
  BY <1>1, <1>2, <1>3, <1>5 DEF IInv, Calm
<1> QED
  BY <1>2, <1>6, <1>7, <1>8, <1>9, <1>10 DEF IInv

LEMMA RelatedKeeps == IInv /\ ReadRelated => IInv'
<1> SUFFICES ASSUME IInv, ReadRelated PROVE IInv'
  OBVIOUS
<1>1. /\ pc = "related" /\ pc' = "each"
      /\ UNCHANGED <<focal, focalIPs, cdnIPs, shared, low, related, byAsn, focalAsn,
                     must, everCdn>>
      /\ Succeeds \/ Fails
      /\ \/ rest' = Sharers /\ Succeeds
         \/ rest' \in SUBSET Sharers /\ Fails
  BY RelatedAreSharers DEF ReadRelated
<1>2. /\ UNCHANGED <<reg, dns, cdn, behind, as, commits>> /\ RowsOfLive'
      /\ \A j : IpsForIOC(j)' = IpsForIOC(j) /\ Live(j)' = Live(j) /\ Known(j)' = Known(j)
      /\ CdnIPSet' = CdnIPSet
  BY DbStays DEF ReadRelated
<1>3. /\ ~failed' \/ calm' => rest' = Sharers
      /\ (~failed' => ~failed) /\ (calm' => calm)
  BY <1>1, Outcome
<1>4. \A j \in rest' : j \in Ioc \ {focal} /\ Live(j) /\ focalIPs \cap IpsForIOC(j) # {}
  BY <1>1 DEF Sharers
<1>5. related = {} /\ focalAsn = None /\ byAsn = {} /\ Sharers' = Sharers
  BY <1>1, <1>2 DEF IInv, Stage, Sharers
<1>6. TypeOK'
  <2>1. LocalsOK'
    BY <1>1, <1>4, <1>5, LocalsTyped DEF LocalsOK
  <2> QED
    BY <1>1, <2>1, TypeStays DEF ReadRelated
<1>7. Stage'
  BY <1>1, <1>2, <1>4, <1>5 DEF IInv, Stage, Live, Known
<1>8. WeakOnlyOverCdn' /\ Reasons'
  BY <1>1, <1>2, <1>4, <1>5 DEF IInv, WeakOnlyOverCdn, TypeOK, Reasons
<1>9. MustFound'
  <2> SUFFICES ASSUME Live(focal), NEW j \in must, Live(j)
               PROVE  /\ IpsForIOC(focal) \cap IpsForIOC(j) # {}
                      /\ ~failed' => focalIPs \cap IpsForIOC(j) # {} /\ j \in rest'
    BY <1>1, <1>2 DEF MustFound
  <2>1. IpsForIOC(focal) \cap IpsForIOC(j) # {} /\ (~failed' => focalIPs \cap IpsForIOC(j) # {})
    BY <1>1, <1>3 DEF IInv, MustFound
  <2>2. j \in Ioc \ {focal}
    BY <1>1, Constants DEF IInv, TypeOK, Stage
  <2> QED
    BY <1>3, <2>1, <2>2 DEF Sharers
<1>10. Calm'
  BY <1>1, <1>2, <1>3, <1>5 DEF IInv, Calm
<1> QED
  BY <1>2, <1>6, <1>7, <1>8, <1>9, <1>10 DEF IInv

\* A live indicator still to be related has one of the addresses as long as no
\* statement has failed, and its addresses are read in full then.
LEMMA RelateKeeps == ASSUME NEW j \in Ioc PROVE IInv /\ Relate(j) => IInv'
<1> SUFFICES ASSUME IInv, Relate(j) PROVE IInv'
  OBVIOUS
<1>1. /\ pc = "each" /\ j \in rest
      /\ low' = IF Low(shared'[j]) THEN low \cup {j} ELSE low
      /\ related' = related \cup {j} /\ rest' = rest \ {j}
      /\ UNCHANGED <<pc, focal, focalIPs, cdnIPs, byAsn, focalAsn, must, everCdn>>
      /\ Succeeds \/ Fails
  BY DEF Relate
<1>2. /\ UNCHANGED <<reg, dns, cdn, behind, as, commits>> /\ RowsOfLive'
      /\ \A i : IpsForIOC(i)' = IpsForIOC(i) /\ Live(i)' = Live(i) /\ Known(i)' = Known(i)
      /\ CdnIPSet' = CdnIPSet
  BY DbStays DEF Relate
<1>3. PICK ips \in IpsReadOf(j) \cup {IpsForIOC(j)} :
        /\ \/ ips = IpsForIOC(j) /\ Succeeds
           \/ ips \in IpsReadOf(j) /\ Fails
        /\ shared' = [shared EXCEPT ![j] = SharedIPs(ips, j)]
  BY DEF Relate
<1>4. /\ ~failed' \/ calm' => ips = IpsForIOC(j)
      /\ (~failed' => ~failed) /\ (calm' => calm)
  BY <1>1, <1>3, Outcome
<1>5. /\ shared'[j] = ips \cap focalIPs
      /\ \A i \in Ioc : i # j => shared'[i] = shared[i]
      /\ shared' \in [Ioc -> SUBSET Addr]
  BY <1>3, LocalsTyped DEF LocalsOK, SharedIPs
<1>6. j # focal /\ j \notin related /\ low \subseteq related /\ related \subseteq Ioc
  BY <1>1 DEF IInv, TypeOK, Stage
<1>7. TypeOK'
  <2>1. LocalsOK'
    BY <1>1, <1>5, <1>6, LocalsTyped DEF LocalsOK
  <2> QED
    BY <1>1, <2>1, TypeStays DEF Relate
<1>8. Stage'
  BY <1>1, <1>2 DEF IInv, Stage
<1>9. WeakOnlyOverCdn'
  <2> SUFFICES ASSUME NEW i \in low'
               PROVE  i \in related' /\ shared'[i] # {} /\ shared'[i] \subseteq everCdn
    BY <1>1 DEF WeakOnlyOverCdn
  <2>1. CASE i \in low
    BY <1>1, <1>5, <1>6, <2>1 DEF IInv, WeakOnlyOverCdn
  <2>2. CASE i \notin low
    <3>1. i = j /\ Low(shared'[j])
      BY <1>1, <2>2
    <3> QED
      BY <1>1, <3>1 DEF Low, IInv, Stage
  <2> QED
    BY <2>1, <2>2
<1>10. MustFound'
  BY <1>1, <1>2, <1>4 DEF IInv, MustFound
<1>11. Reasons'
  <2> SUFFICES ASSUME ~failed'
               PROVE  /\ \A i \in rest' : Live(i) => focalIPs \cap IpsForIOC(i) # {}
                      /\ \A i \in related' : Live(i) => shared'[i] # {}
    BY <1>1, <1>2 DEF Reasons
  <2>1. \A i \in rest' : Live(i) => focalIPs \cap IpsForIOC(i) # {}
    BY <1>1, <1>4 DEF IInv, Reasons
  <2>2. \A i \in related : Live(i) => shared'[i] # {}
    BY <1>4, <1>5, <1>6 DEF IInv, Reasons
  <2>3. Live(j) => shared'[j] # {}
    BY <1>1, <1>4, <1>5 DEF IInv, Reasons
  <2> QED
    BY <1>1, <2>1, <2>2, <2>3
<1>12. Calm'
  <2> SUFFICES ASSUME calm' PROVE Calm'
    BY DEF Calm
  <2>1. /\ calm /\ focalIPs = IpsForIOC(focal) /\ cdnIPs = CdnIPSet
        /\ rest \cup related = Sharers
    BY <1>1, <1>4 DEF IInv, Calm, Stage
  <2>2. Sharers' = Sharers
    BY <1>1, <1>2 DEF Sharers
  <2>3. shared'[j] = focalIPs \cap IpsForIOC(j) /\ shared'[j] # {}
    BY <1>1, <1>4, <1>5, <2>1 DEF Sharers
  <2>4. \A i \in related' : shared'[i] = focalIPs \cap IpsForIOC(i)
    BY <1>1, <1>4, <1>5, <1>6, <2>3 DEF IInv, Calm
  <2>5. \A i \in related' : i \in low' <=> shared'[i] \subseteq cdnIPs
    <3>1. j \in low' <=> shared'[j] \subseteq cdnIPs
      BY <1>1, <1>6, <2>3 DEF Low
    <3>2. \A i \in related : i # j /\ (i \in low <=> shared[i] \subseteq cdnIPs)
      BY <1>1, <1>6, <2>1 DEF IInv, Calm
    <3>3. \A i \in related : i \in low' <=> i \in low
      BY <1>1, <3>2
    <3> QED
      BY <1>1, <1>5, <1>6, <3>1, <3>2, <3>3
  <2> QED
    BY <1>1, <1>2, <2>1, <2>2, <2>4, <2>5 DEF Calm
<1> QED
  BY <1>2, <1>7, <1>8, <1>9, <1>10, <1>11, <1>12 DEF IInv

LEMMA DoneKeeps == IInv /\ RelatedDone => IInv'
<1> SUFFICES ASSUME IInv, RelatedDone PROVE IInv'
  OBVIOUS
<1>1. /\ pc = "each" /\ rest = {} /\ pc' = "asn"
      /\ UNCHANGED <<focal, focalIPs, cdnIPs, rest, shared, low, related, byAsn, focalAsn,
                     errors, calm, failed, must, everCdn>>
  BY DEF RelatedDone, locals
<1>2. /\ UNCHANGED <<reg, dns, cdn, behind, as, commits>> /\ RowsOfLive'
      /\ \A i : IpsForIOC(i)' = IpsForIOC(i) /\ Live(i)' = Live(i) /\ Known(i)' = Known(i)
      /\ CdnIPSet' = CdnIPSet
  BY DbStays DEF RelatedDone
<1>3. TypeOK'
  <2>1. LocalsOK' /\ Succeeds
    BY <1>1, LocalsTyped DEF LocalsOK, Succeeds
  <2> QED
    BY <2>1, TypeStays DEF RelatedDone
<1>4. Stage' /\ WeakOnlyOverCdn' /\ Reasons'
  BY <1>1, <1>2 DEF IInv, Stage, WeakOnlyOverCdn, Reasons
<1>5. MustFound'
  BY <1>1, <1>2 DEF IInv, MustFound
<1>6. Sharers' = Sharers
  BY <1>1, <1>2 DEF Sharers
<1>7. Calm'
  BY <1>1, <1>2, <1>6 DEF IInv, Calm
<1> QED
  BY <1>2, <1>3, <1>4, <1>5, <1>7 DEF IInv

LEMMA AsnKeeps == IInv /\ FocalAsn => IInv'
<1> SUFFICES ASSUME IInv, FocalAsn PROVE IInv'
  OBVIOUS
<1>1. /\ pc = "asn" /\ pc' = IF focalAsn' = None THEN "answer" ELSE "peers"
      /\ UNCHANGED <<focal, focalIPs, cdnIPs, rest, shared, low, related, byAsn,
                     must, everCdn>>
      /\ Succeeds \/ Fails
      /\ \/ focalAsn' = as[focal] /\ Succeeds
         \/ focalAsn' = None /\ Fails
  BY DEF FocalAsn
<1>2. /\ UNCHANGED <<reg, dns, cdn, behind, as, commits>> /\ RowsOfLive'
      /\ \A i : IpsForIOC(i)' = IpsForIOC(i) /\ Live(i)' = Live(i) /\ Known(i)' = Known(i)
      /\ CdnIPSet' = CdnIPSet
  BY DbStays DEF FocalAsn
<1>3. /\ calm' => focalAsn' = as[focal]
      /\ (~failed' => ~failed) /\ (calm' => calm)
  <2>1. CASE Succeeds /\ focalAsn' = as[focal]
    BY <2>1, Outcome
  <2>2. CASE Fails
    BY <2>2, Outcome
  <2> QED
    BY <1>1, <2>1, <2>2
<1>4. rest = {} /\ byAsn = {} /\ focalAsn' \in Asn \cup {None}
  <2>1. focal \in Ioc /\ as \in [Ioc -> Asn \cup {None}]
    BY <1>1 DEF IInv, TypeOK
  <2> QED
    BY <1>1, <2>1 DEF IInv, Stage
<1>5. TypeOK'
  <2>1. LocalsOK'
    BY <1>1, <1>4, LocalsTyped DEF LocalsOK
  <2> QED
    BY <1>1, <2>1, TypeStays DEF FocalAsn
<1>6. Stage' /\ WeakOnlyOverCdn'
  BY <1>1, <1>2, <1>4 DEF IInv, Stage, WeakOnlyOverCdn
<1>7. MustFound' /\ Reasons'
  BY <1>1, <1>2, <1>3 DEF IInv, MustFound, Reasons
<1>8. Sharers' = Sharers
  BY <1>1, <1>2 DEF Sharers
<1>9. Calm'
  BY <1>1, <1>2, <1>3, <1>8 DEF IInv, Calm
<1> QED
  BY <1>2, <1>5, <1>6, <1>7, <1>9 DEF IInv

LEMMA PeersKeeps == IInv /\ AsnPeers => IInv'
<1> SUFFICES ASSUME IInv, AsnPeers PROVE IInv'
  OBVIOUS
<1>1. /\ pc = "peers" /\ pc' = "answer"
      /\ UNCHANGED <<focal, focalIPs, cdnIPs, rest, shared, low, related, focalAsn,
                     must, everCdn>>
      /\ Succeeds \/ Fails
      /\ \/ byAsn' = Peers /\ Succeeds
         \/ byAsn' \in SUBSET Peers /\ Fails
  BY DEF AsnPeers
<1>2. /\ UNCHANGED <<reg, dns, cdn, behind, as, commits>> /\ RowsOfLive'
      /\ \A i : IpsForIOC(i)' = IpsForIOC(i) /\ Live(i)' = Live(i) /\ Known(i)' = Known(i)
      /\ CdnIPSet' = CdnIPSet
  BY DbStays DEF AsnPeers
<1>3. /\ calm' => byAsn' = Peers
      /\ (~failed' => ~failed) /\ (calm' => calm)
  BY <1>1, Outcome
<1>4. rest = {} /\ byAsn' \subseteq Ioc /\ focalAsn # None
  BY <1>1 DEF IInv, Stage, Peers
<1>5. TypeOK'
  <2>1. LocalsOK'
    BY <1>1, <1>4, LocalsTyped DEF LocalsOK
  <2> QED
    BY <1>1, <2>1, TypeStays DEF AsnPeers
<1>6. Stage' /\ WeakOnlyOverCdn'
  BY <1>1, <1>2, <1>4 DEF IInv, Stage, WeakOnlyOverCdn
<1>7. MustFound' /\ Reasons'
  BY <1>1, <1>2, <1>3 DEF IInv, MustFound, Reasons
<1>8. Sharers' = Sharers /\ Peers' = Peers
  BY <1>1, <1>2 DEF Sharers, Peers
<1>9. Calm'
  BY <1>1, <1>2, <1>3, <1>8 DEF IInv, Calm
<1> QED
  BY <1>2, <1>5, <1>6, <1>7, <1>9 DEF IInv

LEMMA ReturnKeeps == IInv /\ (Answer \/ RelatedFails) => IInv'
<1> SUFFICES ASSUME IInv, Answer \/ RelatedFails PROVE IInv'
  OBVIOUS
<1>1. Return /\ (Succeeds \/ Fails)
  BY DEF Answer, RelatedFails
<1>2. /\ pc' = "idle" /\ focal' = None /\ focalIPs' = {} /\ cdnIPs' = {} /\ rest' = {}
      /\ low' = {} /\ related' = {} /\ byAsn' = {} /\ focalAsn' = None /\ must' = {}
      /\ shared' \in [Ioc -> SUBSET Addr]
      /\ RowsOfLive'
  BY <1>1, DbStays DEF Return, Cleared
<1>3. TypeOK'
  <2>1. LocalsOK'
    BY <1>2, LocalsTyped DEF LocalsOK
  <2> QED
    BY <1>1, <2>1, TypeStays DEF Return
<1>4. Stage' /\ WeakOnlyOverCdn' /\ MustFound' /\ Reasons' /\ Calm'
  BY <1>2 DEF Stage, WeakOnlyOverCdn, MustFound, Reasons, Calm
<1> QED
  BY <1>2, <1>3, <1>4 DEF IInv

LEMMA NextIInv == IInv /\ [Next]_vars => IInv'
<1> SUFFICES ASSUME IInv, [Next]_vars PROVE IInv'
  OBVIOUS
<1>1. CASE Others
  BY <1>1, AddKeeps, DeleteKeeps, DnsKeeps, CdnKeeps, GeoipKeeps DEF Others
<1>2. CASE Handler
  BY <1>2, BeginKeeps, FocalKeeps, CdnReadKeeps, RelatedKeeps, RelateKeeps, DoneKeeps,
     AsnKeeps, PeersKeeps, ReturnKeeps DEF Handler
<1>3. CASE UNCHANGED vars
  <2>1. UNCHANGED <<reg, dns, cdn, behind, as, commits, pc, focal, focalIPs, cdnIPs, rest,
                    shared, low, related, byAsn, focalAsn, errors, calm, failed, must, everCdn>>
    BY <1>3 DEF vars, db, locals
  <2>2. TypeOK' /\ RowsOfLive'
    BY <2>1 DEF IInv, TypeOK, RowsOfLive, Live
  <2>3. Stage' /\ WeakOnlyOverCdn'
    BY <2>1 DEF IInv, Stage, WeakOnlyOverCdn, Known
  <2>4. MustFound' /\ Reasons'
    BY <2>1 DEF IInv, MustFound, Reasons, IpsForIOC, Live
  <2>5. Sharers' = Sharers /\ Peers' = Peers /\ CdnIPSet' = CdnIPSet
    BY <2>1 DEF Sharers, Peers, CdnIPSet, IpsForIOC, Live
  <2>6. Calm'
    BY <2>1, <2>5 DEF IInv, Calm, IpsForIOC
  <2> QED
    BY <2>2, <2>3, <2>4, <2>6 DEF IInv
<1> QED
  BY <1>1, <1>2, <1>3 DEF Next

LEMMA AlwaysIInv == Spec => []IInv
BY InitIInv, NextIInv, PTL DEF Spec
-----------------------------------------------------------------------------
(* The theorems.                                                           *)

\* Every variable keeps its type; the related are others than the indicator asked
\* for, the weak ones are among them, and the handler has an indicator exactly
\* while it runs.
THEOREM TypeCorrect == Spec => []TypeOK
<1>1. IInv => TypeOK
  BY DEF IInv
<1> QED
  BY <1>1, AlwaysIInv, PTL

\* Whatever the worker commits, whoever is deleted and whichever statement fails
\* while getPivots runs: it calls a relation weak only over shared addresses that
\* some committed "cdn" row called a CDN's.
THEOREM WeakIsOverCdn == Spec => []WeakOnlyOverCdn
<1>1. IInv => WeakOnlyOverCdn
  BY DEF IInv
<1> QED
  BY <1>1, AlwaysIInv, PTL

\* Without a failing statement an indicator that was related when getPivots began,
\* and that still exists, is in its answer, for any number of commits in between.
THEOREM NoneIsMissed == Spec => []NoneMissed
<1>1. IInv => NoneMissed
  BY DEF IInv, Stage, MustFound, NoneMissed
<1> QED
  BY <1>1, AlwaysIInv, PTL

\* A relation is answered without a shared address only if its indicator went
\* between the two readings of its addresses, or a statement failed.
THEOREM ReasonGiven == Spec => []RelationHasItsReason
<1>1. IInv => RelationHasItsReason
  BY DEF IInv, Reasons, RelationHasItsReason
<1> QED
  BY <1>1, AlwaysIInv, PTL

\* The answer of getPivots, put together from statement after statement, is the
\* relation of the database as a whole when nothing changed or failed meanwhile.
THEOREM Exact == Spec => []ExactWhenCalm
<1>1. IInv => ExactWhenCalm
  <2> SUFFICES ASSUME IInv, pc = "answer", calm
               PROVE  /\ related = Sharing(focal)
                      /\ \A j \in related : shared[j] = Addresses(focal) \cap Addresses(j)
                      /\ low = Weak(focal)
                      /\ byAsn = {j \in Ioc \ related :
                                    j # focal /\ as[focal] # None /\ as[j] = as[focal]}
    BY DEF ExactWhenCalm
  <2>1. /\ focalIPs = IpsForIOC(focal) /\ (focalIPs # {} => cdnIPs = CdnIPSet)
        /\ related = Sharers
        /\ \A j \in related : shared[j] = focalIPs \cap IpsForIOC(j)
        /\ \A j \in related : j \in low <=> shared[j] \subseteq cdnIPs
        /\ focalAsn = as[focal]
        /\ focalAsn # None => byAsn = Peers
    BY DEF IInv, Calm, Stage
  <2>2. related = Sharing(focal)
    BY <2>1, AddressesAreRead DEF Sharing, Sharers
  <2>3. \A j \in related : shared[j] = Addresses(focal) \cap Addresses(j)
    BY <2>1, AddressesAreRead
  <2>4. low = Weak(focal)
    <3>1. CdnAddresses = CdnIPSet
      BY DEF IInv, TypeOK, CdnAddresses, CdnIPSet
    <3>2. related # {} => cdnIPs = CdnAddresses
      BY <2>1, <3>1 DEF Sharers
    <3> QED
      BY <2>1, <2>2, <2>3, <3>2 DEF IInv, TypeOK, Weak
  <2>5. byAsn = {j \in Ioc \ related : j # focal /\ as[focal] # None /\ as[j] = as[focal]}
    <3>1. CASE focalAsn = None
      BY <2>1, <3>1 DEF IInv, Stage
    <3>2. CASE focalAsn # None
      <4>1. \A j \in Ioc : as[j] = focalAsn => Live(j)
        BY <3>2 DEF IInv, RowsOfLive
      <4> QED
        BY <2>1, <3>2, <4>1 DEF Peers
    <3> QED
      BY <3>1, <3>2
  <2> QED
    BY <2>2, <2>3, <2>4, <2>5
<1> QED
  BY <1>1, AlwaysIInv, PTL
=============================================================================
