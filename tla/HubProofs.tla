----------------------------- MODULE HubProofs ------------------------------
(***************************************************************************)
(* Theorems about Hub, for every set of browsers, every capacity of the    *)
(* channels and every number of notifications.                             *)
(***************************************************************************)
EXTENDS Hub, TLAPS

-----------------------------------------------------------------------------
(* Lemmas about sequences.                                                 *)

\* Taking the head off a sequence.
LEMMA TailFacts ==
    ASSUME NEW S, NEW s \in Seq(S), s # <<>>
    PROVE  /\ Tail(s) \in Seq(S)
           /\ Head(s) \in S
           /\ Head(s) = s[1]
           /\ Len(s) \in Nat \ {0}
           /\ Len(Tail(s)) = Len(s) - 1
           /\ \A n \in 1 .. Len(Tail(s)) : Tail(s)[n] = s[n + 1] /\ n + 1 \in 1 .. Len(s)
OBVIOUS

\* Adding one element behind.
LEMMA AppendFacts ==
    ASSUME NEW S, NEW s \in Seq(S), NEW e \in S
    PROVE  /\ Append(s, e) \in Seq(S)
           /\ Len(s) \in Nat
           /\ Len(Append(s, e)) = Len(s) + 1
           /\ \A n \in 1 .. Len(s) + 1 : Append(s, e)[n] = IF n = Len(s) + 1 THEN e ELSE s[n]
OBVIOUS
-----------------------------------------------------------------------------
(* Type correctness.                                                       *)

LEMMA InitTypeOK == Init => TypeOK
<1> SUFFICES ASSUME Init PROVE TypeOK
  OBVIOUS
<1>1. <<>> \in Seq(Msgs) /\ Len(<<>>) = 0
  OBVIOUS
<1> QED
  BY <1>1, HubAssumption DEF Init, TypeOK

LEMMA NextTypeOK == TypeOK /\ [Next]_vars => TypeOK'
<1> SUFFICES ASSUME TypeOK, [Next]_vars PROVE TypeOK'
  OBVIOUS
<1> USE HubAssumption
<1>1. CASE Notify
  <2>1. sent + 1 \in Msgs
    BY <1>1 DEF Notify, TypeOK, Msgs
  <2>2. Append(inbox, sent + 1) \in Seq(Msgs)
    BY <2>1, AppendFacts DEF TypeOK
  <2>3. sent + 1 \in 0 .. MaxMsgs
    BY <2>1 DEF Msgs
  <2> QED
    BY <1>1, <2>1, <2>2, <2>3 DEF Notify, TypeOK, cast, conns
<1>2. CASE Listen
  BY <1>2 DEF Listen, TypeOK, cast, conns, history
<1>3. CASE Drop
  <2>1. ToSet(inbox) \subseteq Msgs
    BY DEF TypeOK, ToSet
  <2> QED
    BY <1>3, <2>1 DEF Drop, TypeOK, cast, conns
<1>4. CASE Receive
  <2>1. Head(inbox) \in Msgs /\ Tail(inbox) \in Seq(Msgs)
    BY <1>4, TailFacts DEF Receive, TypeOK
  <2>2. Head(inbox) \in 0 .. MaxMsgs
    BY <2>1 DEF Msgs
  <2> QED
    BY <1>4, <2>1, <2>2 DEF Receive, TypeOK, conns
<1>5. ASSUME NEW c \in Client, Send(c) PROVE TypeOK'
  <2>1. bc \in Msgs
    BY <1>5 DEF Send, TypeOK, Msgs
  <2>2. todo' \subseteq Client
    BY <1>5 DEF Send, TypeOK
  <2>3. CASE Full(c)
    <3>1. dropped' = [dropped EXCEPT ![c] = @ \cup {bc}] /\ UNCHANGED chan
      BY <1>5, <2>3 DEF Send
    <3>2. dropped' \in [Client -> SUBSET Msgs]
      BY <2>1, <3>1 DEF TypeOK
    <3> QED
      BY <1>5, <2>2, <3>1, <3>2 DEF Send, TypeOK, net
  <2>4. CASE ~Full(c)
    <3>1. chan' = [chan EXCEPT ![c] = Append(chan[c], bc)]
      BY <1>5, <2>4 DEF Send
    <3>2. Append(chan[c], bc) \in Seq(Msgs) /\ Len(Append(chan[c], bc)) <= Capacity
      BY <2>1, <2>4, AppendFacts DEF Full, TypeOK
    <3>3. chan' \in [Client -> Seq(Msgs)] /\ \A d \in Client : Len(chan'[d]) <= Capacity
      BY <3>1, <3>2 DEF TypeOK
    <3> QED
      BY <1>5, <2>2, <2>4, <3>3 DEF Send, TypeOK, net
  <2> QED
    BY <2>3, <2>4
<1>6. CASE Unlock
  BY <1>6 DEF Unlock, TypeOK, net, conns, history
<1>7. ASSUME NEW c \in Client, Open(c) PROVE TypeOK'
  BY <1>7 DEF Open, TypeOK, net, cast, history
<1>8. ASSUME NEW c \in Client, Subscribe(c) PROVE TypeOK'
  <2>1. <<>> \in Seq(Msgs) /\ Len(<<>>) = 0
    OBVIOUS
  <2> QED
    BY <1>8, <2>1 DEF Subscribe, TypeOK, net, cast
<1>9. ASSUME NEW c \in Client, chan[c] # <<>>, chan' = [chan EXCEPT ![c] = Tail(@)]
      PROVE  chan' \in [Client -> Seq(Msgs)] /\ \A d \in Client : Len(chan'[d]) <= Capacity
  <2>1. Tail(chan[c]) \in Seq(Msgs) /\ Len(Tail(chan[c])) <= Capacity
    BY <1>9, TailFacts DEF TypeOK
  <2> QED
    BY <1>9, <2>1 DEF TypeOK
<1>10. ASSUME NEW c \in Client, Deliver(c) PROVE TypeOK'
  <2>1. chan' \in [Client -> Seq(Msgs)] /\ \A d \in Client : Len(chan'[d]) <= Capacity
    BY <1>9, <1>10 DEF Deliver
  <2>2. Head(chan[c]) \in Msgs
    BY <1>10, TailFacts DEF Deliver, TypeOK
  <2>3. Append(out[c], Head(chan[c])) \in Seq(Msgs)
    BY <2>2, AppendFacts DEF TypeOK
  <2> QED
    BY <1>10, <2>1, <2>3 DEF Deliver, TypeOK, net, cast, history
<1>11. ASSUME NEW c \in Client, Leave(c) PROVE TypeOK'
  BY <1>11 DEF Leave, TypeOK, net, cast, history
<1>12. ASSUME NEW c \in Client, WriteInVain(c) PROVE TypeOK'
  <2>1. chan' \in [Client -> Seq(Msgs)] /\ \A d \in Client : Len(chan'[d]) <= Capacity
    BY <1>9, <1>12 DEF WriteInVain
  <2> QED
    BY <1>12, <2>1 DEF WriteInVain, TypeOK, net, cast, history
<1>13. ASSUME NEW c \in Client, Unsubscribe(c) PROVE TypeOK'
  BY <1>13 DEF Unsubscribe, TypeOK, net, cast, history
<1>14. CASE UNCHANGED vars
  BY <1>14 DEF vars, net, cast, conns, history, TypeOK
<1> QED
  BY <1>1, <1>2, <1>3, <1>4, <1>5, <1>6, <1>7, <1>8, <1>10, <1>11, <1>12, <1>13, <1>14
  DEF Next, Broadcast, Handler

\* runListener, broadcast and the handlers keep every channel within its
\* capacity and every variable in its type.
THEOREM TypeCorrect == Spec => []TypeOK
BY InitTypeOK, NextTypeOK, PTL DEF Spec
-----------------------------------------------------------------------------
(* The lock and the channels.                                              *)

\* What h.mu and the deferred unsubscribe keep true: a broadcast only reaches
\* for connections in the map, and those have an open channel and a handler.
Lock ==
    /\ bc = 0 => todo = {}
    /\ todo \subseteq subs
    /\ \A c \in subs : ~closed[c] /\ hpc[c] \in {"stream", "gone"}
    /\ \A c \in Client : hpc[c] \in {"stream", "gone"} => c \in subs

LEMMA InitLock == Init => Lock
BY DEF Init, Lock

LEMMA NextLock == TypeOK /\ Lock /\ [Next]_vars => Lock'
<1> SUFFICES ASSUME TypeOK, Lock, [Next]_vars PROVE Lock'
  OBVIOUS
<1>1. CASE Notify
  BY <1>1 DEF Notify, Lock, cast, conns
<1>2. CASE Listen
  BY <1>2 DEF Listen, Lock, cast, conns
<1>3. CASE Drop
  BY <1>3 DEF Drop, Lock, cast, conns
<1>4. CASE Receive
  <2>1. Head(inbox) \in Msgs
    BY <1>4, TailFacts DEF Receive, TypeOK
  <2>2. Head(inbox) # 0
    BY <2>1 DEF Msgs
  <2> QED
    BY <1>4, <2>2 DEF Receive, Lock, conns
<1>5. ASSUME NEW c \in Client, Send(c) PROVE Lock'
  BY <1>5 DEF Send, Lock
<1>6. CASE Unlock
  BY <1>6 DEF Unlock, Lock, conns
<1>7. ASSUME NEW c \in Client, Open(c) PROVE Lock'
  BY <1>7 DEF Open, Lock, TypeOK, cast
<1>8. ASSUME NEW c \in Client, Subscribe(c) PROVE Lock'
  BY <1>8 DEF Subscribe, MuFree, Lock, TypeOK, cast
<1>9. ASSUME NEW c \in Client, Deliver(c) PROVE Lock'
  BY <1>9 DEF Deliver, Lock, cast
<1>10. ASSUME NEW c \in Client, Leave(c) PROVE Lock'
  BY <1>10 DEF Leave, Lock, TypeOK, cast
<1>11. ASSUME NEW c \in Client, WriteInVain(c) PROVE Lock'
  BY <1>11 DEF WriteInVain, Lock, cast
<1>12. ASSUME NEW c \in Client, Unsubscribe(c) PROVE Lock'
  BY <1>12 DEF Unsubscribe, MuFree, Lock, TypeOK, cast
<1>13. CASE UNCHANGED vars
  BY <1>13 DEF vars, cast, conns, Lock
<1> QED
  BY <1>1, <1>2, <1>3, <1>4, <1>5, <1>6, <1>7, <1>8, <1>9, <1>10, <1>11, <1>12, <1>13
  DEF Next, Broadcast, Handler

\* broadcast never sends on a channel that a handler has closed.
THEOREM NeverOnClosed == Spec => []NoSendOnClosed
<1>1. Lock => NoSendOnClosed
  BY DEF Lock, NoSendOnClosed
<1> QED
  BY InitTypeOK, NextTypeOK, InitLock, NextLock, <1>1, PTL DEF Spec
-----------------------------------------------------------------------------
(* What browsers see is a lossy broadcast.                                 *)

\* Every message of s is older than m; those of s come in order.
Below(s, m) == \A n \in 1 .. Len(s) : s[n] < m
Increasing(s) == \A n \in 1 .. Len(s) : \A p \in 1 .. Len(s) : p < n => s[p] < s[n]

LEMMA MsgsNat == \A m \in Msgs : m \in Nat /\ m # 0
BY DEF Msgs

LEMMA TailOrder ==
    ASSUME NEW s \in Seq(Msgs), s # <<>>, Increasing(s)
    PROVE  /\ Increasing(Tail(s))
           /\ \A n \in 1 .. Len(Tail(s)) : Head(s) < Tail(s)[n]
<1>1. /\ Len(s) \in Nat \ {0}
      /\ Len(Tail(s)) = Len(s) - 1
      /\ Head(s) = s[1]
      /\ \A n \in 1 .. Len(Tail(s)) : Tail(s)[n] = s[n + 1] /\ n + 1 \in 1 .. Len(s)
  BY TailFacts
<1>2. ASSUME NEW n \in 1 .. Len(Tail(s)), NEW p \in 1 .. Len(Tail(s)), p < n
      PROVE  Tail(s)[p] < Tail(s)[n]
  <2>1. p + 1 < n + 1 /\ p + 1 \in 1 .. Len(s) /\ n + 1 \in 1 .. Len(s)
    BY <1>1, <1>2
  <2>2. s[p + 1] < s[n + 1]
    BY <2>1 DEF Increasing
  <2> QED
    BY <1>1, <2>2
<1>3. ASSUME NEW n \in 1 .. Len(Tail(s)) PROVE Head(s) < Tail(s)[n]
  <2>1. 1 < n + 1 /\ 1 \in 1 .. Len(s) /\ n + 1 \in 1 .. Len(s)
    BY <1>1
  <2>2. s[1] < s[n + 1]
    BY <2>1 DEF Increasing
  <2> QED
    BY <1>1, <2>2
<1> QED
  BY <1>2, <1>3 DEF Increasing

LEMMA AppendOrder ==
    ASSUME NEW S, NEW s \in Seq(S), NEW e \in S, Increasing(s), Below(s, e)
    PROVE  Increasing(Append(s, e))
<1>1. /\ Len(s) \in Nat
      /\ Len(Append(s, e)) = Len(s) + 1
      /\ \A n \in 1 .. Len(s) + 1 : Append(s, e)[n] = IF n = Len(s) + 1 THEN e ELSE s[n]
  BY AppendFacts
<1>2. ASSUME NEW n \in 1 .. Len(s) + 1, NEW p \in 1 .. Len(s) + 1, p < n
      PROVE  Append(s, e)[p] < Append(s, e)[n]
  <2>1. p \in 1 .. Len(s) /\ Append(s, e)[p] = s[p]
    BY <1>1, <1>2
  <2>2. CASE n = Len(s) + 1
    BY <1>1, <2>1, <2>2 DEF Below
  <2>3. CASE n # Len(s) + 1
    <3>1. n \in 1 .. Len(s) /\ Append(s, e)[n] = s[n]
      BY <1>1, <2>3
    <3> QED
      BY <1>2, <2>1, <3>1 DEF Increasing
  <2> QED
    BY <2>2, <2>3
<1> QED
  BY <1>1, <1>2 DEF Increasing

LEMMA BelowMore ==
    ASSUME NEW s \in Seq(Msgs), NEW a \in Nat, NEW b \in Nat, a < b, Below(s, a + 1)
    PROVE  Below(s, b) /\ Below(s, b + 1)
<1>1. \A n \in 1 .. Len(s) : s[n] \in Nat /\ s[n] < a + 1
  BY MsgsNat DEF Below
<1>2. \A n \in 1 .. Len(s) : s[n] < b /\ s[n] < b + 1
  BY <1>1
<1> QED
  BY <1>2 DEF Below

LEMMA AppendBelow ==
    ASSUME NEW S, NEW s \in Seq(S), NEW e \in S, NEW m, Below(s, m), e < m
    PROVE  Below(Append(s, e), m)
<1>1. /\ Len(s) \in Nat
      /\ Len(Append(s, e)) = Len(s) + 1
      /\ \A n \in 1 .. Len(s) + 1 : Append(s, e)[n] = IF n = Len(s) + 1 THEN e ELSE s[n]
  BY AppendFacts
<1> QED
  BY <1>1 DEF Below

\* Messages are handed over, broadcast, buffered and seen in the order of their
\* commits: what a browser has seen is older than what waits in its channel,
\* that is no newer than the last one taken from the session, and the message of
\* a running broadcast is newer than all that its remaining connections have.
OrderOf(c) ==
    /\ Increasing(chan[c])
    /\ Below(chan[c], taken + 1) /\ Below(out[c], taken + 1)
    /\ \A n \in 1 .. Len(chan[c]) : Below(out[c], chan[c][n])
    /\ c \in todo => Below(chan[c], bc) /\ Below(out[c], bc)

Order ==
    /\ taken <= sent
    /\ bc \in {0, taken}
    /\ Increasing(inbox) /\ Below(inbox, sent + 1)
    /\ \A n \in 1 .. Len(inbox) : taken < inbox[n]
    /\ \A c \in Client : OrderOf(c)

LEMMA InitOrder == Init => Order
BY DEF Init, Order, OrderOf, Increasing, Below

\* A connection none of whose part changes keeps its order.
LEMMA SameOrder ==
    ASSUME Order, UNCHANGED <<taken, chan, out>>, todo' \subseteq todo, todo' # {} => bc' = bc
    PROVE  \A c \in Client : OrderOf(c)'
BY DEF Order, OrderOf

LEMMA NextOrder == TypeOK /\ Lock /\ Order /\ [Next]_vars => Order'
<1> SUFFICES ASSUME TypeOK, Lock, Order, [Next]_vars PROVE Order'
  OBVIOUS
<1> USE HubAssumption, MsgsNat
<1>0. /\ sent \in Nat /\ taken \in Nat /\ bc \in Nat
      /\ inbox \in Seq(Msgs) /\ Len(inbox) \in Nat
      /\ \A n \in 1 .. Len(inbox) : inbox[n] \in Msgs
      /\ \A c \in Client : chan[c] \in Seq(Msgs) /\ out[c] \in Seq(Msgs)
  BY DEF TypeOK
<1>1. CASE Notify
  <2>1. sent + 1 \in Msgs
    BY <1>1, <1>0 DEF Notify, Msgs
  <2>2. Below(inbox, sent + 2) /\ sent + 1 < sent + 2
    BY <1>0 DEF Order, Below
  <2>3. sent' = sent + 1 /\ sent' + 1 = sent + 2 /\ taken <= sent'
    BY <1>0, <1>1 DEF Notify, Order
  <2>4. CASE inbox' = Append(inbox, sent + 1)
    <3>1. Increasing(inbox') /\ Below(inbox', sent + 2)
      BY <1>0, <2>1, <2>2, <2>4, AppendOrder, AppendBelow DEF Order
    <3>2. \A n \in 1 .. Len(inbox') : taken < inbox'[n]
      BY <1>0, <2>1, <2>4, AppendFacts DEF Order
    <3> QED
      BY <1>1, <2>3, <3>1, <3>2, SameOrder DEF Notify, Order, cast, conns
  <2>5. CASE inbox' = inbox
    BY <1>1, <2>2, <2>3, <2>5, SameOrder DEF Notify, Order, cast, conns
  <2> QED
    BY <1>1, <2>4, <2>5 DEF Notify
<1>2. CASE Listen
  BY <1>2, SameOrder DEF Listen, Order, cast, conns, history
<1>3. CASE Drop
  <2>1. Increasing(<<>>) /\ Below(<<>>, sent + 1) /\ \A n \in 1 .. Len(<<>>) : FALSE
    BY DEF Increasing, Below
  <2> QED
    BY <1>3, <2>1, SameOrder DEF Drop, Order, cast, conns
<1>4. CASE Receive
  <2>1. /\ Head(inbox) \in Msgs /\ Head(inbox) = inbox[1] /\ 1 \in 1 .. Len(inbox)
        /\ \A n \in 1 .. Len(Tail(inbox)) :
             Tail(inbox)[n] = inbox[n + 1] /\ n + 1 \in 1 .. Len(inbox)
    BY <1>0, <1>4, TailFacts DEF Receive
  <2>2. taken < Head(inbox) /\ Head(inbox) < sent + 1
    BY <2>1 DEF Order, Below
  <2>3. /\ Increasing(Tail(inbox)) /\ Below(Tail(inbox), sent + 1)
        /\ \A n \in 1 .. Len(Tail(inbox)) : Head(inbox) < Tail(inbox)[n]
    BY <1>0, <1>4, <2>1, TailOrder DEF Receive, Order, Below
  <2>4. ASSUME NEW c \in Client PROVE OrderOf(c)'
    <3>1. Below(chan[c], taken + 1) /\ Below(out[c], taken + 1)
      BY DEF Order, OrderOf
    <3>2. /\ Below(chan[c], Head(inbox)) /\ Below(chan[c], Head(inbox) + 1)
          /\ Below(out[c], Head(inbox)) /\ Below(out[c], Head(inbox) + 1)
      BY <1>0, <2>1, <2>2, <3>1, BelowMore
    <3> QED
      BY <1>4, <3>2 DEF Receive, Order, OrderOf, conns
  <2>5. Head(inbox) <= sent
    BY <1>0, <2>1, <2>2
  <2> QED
    BY <1>4, <2>3, <2>4, <2>5 DEF Receive, Order
<1>5. ASSUME NEW c \in Client, Send(c) PROVE Order'
  <2>1. bc \in Msgs /\ bc = taken /\ bc < taken + 1
    BY <1>0, <1>5 DEF Send, Order, TypeOK, Msgs
  <2>2. CASE chan' = chan
    BY <1>5, <2>2, SameOrder DEF Send, Order, net
  <2>3. CASE chan' = [chan EXCEPT ![c] = Append(chan[c], bc)]
    <3>1. OrderOf(c) /\ Below(chan[c], bc) /\ Below(out[c], bc)
      BY <1>5 DEF Send, Order, OrderOf
    <3>2. chan'[c] = Append(chan[c], bc)
      BY <2>3 DEF TypeOK
    <3>3. Increasing(chan'[c]) /\ Below(chan'[c], taken + 1)
      BY <1>0, <2>1, <3>1, <3>2, AppendOrder, AppendBelow DEF OrderOf
    <3>4. \A n \in 1 .. Len(chan'[c]) : Below(out[c], chan'[c][n])
      BY <1>0, <2>1, <3>1, <3>2, AppendFacts DEF OrderOf
    <3>5. OrderOf(c)'
      BY <1>5, <3>1, <3>3, <3>4 DEF Send, OrderOf
    <3>6. ASSUME NEW d \in Client, d # c PROVE OrderOf(d)'
      BY <1>5, <2>3, <3>6 DEF Send, Order, OrderOf, TypeOK
    <3> QED
      BY <1>5, <3>5, <3>6 DEF Send, Order, net
  <2> QED
    BY <1>5, <2>2, <2>3 DEF Send
<1>6. CASE Unlock
  BY <1>6, SameOrder DEF Unlock, Order, net, conns, history
<1>7. ASSUME NEW c \in Client, Open(c) PROVE Order'
  BY <1>7, SameOrder DEF Open, Order, net, cast, history
<1>8. ASSUME NEW c \in Client, Subscribe(c) PROVE Order'
  <2>1. chan'[c] = <<>> /\ \A d \in Client \ {c} : chan'[d] = chan[d]
    BY <1>8 DEF Subscribe, TypeOK
  <2>2. OrderOf(c)'
    <3>1. Increasing(<<>>) /\ Below(<<>>, taken + 1) /\ Below(<<>>, bc)
      BY DEF Increasing, Below
    <3> QED
      BY <1>8, <2>1, <3>1 DEF Subscribe, Order, OrderOf, cast
  <2>3. ASSUME NEW d \in Client, d # c PROVE OrderOf(d)'
    BY <1>8, <2>1, <2>3 DEF Subscribe, Order, OrderOf, cast
  <2> QED
    BY <1>8, <2>2, <2>3 DEF Subscribe, Order, net, cast
<1>9. ASSUME NEW c \in Client, chan[c] # <<>>, chan' = [chan EXCEPT ![c] = Tail(@)],
             \/ out' = out
             \/ out' = [out EXCEPT ![c] = Append(@, Head(chan[c]))],
             UNCHANGED <<net, cast, history>>
      PROVE  Order'
  <2>1. OrderOf(c)
    BY DEF Order
  <2>2. /\ Head(chan[c]) \in Msgs /\ Head(chan[c]) = chan[c][1] /\ 1 \in 1 .. Len(chan[c])
        /\ \A n \in 1 .. Len(Tail(chan[c])) :
             Tail(chan[c])[n] = chan[c][n + 1] /\ n + 1 \in 1 .. Len(chan[c])
    BY <1>0, <1>9, TailFacts
  <2>3. chan'[c] = Tail(chan[c])
    BY <1>9 DEF TypeOK
  <2>4. Increasing(chan'[c])
    BY <1>0, <1>9, <2>1, <2>3, TailOrder DEF OrderOf
  <2>5. Below(chan'[c], taken + 1) /\ (c \in todo => Below(chan'[c], bc))
    BY <2>1, <2>2, <2>3 DEF OrderOf, Below
  <2>6. \A n \in 1 .. Len(chan'[c]) : Below(out[c], chan'[c][n])
    BY <2>1, <2>2, <2>3 DEF OrderOf
  <2>7. CASE out' = out
    <3>1. OrderOf(c)'
      BY <1>9, <2>1, <2>4, <2>5, <2>6, <2>7 DEF OrderOf, cast, history
    <3>2. ASSUME NEW d \in Client, d # c PROVE OrderOf(d)'
      BY <1>9, <2>7, <3>2 DEF Order, OrderOf, TypeOK, cast, history
    <3> QED
      BY <1>9, <3>1, <3>2 DEF Order, net, cast, history
  <2>8. CASE out' = [out EXCEPT ![c] = Append(@, Head(chan[c]))]
    <3>1. out'[c] = Append(out[c], Head(chan[c]))
      BY <2>8 DEF TypeOK
    <3>2. \A n \in 1 .. Len(chan'[c]) : Head(chan[c]) < chan'[c][n]
      BY <1>0, <1>9, <2>1, <2>3, TailOrder DEF OrderOf
    <3>3. \A n \in 1 .. Len(chan'[c]) : Below(out'[c], chan'[c][n])
      BY <1>0, <2>2, <2>6, <3>1, <3>2, AppendBelow
    <3>4. Head(chan[c]) < taken + 1 /\ (c \in todo => Head(chan[c]) < bc)
      BY <2>1, <2>2 DEF OrderOf, Below
    <3>5. Below(out'[c], taken + 1) /\ (c \in todo => Below(out'[c], bc))
      BY <1>0, <2>1, <2>2, <3>1, <3>4, AppendBelow DEF OrderOf
    <3>6. OrderOf(c)'
      BY <1>9, <2>4, <2>5, <3>3, <3>5 DEF OrderOf, cast, history
    <3>7. ASSUME NEW d \in Client, d # c PROVE OrderOf(d)'
      BY <1>9, <2>8, <3>7 DEF Order, OrderOf, TypeOK, cast, history
    <3> QED
      BY <1>9, <3>6, <3>7 DEF Order, net, cast, history
  <2> QED
    BY <1>9, <2>7, <2>8
<1>10. ASSUME NEW c \in Client, Deliver(c) PROVE Order'
  BY <1>9, <1>10 DEF Deliver
<1>11. ASSUME NEW c \in Client, Leave(c) PROVE Order'
  BY <1>11, SameOrder DEF Leave, Order, net, cast, history
<1>12. ASSUME NEW c \in Client, WriteInVain(c) PROVE Order'
  BY <1>9, <1>12 DEF WriteInVain
<1>13. ASSUME NEW c \in Client, Unsubscribe(c) PROVE Order'
  BY <1>13, SameOrder DEF Unsubscribe, Order, net, cast, history
<1>14. CASE UNCHANGED vars
  BY <1>14, SameOrder DEF vars, net, cast, conns, history, Order
<1> QED
  BY <1>1, <1>2, <1>3, <1>4, <1>5, <1>6, <1>7, <1>8, <1>10, <1>11, <1>12, <1>13, <1>14
  DEF Next, Broadcast, Handler

\* A delivery shows the browser a published message that is newer than all it
\* has been shown.
LEMMA DeliverIsShow ==
    ASSUME TypeOK, Order, NEW c \in Client, Deliver(c)
    PROVE  \E m \in 1 .. sent : Stream!Show(c, m)
<1>1. /\ chan[c] \in Seq(Msgs) /\ chan[c] # <<>>
      /\ Head(chan[c]) \in Msgs /\ Head(chan[c]) = chan[c][1] /\ 1 \in 1 .. Len(chan[c])
  BY TailFacts DEF Deliver, TypeOK
<1>2. Head(chan[c]) \in 1 .. sent
  <2>1. Head(chan[c]) < taken + 1 /\ taken <= sent /\ taken \in Nat /\ sent \in Nat
    BY <1>1, HubAssumption DEF Order, OrderOf, Below, TypeOK
  <2> QED
    BY <1>1, <2>1, MsgsNat
<1>3. Stream!Newer(c, Head(chan[c]))
  <2>1. DOMAIN out[c] = 1 .. Len(out[c])
    BY DEF TypeOK
  <2> QED
    BY <1>1, <2>1 DEF Order, OrderOf, Below, Stream!Newer
<1> QED
  BY <1>2, <1>3 DEF Deliver, net, Stream!Show

\* The event stream implements LossyBroadcast: a browser sees notifications in
\* the order of their commits and none twice, across its own reconnections and
\* those of the listener.
THEOREM HubIsBroadcast == Spec => ImplementsBroadcast
<1>1. Init => Stream!LInit
  BY DEF Init, Stream!LInit
<1>2. TypeOK /\ Order /\ [Next]_vars => [Stream!LNext]_(Stream!lvars)
  <2> SUFFICES ASSUME TypeOK, Order, [Next]_vars
               PROVE  Stream!LNext \/ UNCHANGED <<sent, out>>
    BY DEF Stream!lvars
  <2>1. CASE Notify
    BY <2>1 DEF Notify, conns, Stream!LNext, Stream!Publish
  <2>2. ASSUME NEW c \in Client, Deliver(c) PROVE Stream!LNext
    BY <2>2, DeliverIsShow DEF Stream!LNext
  <2>3. CASE Listen \/ Drop \/ Receive \/ Unlock
    BY <2>3 DEF Listen, Drop, Receive, Unlock, net, conns
  <2>4. ASSUME NEW c \in Client,
               Send(c) \/ Open(c) \/ Subscribe(c) \/ Leave(c) \/ WriteInVain(c) \/ Unsubscribe(c)
        PROVE  UNCHANGED <<sent, out>>
    BY <2>4 DEF Send, Open, Subscribe, Leave, WriteInVain, Unsubscribe, net
  <2>5. CASE UNCHANGED vars
    BY <2>5 DEF vars, net, conns
  <2> QED
    BY <2>1, <2>2, <2>3, <2>4, <2>5 DEF Next, Broadcast, Handler
<1>3. Spec => [](TypeOK /\ Lock /\ Order)
  BY InitTypeOK, NextTypeOK, InitLock, NextLock, InitOrder, NextOrder, PTL DEF Spec
<1> QED
  BY <1>1, <1>2, <1>3, PTL DEF Spec, ImplementsBroadcast, Stream!LSpec

\* What a lossy broadcast promises: a client has been shown messages that were
\* published, in the order of their publication and none twice.
ShownInOrder ==
    \A c \in Client :
        /\ out[c] \in Seq(Nat)
        /\ Increasing(out[c])
        /\ Below(out[c], sent + 1)

\* The abstract specification keeps the promise, with any number of messages.
LEMMA BroadcastKeepsOrder == Stream!LSpec => []ShownInOrder
<1> DEFINE I == sent \in Nat /\ out \in [Client -> Seq(Nat)] /\ ShownInOrder
<1>1. Stream!LInit => I
  BY DEF Stream!LInit, ShownInOrder, Increasing, Below
<1>2. I /\ [Stream!LNext]_(Stream!lvars) => I'
  <2> SUFFICES ASSUME I, [Stream!LNext]_(Stream!lvars) PROVE I'
    OBVIOUS
  <2>1. CASE Stream!Publish
    <3>1. sent' = sent + 1 /\ out' = out /\ sent \in Nat
      BY <2>1 DEF Stream!Publish
    <3>2. ASSUME NEW c \in Client PROVE Below(out[c], sent' + 1)
      <4>1. \A n \in 1 .. Len(out[c]) : out[c][n] \in Nat /\ out[c][n] < sent + 1
        BY DEF ShownInOrder, Below
      <4> QED
        BY <3>1, <4>1 DEF Below
    <3> QED
      BY <3>1, <3>2 DEF ShownInOrder
  <2>2. ASSUME NEW c \in Client, NEW m \in 1 .. sent, Stream!Show(c, m) PROVE I'
    <3>1. /\ out' = [out EXCEPT ![c] = Append(out[c], m)] /\ sent' = sent
          /\ Below(out[c], m)
      BY <2>2 DEF Stream!Show, Stream!Newer, Below
    <3>2. out[c] \in Seq(Nat) /\ m \in Nat /\ m < sent + 1
      BY DEF ShownInOrder
    <3>3. Append(out[c], m) \in Seq(Nat)
      BY <3>2
    <3>4. Increasing(Append(out[c], m))
      BY <3>1, <3>2, AppendOrder DEF ShownInOrder
    <3>5. Below(Append(out[c], m), sent + 1)
      BY <3>2, AppendBelow DEF ShownInOrder
    <3> QED
      BY <3>1, <3>3, <3>4, <3>5 DEF ShownInOrder
  <2>3. CASE UNCHANGED Stream!lvars
    BY <2>3 DEF Stream!lvars, ShownInOrder
  <2> QED
    BY <2>1, <2>2, <2>3 DEF Stream!LNext
<1>3. I => ShownInOrder
  OBVIOUS
<1> QED
  BY <1>1, <1>2, <1>3, PTL DEF Stream!LSpec

\* So does the event stream, which implements it: whatever is dropped and however
\* often listener and browser reconnect, handleEvents shows a browser no
\* notification twice, none that was not sent, and an older one never after a
\* newer.
THEOREM BrowsersSeeOrder == Spec => []ShownInOrder
BY HubIsBroadcast, BroadcastKeepsOrder, PTL DEF ImplementsBroadcast
-----------------------------------------------------------------------------
(* Every gap has its cause.                                                *)

LEMMA ToSetAppend ==
    ASSUME NEW s \in Seq(Msgs), NEW e \in Msgs
    PROVE  ToSet(Append(s, e)) = ToSet(s) \cup {e}
<1>1. /\ Len(s) \in Nat
      /\ DOMAIN s = 1 .. Len(s) /\ DOMAIN Append(s, e) = 1 .. Len(s) + 1
      /\ \A n \in 1 .. Len(s) + 1 : Append(s, e)[n] = IF n = Len(s) + 1 THEN e ELSE s[n]
  BY AppendFacts
<1>2. \A n \in 1 .. Len(s) : n \in 1 .. Len(s) + 1 /\ Append(s, e)[n] = s[n]
  BY <1>1
<1>3. Len(s) + 1 \in 1 .. Len(s) + 1 /\ Append(s, e)[Len(s) + 1] = e
  BY <1>1
<1>4. \A n \in 1 .. Len(s) + 1 : n \in 1 .. Len(s) \/ n = Len(s) + 1
  BY <1>1
<1> QED
  BY <1>1, <1>2, <1>3, <1>4 DEF ToSet

LEMMA ToSetTail ==
    ASSUME NEW s \in Seq(Msgs), s # <<>>
    PROVE  ToSet(s) = {Head(s)} \cup ToSet(Tail(s))
<1>1. /\ Len(s) \in Nat \ {0} /\ Len(Tail(s)) = Len(s) - 1
      /\ DOMAIN s = 1 .. Len(s) /\ DOMAIN Tail(s) = 1 .. Len(Tail(s))
      /\ Head(s) = s[1]
      /\ \A n \in 1 .. Len(Tail(s)) : Tail(s)[n] = s[n + 1] /\ n + 1 \in 1 .. Len(s)
  BY TailFacts
<1>2. \A n \in 1 .. Len(s) : n = 1 \/ (n - 1 \in 1 .. Len(Tail(s)) /\ Tail(s)[n - 1] = s[n])
  BY <1>1
<1>3. 1 \in 1 .. Len(s)
  BY <1>1
<1>4. \A n \in 1 .. Len(s) : s[n] = Head(s) \/ s[n] \in ToSet(Tail(s))
  <2>1. \A n \in 1 .. Len(Tail(s)) : Tail(s)[n] \in ToSet(Tail(s))
    BY <1>1 DEF ToSet
  <2> QED
    BY <1>1, <1>2, <2>1
<1>5. ToSet(s) \subseteq {Head(s)} \cup ToSet(Tail(s))
  BY <1>1, <1>4 DEF ToSet
<1>6. ToSet(Tail(s)) \subseteq ToSet(s)
  BY <1>1 DEF ToSet
<1>7. Head(s) \in ToSet(s)
  BY <1>1, <1>3 DEF ToSet
<1> QED
  BY <1>5, <1>6, <1>7

\* Where a message is that is not broadcast yet.
Waiting == \A m \in taken + 1 .. sent : m \in ToSet(inbox) \cup lost

\* Where a broadcast message is, seen from c; NothingSkipped for one message.
Placed(c, m) ==
    \/ m \in ToSet(out[c]) \cup ToSet(chan[c]) \cup dropped[c] \cup lost
    \/ m = bc /\ c \in todo

LEMMA InitWaiting == Init => Waiting /\ NothingSkipped
BY DEF Init, Waiting, NothingSkipped

\* All steps but the broadcast's only move a message on, or touch none.
LEMMA SamePlaces ==
    ASSUME NothingSkipped, UNCHANGED <<bc, todo, base, taken, dropped>>, lost \subseteq lost',
           \A c \in Client : hpc'[c] = "stream" =>
               /\ hpc[c] = "stream"
               /\ ToSet(out[c]) \cup ToSet(chan[c]) \subseteq (ToSet(out[c]) \cup ToSet(chan[c]))'
    PROVE  NothingSkipped'
BY DEF NothingSkipped

LEMMA NextWaiting ==
    TypeOK /\ Lock /\ Order /\ Waiting /\ NothingSkipped /\ [Next]_vars
        => Waiting' /\ NothingSkipped'
<1> SUFFICES ASSUME TypeOK, Lock, Order, Waiting, NothingSkipped, [Next]_vars
             PROVE  Waiting' /\ NothingSkipped'
  OBVIOUS
<1>0. /\ sent \in Nat /\ taken \in Nat /\ bc \in Nat /\ inbox \in Seq(Msgs)
      /\ \A c \in Client : chan[c] \in Seq(Msgs) /\ out[c] \in Seq(Msgs) /\ base[c] \in Nat
  BY HubAssumption DEF TypeOK
<1>1. CASE Notify
  <2>1. sent + 1 \in Msgs
    BY <1>0, <1>1, HubAssumption DEF Notify, Msgs
  <2>2. NothingSkipped'
    BY <1>1, SamePlaces DEF Notify, cast, conns
  <2>3. \A m \in taken' + 1 .. sent' : m \in taken + 1 .. sent \/ m = sent + 1
    BY <1>0, <1>1 DEF Notify
  <2>4. sent + 1 \in ToSet(inbox') \cup lost' /\ ToSet(inbox) \cup lost \subseteq ToSet(inbox') \cup lost'
    BY <1>0, <1>1, <2>1, ToSetAppend DEF Notify
  <2> QED
    BY <2>2, <2>3, <2>4 DEF Waiting
<1>2. CASE Listen
  BY <1>2, SamePlaces DEF Listen, Waiting, cast, conns, history
<1>3. CASE Drop
  <2>1. NothingSkipped'
    BY <1>3, SamePlaces DEF Drop, cast, conns
  <2> QED
    BY <1>3, <2>1 DEF Drop, Waiting
<1>4. CASE Receive
  <2>1. ToSet(inbox) = {Head(inbox)} \cup ToSet(Tail(inbox))
    BY <1>0, <1>4, ToSetTail DEF Receive
  <2>2. /\ Head(inbox) \in Nat /\ taken < Head(inbox) /\ Head(inbox) <= sent
        /\ \A m \in ToSet(Tail(inbox)) : m \in Nat /\ Head(inbox) < m
    <3>1. /\ Head(inbox) = inbox[1] /\ 1 \in 1 .. Len(inbox) /\ Head(inbox) \in Msgs
          /\ Tail(inbox) \in Seq(Msgs)
      BY <1>0, <1>4, TailFacts DEF Receive
    <3>2. \A n \in 1 .. Len(Tail(inbox)) : Tail(inbox)[n] \in Msgs /\ Head(inbox) < Tail(inbox)[n]
      BY <1>0, <1>4, <3>1, TailOrder DEF Receive, Order
    <3>3. taken < Head(inbox) /\ Head(inbox) < sent + 1
      BY <3>1 DEF Order, Below
    <3>4. DOMAIN Tail(inbox) = 1 .. Len(Tail(inbox))
      BY <3>1
    <3>5. \A m \in ToSet(Tail(inbox)) : m \in Nat /\ Head(inbox) < m
      BY <3>2, <3>4, MsgsNat DEF ToSet
    <3> QED
      BY <1>0, <3>1, <3>3, <3>5, MsgsNat
  <2>3. Waiting'
    <3>1. \A m \in Head(inbox) + 1 .. sent : m \in taken + 1 .. sent /\ m # Head(inbox)
      BY <1>0, <2>2
    <3> QED
      BY <1>4, <2>1, <3>1 DEF Receive, Waiting
  <2>4. \A m \in taken + 1 .. Head(inbox) : m = Head(inbox) \/ m \in lost
    <3>1. \A m \in taken + 1 .. Head(inbox) : m \in taken + 1 .. sent /\ ~(Head(inbox) < m)
      BY <1>0, <2>2
    <3> QED
      BY <2>1, <2>2, <3>1 DEF Waiting
  <2>5. ASSUME NEW c \in Client, hpc[c] = "stream", NEW m \in base[c] + 1 .. Head(inbox)
        PROVE  Placed(c, m)'
    <3>1. c \in todo'
      BY <1>4, <2>5 DEF Receive, Lock
    <3>2. CASE m = Head(inbox)
      BY <1>4, <3>1, <3>2 DEF Receive, Placed
    <3>3. CASE m \in taken + 1 .. Head(inbox) /\ m # Head(inbox)
      BY <1>4, <2>4, <3>3 DEF Receive, Placed
    <3>4. CASE m \notin taken + 1 .. Head(inbox)
      <4>1. m \in base[c] + 1 .. taken /\ m # 0
        BY <1>0, <2>2, <2>5, <3>4
      <4> QED
        BY <1>4, <2>5, <4>1 DEF Receive, NothingSkipped, Placed, conns
    <3> QED
      BY <3>2, <3>3, <3>4
  <2> QED
    BY <1>4, <2>3, <2>5 DEF Receive, NothingSkipped, Placed, conns
<1>5. ASSUME NEW c \in Client, Send(c) PROVE Waiting' /\ NothingSkipped'
  <2>1. bc \in Msgs
    BY <1>0, <1>5, HubAssumption DEF Send, TypeOK, Msgs
  <2>2. CASE Full(c)
    <3>1. dropped'[c] = dropped[c] \cup {bc} /\ \A d \in Client \ {c} : dropped'[d] = dropped[d]
      BY <1>5, <2>2 DEF Send, TypeOK
    <3> QED
      BY <1>5, <2>2, <3>1 DEF Send, Waiting, NothingSkipped, net
  <2>3. CASE ~Full(c)
    <3>1. chan'[c] = Append(chan[c], bc) /\ \A d \in Client \ {c} : chan'[d] = chan[d]
      BY <1>5, <2>3 DEF Send, TypeOK
    <3>2. ToSet(chan'[c]) = ToSet(chan[c]) \cup {bc}
      BY <1>0, <2>1, <3>1, ToSetAppend
    <3> QED
      BY <1>5, <2>3, <3>1, <3>2 DEF Send, Waiting, NothingSkipped, net
  <2> QED
    BY <2>2, <2>3
<1>6. CASE Unlock
  BY <1>6 DEF Unlock, Waiting, NothingSkipped, net, conns, history
<1>7. ASSUME NEW c \in Client, Open(c) PROVE Waiting' /\ NothingSkipped'
  <2>1. \A d \in Client : hpc'[d] = "stream" => hpc[d] = "stream"
    BY <1>7 DEF Open, TypeOK
  <2> QED
    BY <1>7, <2>1, SamePlaces DEF Open, Waiting, net, cast, history
<1>8. ASSUME NEW c \in Client, Subscribe(c) PROVE Waiting' /\ NothingSkipped'
  <2>1. base'[c] = taken /\ taken' = taken
    BY <1>8 DEF Subscribe, TypeOK
  <2>2. \A m \in base'[c] + 1 .. taken' : FALSE
    BY <1>0, <2>1
  <2>3. \A d \in Client \ {c} :
            /\ base'[d] = base[d] /\ hpc'[d] = hpc[d]
            /\ chan'[d] = chan[d] /\ dropped'[d] = dropped[d]
    BY <1>8 DEF Subscribe, TypeOK
  <2> QED
    BY <1>8, <2>2, <2>3 DEF Subscribe, Waiting, NothingSkipped, net, cast
<1>9. ASSUME NEW c \in Client, Deliver(c) PROVE Waiting' /\ NothingSkipped'
  <2>1. ToSet(chan[c]) = {Head(chan[c])} \cup ToSet(Tail(chan[c]))
    BY <1>0, <1>9, ToSetTail DEF Deliver
  <2>2. ToSet(Append(out[c], Head(chan[c]))) = ToSet(out[c]) \cup {Head(chan[c])}
    BY <1>0, <1>9, TailFacts, ToSetAppend DEF Deliver
  <2>3. /\ out'[c] = Append(out[c], Head(chan[c])) /\ chan'[c] = Tail(chan[c])
        /\ \A d \in Client \ {c} : out'[d] = out[d] /\ chan'[d] = chan[d]
    BY <1>9 DEF Deliver, TypeOK
  <2>4. \A d \in Client :
          ToSet(out[d]) \cup ToSet(chan[d]) \subseteq (ToSet(out[d]) \cup ToSet(chan[d]))'
    BY <2>1, <2>2, <2>3
  <2> QED
    BY <1>9, <2>4, SamePlaces DEF Deliver, Waiting, net, cast, history
<1>10. ASSUME NEW c \in Client, Leave(c) \/ Unsubscribe(c) PROVE Waiting' /\ NothingSkipped'
  <2>1. \A d \in Client : hpc'[d] = "stream" => hpc[d] = "stream"
    BY <1>10 DEF Leave, Unsubscribe, TypeOK
  <2> QED
    BY <1>10, <2>1, SamePlaces DEF Leave, Unsubscribe, Waiting, net, cast, history
<1>11. ASSUME NEW c \in Client, WriteInVain(c) PROVE Waiting' /\ NothingSkipped'
  <2>1. \A d \in Client : hpc'[d] = "stream" => d # c /\ chan'[d] = chan[d]
    BY <1>11 DEF WriteInVain, TypeOK
  <2> QED
    BY <1>11, <2>1, SamePlaces DEF WriteInVain, Waiting, net, cast, history
<1>12. CASE UNCHANGED vars
  BY <1>12, SamePlaces DEF vars, net, cast, conns, history, Waiting
<1> QED
  BY <1>1, <1>2, <1>3, <1>4, <1>5, <1>6, <1>7, <1>8, <1>9, <1>10, <1>11, <1>12
  DEF Next, Broadcast, Handler

\* What was broadcast since a browser subscribed has reached it, waits in its
\* channel, met a full channel, or came while nobody listened.
THEOREM EveryGapHasACause == Spec => []NothingSkipped
BY InitTypeOK, NextTypeOK, InitLock, NextLock, InitOrder, NextOrder, InitWaiting, NextWaiting,
   PTL DEF Spec
=============================================================================
