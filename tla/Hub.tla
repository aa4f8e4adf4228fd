-------------------------------- MODULE Hub ---------------------------------
(***************************************************************************)
(* Server-sent events (api/sse.go): the listener goroutine that receives   *)
(* the notifications of channel "enrichments" from the database, the hub   *)
(* that copies each of them into the buffered channel of every open        *)
(* connection, and one handler goroutine per connection that writes them   *)
(* to the browser.                                                         *)
(*                                                                         *)
(* Messages are the ordinals of the notifications, in commit order: their  *)
(* payload matters to nobody here.  A client is an EventSource of a        *)
(* browser, which reconnects after its connection is gone.                 *)
(***************************************************************************)
EXTENDS Naturals, Sequences, SequencesExt

CONSTANTS
    Client,
    Capacity,     \* make(chan string, 16)
    MaxMsgs       \* bound: notifications

ASSUME HubAssumption == Capacity \in Nat \ {0} /\ MaxMsgs \in Nat

VARIABLES
    sent,         \* notifications committed so far
    session,      \* listener's database session: "down" or "up"
    inbox,        \* notifications the session has yet to hand over
    bc,           \* message of the running broadcast, which holds h.mu; or 0
    todo,         \* connections the running broadcast has yet to reach
    subs,         \* h.subs
    chan,         \* chan[c]: buffer of the connection's channel
    closed,       \* closed[c]: close(ch) has been called on it
    hpc,          \* handler of c: "idle", "joining", "stream", "gone"
    out,          \* out[c]: what the browser has received, over its connections
    (* history, read by properties only: *)
    lost,         \* messages no broadcast ever saw: nobody was listening
    dropped,      \* dropped[c]: messages that met a full channel
    base,         \* base[c]: last broadcast message when c subscribed
    taken         \* last message handed to broadcast

net == <<sent, session, inbox>>
cast == <<bc, todo>>
conns == <<subs, chan, closed, hpc, out>>
history == <<lost, dropped, base, taken>>
vars == <<net, cast, conns, history>>

Msgs == 1 .. MaxMsgs

TypeOK ==
    /\ sent \in 0 .. MaxMsgs
    /\ session \in {"down", "up"}
    /\ inbox \in Seq(Msgs)
    /\ bc \in 0 .. MaxMsgs
    /\ todo \subseteq Client
    /\ subs \subseteq Client
    /\ chan \in [Client -> Seq(Msgs)]
    /\ \A c \in Client : Len(chan[c]) <= Capacity
    /\ closed \in [Client -> BOOLEAN]
    /\ hpc \in [Client -> {"idle", "joining", "stream", "gone"}]
    /\ out \in [Client -> Seq(Msgs)]
    /\ lost \subseteq Msgs
    /\ dropped \in [Client -> SUBSET Msgs]
    /\ base \in [Client -> 0 .. MaxMsgs]
    /\ taken \in 0 .. MaxMsgs

Init ==
    /\ sent = 0 /\ session = "down" /\ inbox = <<>>
    /\ bc = 0 /\ todo = {}
    /\ subs = {}
    /\ chan = [c \in Client |-> <<>>]
    /\ closed = [c \in Client |-> TRUE]
    /\ hpc = [c \in Client |-> "idle"]
    /\ out = [c \in Client |-> <<>>]
    /\ lost = {} /\ taken = 0
    /\ dropped = [c \in Client |-> {}]
    /\ base = [c \in Client |-> 0]
-----------------------------------------------------------------------------
(* The database: NOTIFY reaches the sessions that listen at the commit.    *)

Notify ==
    /\ sent < MaxMsgs
    /\ sent' = sent + 1
    /\ IF session = "up"
       THEN inbox' = Append(inbox, sent + 1) /\ UNCHANGED lost
       ELSE lost' = lost \cup {sent + 1} /\ UNCHANGED inbox
    /\ UNCHANGED <<session, cast, conns, dropped, base, taken>>
-----------------------------------------------------------------------------
(* The listener (runListener, broadcast).                                  *)

\* Connect and LISTEN succeeded; an attempt that fails is retried after 2 s.
Listen ==
    /\ session = "down"
    /\ bc = 0
    /\ session' = "up"
    /\ UNCHANGED <<sent, inbox, cast, conns, history>>

\* The session breaks; what it had not handed over is gone.  The listener
\* notices in WaitForNotification, after the broadcast it may be running.
Drop ==
    /\ session = "up"
    /\ session' = "down"
    /\ lost' = lost \cup ToSet(inbox)
    /\ inbox' = <<>>
    /\ UNCHANGED <<sent, cast, conns, dropped, base, taken>>

\* h.mu is free unless a broadcast is running: the other critical sections
\* are one step each.
MuIgnored == TRUE

MuFree == bc = 0

ReceiveAgain ==
    /\ bc = 0
    /\ inbox # <<>>
    /\ bc' = Head(inbox)
    /\ taken' = Head(inbox)
    /\ todo' = subs
    /\ UNCHANGED <<net, conns, lost, dropped, base>>

\* WaitForNotification returns and broadcast takes h.mu.
Receive ==
    /\ bc = 0
    /\ inbox # <<>>
    /\ bc' = Head(inbox)
    /\ taken' = Head(inbox)
    /\ inbox' = Tail(inbox)
    /\ todo' = subs
    /\ UNCHANGED <<sent, session, conns, lost, dropped, base>>

FullOffByOne(c) == Len(chan[c]) > Capacity

\* The select of broadcast finds no room.
Full(c) == Len(chan[c]) >= Capacity

SendBlocking(c) ==
    /\ bc # 0 /\ c \in todo
    /\ ~Full(c)
    /\ chan' = [chan EXCEPT ![c] = Append(@, bc)]
    /\ todo' = todo \ {c}
    /\ UNCHANGED <<net, bc, subs, closed, hpc, out, history>>

SendEvicting(c) ==
    /\ bc # 0 /\ c \in todo
    /\ chan' = [chan EXCEPT ![c] = Append(IF Full(c) THEN Tail(@) ELSE @, bc)]
    /\ todo' = todo \ {c}
    /\ UNCHANGED <<net, bc, subs, closed, hpc, out, history>>

\* One iteration of the loop over h.subs, in any order: the select drops the
\* message when the channel is full.
Send(c) ==
    /\ bc # 0
    /\ c \in todo
    /\ todo' = todo \ {c}
    /\ IF Full(c)
       THEN dropped' = [dropped EXCEPT ![c] = @ \cup {bc}] /\ UNCHANGED chan
       ELSE chan' = [chan EXCEPT ![c] = Append(@, bc)] /\ UNCHANGED dropped
    /\ UNCHANGED <<net, bc, subs, closed, hpc, out, lost, base, taken>>

UnlockForgotten ==
    /\ bc # 0
    /\ todo = {}
    /\ \A c \in Client : bc \notin dropped[c]
    /\ bc' = 0
    /\ UNCHANGED <<net, todo, conns, history>>

\* defer h.mu.Unlock()
Unlock ==
    /\ bc # 0
    /\ todo = {}
    /\ bc' = 0
    /\ UNCHANGED <<net, todo, conns, history>>
-----------------------------------------------------------------------------
(* The handlers (eventsHandler, subscribe, unsubscribe).                   *)

\* A browser opens /events, for the first time or again.
Open(c) ==
    /\ hpc[c] = "idle"
    /\ hpc' = [hpc EXCEPT ![c] = "joining"]
    /\ UNCHANGED <<net, cast, subs, chan, closed, out, history>>

\* subscribe: a channel of its own, inserted under h.mu.
Subscribe(c) ==
    /\ hpc[c] = "joining"
    /\ MuFree
    /\ subs' = subs \cup {c}
    /\ chan' = [chan EXCEPT ![c] = <<>>]
    /\ closed' = [closed EXCEPT ![c] = FALSE]
    /\ hpc' = [hpc EXCEPT ![c] = "stream"]
    /\ base' = [base EXCEPT ![c] = taken]
    /\ dropped' = [dropped EXCEPT ![c] = {}]
    /\ UNCHANGED <<net, cast, out, lost, taken>>

\* case iocID := <-ch
Deliver(c) ==
    /\ hpc[c] = "stream"
    /\ chan[c] # <<>>
    /\ out' = [out EXCEPT ![c] = Append(@, Head(chan[c]))]
    /\ chan' = [chan EXCEPT ![c] = Tail(@)]
    /\ UNCHANGED <<net, cast, subs, closed, hpc, history>>

\* The browser goes away; the handler has not noticed yet.
Leave(c) ==
    /\ hpc[c] = "stream"
    /\ hpc' = [hpc EXCEPT ![c] = "gone"]
    /\ UNCHANGED <<net, cast, subs, chan, closed, out, history>>

\* select may still choose a message over ctx.Done: it is written to no one.
WriteInVain(c) ==
    /\ hpc[c] = "gone"
    /\ chan[c] # <<>>
    /\ chan' = [chan EXCEPT ![c] = Tail(@)]
    /\ UNCHANGED <<net, cast, subs, closed, hpc, out, history>>

\* case <-ctx.Done(), and the deferred unsubscribe: out of the map, and closed.
Unsubscribe(c) ==
    /\ hpc[c] = "gone"
    /\ MuFree
    /\ subs' = subs \ {c}
    /\ closed' = [closed EXCEPT ![c] = TRUE]
    /\ hpc' = [hpc EXCEPT ![c] = "idle"]
    /\ UNCHANGED <<net, cast, chan, out, history>>
-----------------------------------------------------------------------------
Broadcast == Receive \/ (\E c \in Client : Send(c)) \/ Unlock

Handler(c) ==
    Open(c) \/ Subscribe(c) \/ Deliver(c) \/ Leave(c) \/ WriteInVain(c) \/ Unsubscribe(c)

Next == Notify \/ Listen \/ Drop \/ Broadcast \/ \E c \in Client : Handler(c)

Spec == Init /\ [][Next]_vars

\* The listener's loop runs, and a goroutine that waits for h.mu gets it in
\* the end (Go's mutex hands over to a waiter it has starved).  A browser that
\* reads nothing is not forced to: Deliver has no fairness.
FairSpec ==
    /\ Spec
    /\ WF_vars(Broadcast)
    /\ \A c \in Client : SF_vars(Subscribe(c)) /\ SF_vars(Unsubscribe(c))
-----------------------------------------------------------------------------
(* Properties.                                                             *)

\* broadcast never sends on a closed channel, which would panic and, the
\* listener being a goroutine of main, end the whole API.
NoSendOnClosed == \A c \in todo : ~closed[c]

\* Everything broadcast since a browser subscribed has reached it, waits in its
\* channel, met a full channel, or came while nobody listened.
NothingSkipped ==
    \A c \in Client : hpc[c] = "stream" =>
        \A m \in base[c] + 1 .. taken :
            \/ m \in ToSet(out[c]) \cup ToSet(chan[c]) \cup dropped[c] \cup lost
            \/ m = bc /\ c \in todo

\* What browsers see is a lossy broadcast: in order, never twice, across
\* reconnections of the browser and of the listener.
Stream == INSTANCE LossyBroadcast WITH published <- sent, seen <- out

ImplementsBroadcast == Stream!LSpec

\* A browser that stops reading holds up neither the listener ...
BroadcastEnds == \A m \in Msgs : bc = m ~> bc = 0

\* ... nor the end of its own handler.
HandlersReturn == \A c \in Client : hpc[c] = "gone" ~> hpc[c] = "idle"
=============================================================================
