--------------------------- MODULE LossyBroadcast ---------------------------
(***************************************************************************)
(* What the event stream promises a browser: messages are published one    *)
(* after another, and each client sees some of them, in the order of their *)
(* publication and none of them twice, however often it reconnects.        *)
(***************************************************************************)
EXTENDS Naturals, Sequences

CONSTANT Client

VARIABLES
    published,    \* number of messages published so far
    seen          \* seen[c]: the messages client c has been shown

lvars == <<published, seen>>

LInit == published = 0 /\ seen = [c \in Client |-> <<>>]

Publish == published' = published + 1 /\ UNCHANGED seen

Newer(c, m) == \A n \in DOMAIN seen[c] : seen[c][n] < m

Show(c, m) ==
    /\ Newer(c, m)
    /\ seen' = [seen EXCEPT ![c] = Append(@, m)]
    /\ UNCHANGED published

LNext ==
    \/ Publish
    \/ \E c \in Client : \E m \in 1 .. published : Show(c, m)

LSpec == LInit /\ [][LNext]_lvars
=============================================================================
