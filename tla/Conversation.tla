---------------------------- MODULE Conversation ----------------------------
(***************************************************************************)
(* What the users of a room are promised, whatever the connections, the    *)
(* retries, the restarts and the order of events: a message that somebody  *)
(* sent is stored at most once, a device shows stored messages only and    *)
(* never takes back having shown one, and a sender sees a message as       *)
(* delivered only after another user's device has shown it.                *)
(***************************************************************************)
EXTENDS Integers

CONSTANTS Devices, UserOf, Participants, ClientIds, DrawnBy

VARIABLES
    sent,    \* the messages that users have sent, by clientMessageId
    stored,  \* those that the server has stored: [id, sender, cid]
    shown,   \* the ids of stored messages that each device has shown
    ticks    \* those that each device shows as its user's own and delivered

Init ==
    /\ sent = {}
    /\ stored = {}
    /\ shown = [d \in Devices |-> {}]
    /\ ticks = [d \in Devices |-> {}]

Send(m) ==
    /\ sent' = sent \cup {m}
    /\ UNCHANGED <<stored, shown, ticks>>

\* A message sent is stored, for the user who sent it and under an id of its own.
Store(x) ==
    /\ x.cid \in sent
    /\ x.sender = UserOf[DrawnBy[x.cid]]
    /\ x.sender \in Participants
    /\ ~\E y \in stored : y.id = x.id \/ y.cid = x.cid
    /\ stored' = stored \cup {x}
    /\ UNCHANGED <<sent, shown, ticks>>

\* Another user's device has shown the message.
Delivered(x) == \E o \in Devices : UserOf[o] # x.sender /\ x.id \in shown[o]

\* The list of messages on a device changes.
Look(d) ==
    LET mine == {x \in stored : x.sender = UserOf[d]} IN
    /\ \E new \in SUBSET {x.id : x \in stored} :
         shown' = [shown EXCEPT ![d] = @ \cup new]
    /\ \E delivered \in SUBSET {x.id : x \in {y \in mine : Delivered(y)}} :
         ticks' = [ticks EXCEPT ![d] = delivered]
    /\ UNCHANGED <<sent, stored>>

Next ==
    \/ \E m \in ClientIds : Send(m)
    \/ \E x \in stored' \ stored : Store(x)
    \/ \E d \in Devices : Look(d)

Spec == Init /\ [][Next]_<<sent, stored, shown, ticks>>

=============================================================================
