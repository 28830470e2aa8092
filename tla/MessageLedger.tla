---------------------------- MODULE MessageLedger ----------------------------
(***************************************************************************)
(* What the send path of the server promises, whatever its awaits, retries, *)
(* failures and restarts: a message is entered at most once for each pair   *)
(* of sender and clientMessageId, an entry is never changed or taken back,  *)
(* and members are told of entries only, under the id and the               *)
(* clientMessageId they were entered with.                                  *)
(***************************************************************************)
EXTENDS Integers

CONSTANTS Users, Members, ClientIds

VARIABLES
    entries,   \* the messages entered: [id, sender, cid]
    notices    \* news of entries on its way to members: [to, entry]

Entry == [id : Nat, sender : Members, cid : ClientIds]

Init == entries = {} /\ notices = {}

Enter(e) ==
    /\ e \in Entry
    /\ ~\E f \in entries : f.id = e.id \/ (f.sender = e.sender /\ f.cid = e.cid)
    /\ entries' = entries \cup {e}
    /\ UNCHANGED notices

\* Any members are told of an entry; news already on its way may be taken or
\* lost at the same time.
Tell(e) ==
    /\ notices' \subseteq notices \cup [to : Members, entry : {e}]
    /\ UNCHANGED entries

Forget ==
    /\ notices' \subseteq notices
    /\ UNCHANGED entries

Next ==
    \/ \E e \in entries' \ entries : Enter(e)
    \/ \E e \in entries : Tell(e)
    \/ Forget

Spec == Init /\ [][Next]_<<entries, notices>>

=============================================================================
