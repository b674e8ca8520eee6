----------------------------- MODULE XpcMailbox -----------------------------
(***************************************************************************)
(* What an XpcConnection (crates/ios-core/src/xpc/rsd.rs) promises to its  *)
(* callers.  The device posts messages; each one is handed out whole and   *)
(* at most once.  A failing read may cost messages, and a cancelled        *)
(* operation may break the mailbox for good; a broken mailbox hands out    *)
(* nothing.  Messages are named by the order in which they were posted.    *)
(***************************************************************************)
EXTENDS Naturals

CONSTANT MaxSent   \* messages the device posts

VARIABLES
    posted,     \* how many messages the device has posted
    mail,       \* messages that may still be handed out
    taken,      \* messages handed out
    broken      \* the connection must be re-established

mailbox == <<posted, mail, taken, broken>>

Init == posted = 0 /\ mail = {} /\ taken = {} /\ broken = FALSE

Post == /\ posted < MaxSent
        /\ posted' = posted + 1
        /\ mail' = mail \cup {posted'}
        /\ UNCHANGED <<taken, broken>>

Take(m) == /\ ~broken /\ m \in mail
           /\ mail' = mail \ {m}
           /\ taken' = taken \cup {m}
           /\ UNCHANGED <<posted, broken>>

\* Messages are lost, and the mailbox may break with them.
Lose == /\ mail' \in SUBSET mail
        /\ broken' \in (IF broken THEN {TRUE} ELSE BOOLEAN)
        /\ UNCHANGED <<posted, taken>>

Next == Post \/ (\E m \in mail : Take(m)) \/ Lose

Spec == Init /\ [][Next]_mailbox

=============================================================================
