----------------------------- MODULE RsdLadder -----------------------------
(***************************************************************************)
(* How the directory of a device's services is obtained: the rungs that    *)
(* attempt_rsd_via_proxy climbs (device/rsd_connect.rs), each with its own *)
(* timeout, the single probe of attempt_rsd, the messages they write, skip *)
(* and read (xpc/rsd.rs), and the retries around them                      *)
(* (resolve_rsd_with_retry in device/connected.rs).                        *)
(*                                                                         *)
(* A rung that times out drops its future wherever it was.  The passive    *)
(* rung then reads from the same framer, so what matters is what a dropped *)
(* read leaves there: a message is a header and, if it has one, a body,    *)
(* and the two may arrive far apart.  The framer itself is H2Wire and      *)
(* H2Demux.                                                                *)
(***************************************************************************)
EXTENDS Naturals, Sequences

CONSTANTS MaxSkips,     \* messages read_rsd_handshake looks at (6)
          MaxAttempts,  \* MAX_ATTEMPTS of resolve_rsd_with_retry
          MaxMessages,  \* bound on the messages of the device on one framer
          Kinds,        \* kinds of message the device sends
          NoRsd

Units == [part : {"header", "body"}, kind : Kinds, n : Nat]

ASSUME LadderAssumption ==
    /\ {MaxSkips, MaxAttempts} \subseteq Nat \ {0} /\ MaxMessages \in Nat
    /\ Kinds \subseteq {"handshake", "other", "empty", "undecodable", "oversize"}
    /\ NoRsd \notin Units

VARIABLES via,      \* "proxy" for a userspace tunnel, "direct" for a kernel one
          rung,     \* the timeout the host is in, or where it is between two
          todo,     \* what is left of the rung: writes, discards, the read
          reading,  \* the header taken from the stream, or NoRsd
          skips,    \* iterations of read_rsd_handshake
          attempts, \* iterations of resolve_rsd_with_retry
          marker,   \* the framer's message_read_in_progress
          broken,   \* the framer refuses further use
          inbox,    \* units of each stream that have arrived
          due,      \* body the device has yet to send on each stream
          count,    \* messages the device sent on this framer
          tried,    \* history: rungs of this attempt
          rsd       \* the handshake that was returned

ladderVars == <<via, rung, todo, reading, skips, attempts, marker, broken, inbox, due,
                count, tried, rsd>>

StreamIds == {1, 3}
Unit(part, kind, n) == [part |-> part, kind |-> kind, n |-> n]
HasBody(kind) == kind # "empty"

\* queue_rsd_handshake_bootstrap_on_framer, initialize_xpc_connection_on_framer
\* and read_rsd_handshake: w writes, o opens, d discards, r reads.
Script(r) ==
    CASE r = "queued" -> <<"w1", "o3", "w1", "w3">>
      [] r = "legacy" -> <<"w1", "d1", "o3", "w1", "d1", "w3", "d3">>
      [] OTHER -> <<"r1">>

StreamOf(op) == IF op = "d3" THEN 3 ELSE 1

-----------------------------------------------------------------------------
\* The match arms of attempt_rsd_via_proxy and attempt_rsd.
AfterOk(r) == CASE r = "queued" -> "queuedRead" [] r = "legacy" -> "legacyRead"

\* A slip: a failed rung is tried again on the same framer.
AfterErrorAgain(r) == r

AfterError(r) ==
    CASE r \in {"queued", "queuedRead"} -> "reopen"
      [] r \in {"legacy", "legacyRead"} -> "passive"
      [] OTHER -> "none"

AfterTimeout(r) ==
    CASE r \in {"queued", "queuedRead"} -> "reopen"
      [] r = "legacy" -> "passive"
      [] OTHER -> "none"

Rungs == {"queued", "queuedRead", "legacy", "legacyRead", "passive", "direct"}

\* A rung is entered, or the attempt is over.
Enter(r) ==
    /\ rung' = r /\ reading' = NoRsd /\ skips' = 0
    /\ todo' = IF r \in Rungs THEN Script(r) ELSE <<>>
    /\ tried' = tried \cup ({r} \cap Rungs)

-----------------------------------------------------------------------------
LadderInit ==
    /\ via \in {"proxy", "direct"}
    /\ rung = "idle" /\ todo = <<>> /\ reading = NoRsd /\ skips = 0 /\ attempts = 0
    /\ marker = FALSE /\ broken = FALSE
    /\ inbox = [s \in StreamIds |-> <<>>] /\ due = [s \in StreamIds |-> NoRsd] /\ count = 0
    /\ tried = {} /\ rsd = NoRsd

\* A new connection and a new framer; the old one is dropped with what it held.
NewFramer ==
    /\ marker' = FALSE /\ broken' = FALSE
    /\ inbox' = [s \in StreamIds |-> <<>>] /\ due' = [s \in StreamIds |-> NoRsd] /\ count' = 0

framerVars == <<marker, broken, inbox, due, count>>

\* open_rsd_proxy_framer succeeds, for the first or the second framer; for the
\* direct probe the dial and H2Framer::connect.
Opens ==
    /\ rung \in {"open", "reopen"} /\ NewFramer
    /\ Enter(IF via = "direct" THEN "direct" ELSE IF rung = "open" THEN "queued" ELSE "legacy")
    /\ UNCHANGED <<via, attempts, rsd>>

OpenFails ==
    /\ rung \in {"open", "reopen"}
    /\ rung' = "none" /\ tried' = tried \cup {"unopened"}
    /\ UNCHANGED <<via, todo, reading, skips, attempts, framerVars, rsd>>

\* An attempt starts: the first one, or one after a failed one and its sleep.
Attempt ==
    /\ rung = "idle" /\ rsd = NoRsd /\ attempts < MaxAttempts
    /\ rung' = "open" /\ tried' = {} /\ attempts' = attempts + 1
    /\ UNCHANGED <<via, todo, reading, skips, framerVars, rsd>>

AttemptFails ==
    /\ rung = "none"
    /\ rung' = IF attempts = MaxAttempts THEN "failed" ELSE "idle"
    /\ UNCHANGED <<via, todo, reading, skips, attempts, framerVars, tried, rsd>>

-----------------------------------------------------------------------------
Errs == Enter(AfterError(rung))

\* The operation at the head is done; the last one ends the rung.
Done == IF Len(todo) = 1 THEN Enter(AfterOk(rung))
        ELSE todo' = Tail(todo) /\ reading' = NoRsd /\ UNCHANGED <<rung, skips, tried>>

Writing == todo # <<>> /\ Head(todo) \in {"w1", "w3", "o3"}
Reading == todo # <<>> /\ Head(todo) \in {"d1", "d3", "r1"}

Write ==
    /\ Writing /\ ~broken /\ Done
    /\ UNCHANGED <<via, attempts, framerVars, rsd>>

\* A write or a read of the framer fails; a broken framer always does.
FramerFails ==
    /\ todo # <<>>
    /\ broken' = TRUE /\ Errs
    /\ UNCHANGED <<via, attempts, marker, inbox, due, count, rsd>>

\* Slip: the marker is not looked at.
MayStartAlways == TRUE

\* is_message_read_in_progress refuses a read on a framer left inside a message.
MayStart == ~marker

Refused ==
    /\ Reading /\ reading = NoRsd /\ ~MayStart /\ Errs
    /\ UNCHANGED <<via, attempts, framerVars, rsd>>

\* read_rsd_handshake with a whole message; a discard does not look at it.
\* decode_message errors are returned, other messages skipped.
GotMessage(h, b) ==
    IF Head(todo) # "r1" THEN Done /\ UNCHANGED rsd
    ELSE CASE h.kind = "handshake" -> rsd' = [header |-> h, body |-> b] /\ Enter("found")
           [] h.kind = "undecodable" -> Errs /\ UNCHANGED rsd
           [] OTHER -> /\ IF skips + 1 = MaxSkips THEN Errs
                          ELSE skips' = skips + 1 /\ reading' = NoRsd
                               /\ UNCHANGED <<rung, todo, tried>>
                       /\ UNCHANGED rsd

\* read_raw_xpc_message: the header is consumed and the marker set; a length
\* beyond the limit is an error that leaves it set; no body clears it.
TakeHeader ==
    /\ Reading /\ reading = NoRsd /\ MayStart /\ ~broken
    /\ LET s == StreamOf(Head(todo)) IN
         /\ inbox[s] # <<>>
         /\ LET h == Head(inbox[s]) IN
              /\ inbox' = [inbox EXCEPT ![s] = Tail(@)]
              /\ marker' = HasBody(h.kind)
              /\ IF h.kind = "oversize" THEN Errs /\ UNCHANGED rsd
                 ELSE IF HasBody(h.kind)
                      THEN reading' = h /\ UNCHANGED <<rung, todo, skips, tried, rsd>>
                      ELSE GotMessage(h, h)
    /\ UNCHANGED <<via, attempts, broken, due, count>>

TakeBody ==
    /\ Reading /\ reading # NoRsd /\ ~broken
    /\ LET s == StreamOf(Head(todo)) IN
         /\ inbox[s] # <<>>
         /\ inbox' = [inbox EXCEPT ![s] = Tail(@)]
         /\ marker' = FALSE
         /\ GotMessage(reading, Head(inbox[s]))
    /\ UNCHANGED <<via, attempts, broken, due, count>>

\* The timeout of the rung.  A dropped write may leave the framer unusable.
Timeout ==
    /\ rung \in Rungs /\ Enter(AfterTimeout(rung))
    /\ broken' \in {broken} \cup (IF Writing THEN {TRUE} ELSE {})
    /\ UNCHANGED <<via, attempts, marker, inbox, due, count, rsd>>

-----------------------------------------------------------------------------
\* The device (external): headers and bodies arrive on either stream at any
\* time, and a body of one stream may be followed by a header of the other.
DeviceHeader(s, kind) ==
    /\ rung \in Rungs /\ count < MaxMessages /\ due[s] = NoRsd
    /\ count' = count + 1
    /\ inbox' = [inbox EXCEPT ![s] = Append(@, Unit("header", kind, count + 1))]
    /\ due' = [due EXCEPT ![s] = IF HasBody(kind) THEN Unit("body", kind, count + 1) ELSE @]
    /\ UNCHANGED <<via, rung, todo, reading, skips, attempts, marker, broken, tried, rsd>>

DeviceBody(s) ==
    /\ rung \in Rungs /\ due[s] # NoRsd
    /\ inbox' = [inbox EXCEPT ![s] = Append(@, due[s])]
    /\ due' = [due EXCEPT ![s] = NoRsd]
    /\ UNCHANGED <<via, rung, todo, reading, skips, attempts, marker, broken, count, tried, rsd>>

-----------------------------------------------------------------------------
HostStep ==
    \/ Attempt \/ Opens \/ OpenFails \/ AttemptFails \/ Write \/ FramerFails
    \/ Refused \/ TakeHeader \/ TakeBody \/ Timeout

LadderNext ==
    \/ HostStep
    \/ \E s \in StreamIds : DeviceBody(s) \/ \E kind \in Kinds : DeviceHeader(s, kind)

\* The runtime runs the host, and a timeout fires when nothing else does.
LadderFairness == WF_ladderVars(HostStep)

LadderSpec == LadderInit /\ [][LadderNext]_ladderVars /\ LadderFairness

-----------------------------------------------------------------------------
\* A read never starts inside a message: while the marker is down, every stream
\* stands at a header.  A returned handshake is one whole message of the framer
\* in use.  An attempt through the proxy gives up only after both bootstraps or
\* when no connection could be opened.
RsdFaithful ==
    /\ ~marker => \A s \in StreamIds : inbox[s] # <<>> => Head(inbox[s]).part = "header"
    /\ rsd # NoRsd => /\ rsd.header.kind = "handshake" /\ rsd.header.n <= count
                      /\ rsd.body = Unit("body", "handshake", rsd.header.n)
    /\ rung = "none" /\ via = "proxy" => "unopened" \in tried \/ {"queued", "legacy"} \subseteq tried

\* resolve_rsd_with_retry returns: with a handshake or after its last attempt.
ResolveEnds == rung \in Rungs ~> rung \in {"found", "failed"}
=============================================================================
