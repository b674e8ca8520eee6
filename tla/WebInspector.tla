---------------------------- MODULE WebInspector ----------------------------
(***************************************************************************)
(* The client of the web inspector service (services/webinspector/mod.rs)  *)
(* and the session that uses it, an InspectorSession or an                 *)
(* AutomationSession.  The device sends messages of its own accord, so a   *)
(* call that waits for one of them meets others: those about applications  *)
(* go into the client's cache, socket data that is not what the call wants *)
(* is put aside and put back, in order, into pending_events when the call  *)
(* returns.  Every wait has a deadline.                                    *)
(*                                                                         *)
(* A frame is a length and a property list.  recv_plist forgets the length *)
(* it has read when its future is dropped; `skewed` says that this has     *)
(* happened, and whatever is read afterwards makes no sense.               *)
(***************************************************************************)
EXTENDS Naturals, Sequences, SequencesExt

CONSTANTS MaxData,      \* bound on the socket data the device sends
          MaxOther,     \* bound on its other messages
          MaxWebCommands,  \* bound on the commands of the session
          TargetIds,    \* targets the inspector knows
          NoTarget

VARIABLES session,  \* "automation", "inspector", or "bridge" for one with a debugger behind it
          frames,   \* frames on their way to the host
          skewed,   \* the stream is no longer at the start of a frame
          page,     \* what the cache has of the automation page
          pending,  \* pending_events
          target,   \* target_id of the session
          ids,      \* the last command and transport identifiers
          running,  \* the call of the session or of the client
          answers,  \* answers the device owes
          sent,     \* history: number of messages of the device
          spent,    \* history: socket data given to a caller or thrown away
          forgone,  \* history: the ways socket data was lost
          replied   \* history: the last reply given to a caller

webVars == <<session, frames, skewed, page, pending, target, ids, running, answers, sent,
             spent, forgone, replied>>

Data(n, nested, kind, arg) == [n |-> n, nested |-> nested, kind |-> kind, arg |-> arg]
IsData(e) == e.n > 0

\* What a reply answers: a plain command, a wrapped one, or the wrapper.
Answer(of, id) == [of |-> of, id |-> id]
NoAnswer == Answer("none", 0)

NoCall == [op |-> "none", id |-> 0, skipped |-> <<>>, at |-> "next"]

WebInit ==
    /\ session \in {"inspector", "bridge", "automation"}
    /\ frames = <<>> /\ skewed = FALSE /\ page = "none"
    /\ pending = <<>> /\ target = NoTarget /\ ids = [command |-> 0, transport |-> 0]
    /\ running = NoCall
    /\ answers = {} /\ sent = [data |-> 0, other |-> 0]
    /\ spent = {} /\ forgone = {} /\ replied = [id |-> 0, answer |-> NoAnswer]

-----------------------------------------------------------------------------
Idle == running.op = "none"
Call(op, id) == [op |-> op, id |-> id, skipped |-> <<>>, at |-> "next"]

\* start, open_application_pages and wait_for_automation_page throw away what
\* they read; next_raw_message returns the next socket data; wait_for_target
\* waits for a target.
Begins(op) ==
    /\ Idle
    /\ op \in {"raw", "target"} => session # "automation"
    /\ op = "target" => target = NoTarget
    /\ op \in {"attachPage", "attachConnection"} => session = "automation"
    /\ running' = Call(op, 0)
    /\ UNCHANGED <<session, frames, skewed, page, pending, target, ids, answers, sent, spent, forgone, replied>>

Awaits == IF session = "automation" THEN "answer" ELSE "response"

\* send_command, and the wait for its reply.  A session with a target wraps the
\* command, and the device acknowledges the wrapping too.
SendCommandAndWait ==
    /\ Idle /\ ids.command < MaxWebCommands
    /\ session = "automation" => page # "none"
    /\ ids' = [command |-> ids.command + 1,
               transport |-> IF target = NoTarget THEN ids.transport ELSE ids.transport + 1]
    /\ answers' = answers \cup
         (IF target = NoTarget THEN {Answer("plain", ids'.command)}
          ELSE {Answer("wrapped", ids'.command), Answer("wrapper", ids'.transport)})
    /\ running' = Call(Awaits, ids'.command)
    /\ UNCHANGED <<session, frames, skewed, page, pending, target, sent, spent, forgone, replied>>

\* send_bridge_message: a message of a debugger, with identifiers of its own.
SendBridgeMessage ==
    /\ Idle /\ session = "bridge" /\ target # NoTarget /\ ids.transport < MaxWebCommands
    /\ ids' = [ids EXCEPT !.transport = @ + 1]
    /\ answers' = answers \cup {Answer("wrapper", ids'.transport)}
    /\ UNCHANGED <<session, frames, skewed, page, pending, target, running, sent, spent, forgone, replied>>

-----------------------------------------------------------------------------
\* A slip: what was put aside is dropped with the call.
RestoredNot(rest) == rest

\* restore_pending_events_front, with what next_event left.
Restored(rest) == running.skipped \o rest

\* The call returns; what it has put aside goes back.
Returns(rest) == running' = NoCall /\ pending' = Restored(rest)

\* observe_message
Observed(e) ==
    CASE e.kind = "created" -> e.arg
      [] e.kind = "destroyed" -> IF target = e.arg THEN NoTarget ELSE target
      [] OTHER -> target

IsReply(e, id) == e.kind = "reply" /\ e.arg.id = id

\* match_response: inside a wrapper the message is observed, outside it is not.
Matches(e) ==
    CASE running.op = "answer" -> IsReply(e, running.id)
      [] e.nested -> IsReply(e, running.id)
      [] OTHER -> target = NoTarget /\ IsReply(e, running.id)

TargetAfter(e) ==
    CASE running.op \in {"raw", "target"} /\ ~e.nested -> Observed(e)
      [] running.op = "response" /\ e.nested -> Observed(e)
      [] OTHER -> target

\* should_preserve_message: an acknowledgement of a wrapper is not kept.
Preserved(e) == ~(running.op = "response" /\ TargetAfter(e) # NoTarget /\ ~e.nested /\ e.kind = "reply")

\* Socket data that the call does not want, of one that puts such aside.
PutsAside(e, rest) ==
    /\ running' = [running EXCEPT !.skipped = IF Preserved(e) THEN Append(@, e) ELSE @, !.at = "lap"]
    /\ spent' = IF Preserved(e) THEN spent ELSE spent \cup {e.n}
    /\ pending' = rest /\ UNCHANGED <<forgone, replied>>

GotData(e, rest) ==
    /\ target' = TargetAfter(e)
    /\ CASE running.op \in {"start", "pages", "attachPage", "attachConnection"} ->
              /\ running' = [running EXCEPT !.at = "next"] /\ pending' = rest
              /\ spent' = spent \cup {e.n} /\ UNCHANGED <<forgone, replied>>
         [] running.op = "raw" ->
              Returns(rest) /\ spent' = spent \cup {e.n} /\ UNCHANGED <<forgone, replied>>
         [] running.op = "target" ->
              IF e.kind = "broken"
              THEN /\ running' = NoCall /\ pending' = rest /\ spent' = spent \cup {e.n}
                   /\ forgone' = forgone \cup {"broken"} /\ UNCHANGED replied
              ELSE IF target' # NoTarget
                   THEN Returns(rest) /\ spent' = spent \cup {e.n} /\ UNCHANGED <<forgone, replied>>
                   ELSE PutsAside(e, rest)
         [] OTHER ->
              IF running.op = "response" /\ e.kind = "broken"
              THEN Returns(rest) /\ spent' = spent \cup {e.n} /\ UNCHANGED <<forgone, replied>>
              ELSE IF Matches(e)
                   THEN /\ Returns(rest) /\ spent' = spent \cup {e.n} /\ UNCHANGED forgone
                        /\ replied' = [id |-> running.id, answer |-> e.arg]
                   ELSE PutsAside(e, rest)

\* handle_message for the other messages; one that it does not know is an error.
GotOther(e, rest) ==
    /\ page' = IF e.kind = "listing" THEN e.arg ELSE page
    /\ CASE e.kind = "unsupported" -> Returns(rest)
         [] e.kind = "state" /\ running.op = "start" -> Returns(rest)
         [] OTHER -> running' = [running EXCEPT !.at = "next"] /\ pending' = rest
    /\ UNCHANGED <<target, spent, forgone, replied>>

Got(e, rest) == IF IsData(e) THEN GotData(e, rest) /\ UNCHANGED page ELSE GotOther(e, rest)

\* wait_for_automation_page looks at the cache before it reads.
Attached == \/ running.op = "attachPage" /\ page # "none"
            \/ running.op = "attachConnection" /\ page = "connected"

AttachReturns ==
    /\ Attached /\ running' = NoCall
    /\ UNCHANGED <<session, frames, skewed, page, pending, target, ids, answers, sent, spent, forgone, replied>>

Waiting == ~Idle /\ running.at = "next" /\ ~Attached

TakePending ==
    /\ Waiting /\ pending # <<>>
    /\ Got(Head(pending), Tail(pending))
    /\ UNCHANGED <<session, frames, skewed, ids, answers, sent>>

\* recv_plist: the length, and then the rest.
ReadLength ==
    /\ Waiting /\ pending = <<>> /\ ~skewed /\ frames # <<>>
    /\ running' = [running EXCEPT !.at = "body"]
    /\ UNCHANGED <<session, frames, skewed, page, pending, target, ids, answers, sent, spent, forgone, replied>>

ReadBody ==
    /\ running.at = "body"
    /\ frames' = Tail(frames) /\ Got(Head(frames), pending)
    /\ UNCHANGED <<session, skewed, ids, answers, sent>>

\* The deadline passes in a read, or the read fails: the error goes through the
\* arm that restores.
ReadFails ==
    /\ ~Idle /\ running.at \in {"next", "body"} /\ pending = <<>>
    /\ Returns(pending) /\ skewed' = (skewed \/ running.at = "body")
    /\ UNCHANGED <<session, frames, page, target, ids, answers, sent, spent, forgone, replied>>

\* The loop of a wait looks at the time after each message it puts aside.  When
\* the deadline has passed, `?` leaves the function with what was put aside.
Loops ==
    /\ running.at = "lap"
    /\ running' = [running EXCEPT !.at = "next"]
    /\ UNCHANGED <<session, frames, skewed, page, pending, target, ids, answers, sent, spent, forgone, replied>>

DeadlinePassed ==
    /\ running.at = "lap"
    /\ running' = NoCall /\ forgone' = forgone \cup {"deadline"}
    /\ UNCHANGED <<session, frames, skewed, page, pending, target, ids, answers, sent, spent, replied>>

\* The caller drops the call.
WebCallDropped ==
    /\ ~Idle /\ running.at \in {"next", "body"} /\ pending = <<>>
    /\ running' = NoCall /\ skewed' = (skewed \/ running.at = "body")
    /\ forgone' = forgone \cup (IF running.skipped = <<>> THEN {} ELSE {"dropped"})
    /\ UNCHANGED <<session, frames, page, pending, target, ids, answers, sent, spent, replied>>

-----------------------------------------------------------------------------
\* The device (external).
Bodies ==
    {[kind |-> k, arg |-> t] : k \in {"created", "destroyed"}, t \in TargetIds}
      \cup {[kind |-> k, arg |-> NoAnswer] : k \in {"event", "broken"}}
      \cup {[kind |-> "reply", arg |-> a] : a \in answers}

\* A reply to a wrapped command comes in a wrapper; an acknowledgement does not,
\* nor does what is said of the targets themselves.
DeviceSendsData(b, nested) ==
    /\ sent.data < MaxData /\ ~skewed
    /\ nested => session # "automation" /\ b.kind \in {"event", "broken", "reply"}
    /\ b.kind = "reply" => (nested <=> b.arg.of = "wrapped")
    /\ sent' = [sent EXCEPT !.data = @ + 1]
    /\ frames' = Append(frames, Data(sent.data + 1, nested, b.kind, b.arg))
    /\ answers' = IF b.kind = "reply" THEN answers \ {b.arg} ELSE answers
    /\ UNCHANGED <<session, skewed, page, pending, target, ids, running, spent, forgone, replied>>

Others == {[kind |-> "listing", arg |-> "listed"], [kind |-> "listing", arg |-> "connected"],
           [kind |-> "state", arg |-> "none"], [kind |-> "unsupported", arg |-> "none"]}

DeviceSendsOther(b) ==
    /\ sent.other < MaxOther /\ ~skewed
    /\ sent' = [sent EXCEPT !.other = @ + 1]
    /\ frames' = Append(frames, Data(0, FALSE, b.kind, b.arg))
    /\ UNCHANGED <<session, skewed, page, pending, target, ids, running, answers, spent, forgone, replied>>

-----------------------------------------------------------------------------
Operations == {"start", "pages", "attachPage", "attachConnection", "raw", "target"}

WebNext ==
    \/ \E op \in Operations : Begins(op)
    \/ SendCommandAndWait \/ SendBridgeMessage
    \/ AttachReturns \/ TakePending \/ ReadLength \/ ReadBody \/ ReadFails
    \/ Loops \/ DeadlinePassed \/ WebCallDropped
    \/ \E b \in Bodies, nested \in BOOLEAN : DeviceSendsData(b, nested)
    \/ \E b \in Others : DeviceSendsOther(b)

WebSpec == WebInit /\ [][WebNext]_webVars

-----------------------------------------------------------------------------
Held == running.skipped \o pending
Line == Held \o frames
NumbersOf(q) == {q[i].n : i \in DOMAIN q}

\* Socket data is neither lost nor duplicated nor reordered by calls that wait
\* for something else: what is put aside, what is pending and what is still on
\* its way are in the order of the device, none of it was given out before, and
\* together with what was given out it is all there is, unless a call was left
\* while it held some: by a deadline between two reads, by a malformed target
\* message, or because it was dropped.  Commands and wrappers are numbered apart,
\* but no acknowledgement is taken for a reply, unless bridged messages share the
\* session.
EventsKept ==
    /\ \A i, j \in DOMAIN Line :
         i < j /\ IsData(Line[i]) /\ IsData(Line[j]) => Line[i].n < Line[j].n
    /\ \A i \in DOMAIN Held : Held[i].n \notin spent
    /\ forgone = {} => NumbersOf(Held) \cup spent = (1 .. sent.data) \ NumbersOf(frames)
    /\ session # "bridge" => replied.answer.of # "wrapper"
=============================================================================
