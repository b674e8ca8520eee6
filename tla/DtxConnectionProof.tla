------------------------- MODULE DtxConnectionProof -------------------------
(***************************************************************************)
(* Proofs about DtxConnection, for every set of shapes, every limit and    *)
(* every number of calls, messages and dropped futures.                    *)
(*                                                                         *)
(* A message is known by who numbered it and by its number, so the header  *)
(* fields that a fragment must share with its accumulator leave only one   *)
(* message (NumberInv).  A message is begun once: the frame that opens it, *)
(* its only one or its first fragment, is never on the wire again, and     *)
(* what is in an accumulator or in the reader's hands is not yet complete  *)
(* (FrameInv, ReadInv).  A complete message is in one place (PlaceInv),    *)
(* and those that recv hands out keep their order, since recv reads the    *)
(* stream only when the queue is empty (OrderInv, ControlInv).             *)
(***************************************************************************)
EXTENDS DtxConnection, SequenceTheorems, FiniteSetTheorems, TLAPS

Msg == [id : Nat, conv : {0, 1}, expects : BOOLEAN, len : Nat, cnt : Nat \ {0}, ok : BOOLEAN]
FrameType == [m : Nat, idx : Nat]
Accumulator == [m : Nat, parts : SUBSET FrameType]

In(q, m) == \E i \in 1 .. Len(q) : q[i] = m
Inj(q) == \A i, j \in 1 .. Len(q) : q[i] = q[j] => i = j

TypeInv ==
    /\ identifier \in Nat \ {0}
    /\ op \in [kind : {"none", "call", "async", "recv"}, id : Nat]
    /\ cur \in FrameType
    /\ queued_messages \in Seq(Nat) /\ completed \in Seq(Nat) /\ delivered \in Seq(Nat)
    /\ \A id \in DOMAIN fragments : fragments[id] \in Accumulator
    /\ wire \in Seq(FrameType) /\ todo \subseteq FrameType /\ asked \subseteq Nat
    /\ sent \in Seq(Msg)

ControlInv ==
    /\ pc \in {"idle", "send", "header", "body", "ack"}
    /\ pc = "idle" => op = NoOp
    /\ pc = "send" => op.kind \in {"call", "async"}
    /\ pc \in {"header", "body", "ack"} => op.kind \in {"call", "recv"}
    /\ pc \in {"header", "body"} /\ op.kind = "recv" => queued_messages = <<>>

\* A number is given once by each side.
NumberInv ==
    /\ \A m, n \in 1 .. Len(sent) : sent[m].id = sent[n].id /\ sent[m].conv = sent[n].conv => m = n
    /\ \A m \in 1 .. Len(sent) :
         /\ sent[m].conv = 0 => sent[m].id <= Cardinality(Events)
         /\ sent[m].conv = 1 => /\ sent[m].id < identifier /\ sent[m].id \notin asked
                                /\ pc = "send" => sent[m].id # op.id
    /\ \A a \in asked : a < identifier /\ (pc = "send" => a # op.id)
    /\ pc = "send" => op.id < identifier

First(m) == [m |-> m, idx |-> 0]
OfSent(f) == f.m \in 1 .. Len(sent) /\ f.idx < sent[f.m].cnt

FrameInv ==
    /\ \A i \in 1 .. Len(wire) : OfSent(wire[i])
    /\ \A i, j \in 1 .. Len(wire) : wire[i].idx = 0 /\ wire[i] = wire[j] => i = j
    /\ \A f \in todo : OfSent(f) /\ f.idx > 0

\* Message m has been begun, and is not yet complete.
Begun(m) == m \in 1 .. Len(sent) /\ ~In(wire, First(m))
Unfinished(m) == Begun(m) /\ ~In(completed, m)

\* The accumulator of identifier id holds parts of the message that opened it.
AccInv(id) ==
    LET acc == fragments[id] IN
    /\ Unfinished(acc.m) /\ sent[acc.m].id = id /\ sent[acc.m].cnt > 1
    /\ \A p \in acc.parts : p.m = acc.m

\* The body that is awaited is the only one of its message, or belongs to an accumulator.
BodyInv ==
    IF sent[cur.m].cnt = 1 THEN Unfinished(cur.m)
    ELSE sent[cur.m].id \in DOMAIN fragments /\ fragments[sent[cur.m].id].m = cur.m

ReadInv ==
    /\ \A i \in 1 .. Len(completed) : Begun(completed[i])
    /\ Inj(completed)
    /\ \A id \in DOMAIN fragments : AccInv(id)
    /\ pc = "body" => BodyInv

Answered == {a.m : a \in answered}
Current == IF pc = "ack" /\ op.kind = "call" THEN {cur.m} ELSE {}

\* Six sets that share no element and make up s.
Split(s, a, b, c, d, e, f) ==
    /\ s = a \cup b \cup c \cup d \cup e \cup f
    /\ a \cap b = {} /\ a \cap c = {} /\ a \cap d = {} /\ a \cap e = {} /\ a \cap f = {}
    /\ b \cap c = {} /\ b \cap d = {} /\ b \cap e = {} /\ b \cap f = {}
    /\ c \cap d = {} /\ c \cap e = {} /\ c \cap f = {}
    /\ d \cap e = {} /\ d \cap f = {} /\ e \cap f = {}

PlaceInv ==
    /\ Split(Range(completed), Answered, Range(delivered), Range(pending_replies),
             Range(queued_messages), lost, Current)
    /\ \A id \in DOMAIN pending_replies : sent[pending_replies[id]].id = id

\* Message x stands before y in q.
Before(q, x, y) == \E i, j \in 1 .. Len(q) : i < j /\ q[i] = x /\ q[j] = y

OrderInv ==
    /\ \A i, j \in 1 .. Len(delivered) : i < j => Before(completed, delivered[i], delivered[j])
    /\ \A i, j \in 1 .. Len(queued_messages) : i < j => Before(completed, queued_messages[i], queued_messages[j])
    /\ \A i \in 1 .. Len(delivered), j \in 1 .. Len(queued_messages) :
         Before(completed, delivered[i], queued_messages[j])
    /\ \A m \in Current : /\ \A i \in 1 .. Len(delivered) : Before(completed, delivered[i], m)
                          /\ \A i \in 1 .. Len(queued_messages) : Before(completed, queued_messages[i], m)

AckInv ==
    \A i \in 1 .. Len(queued_messages) :
       sent[queued_messages[i]].expects => queued_messages[i] \in acked \/ outbound_torn

AnswerInv == \A a \in answered : sent[a.m].id = a.id /\ sent[a.m].conv > 0

Inv == /\ TypeInv /\ ControlInv /\ NumberInv /\ FrameInv /\ ReadInv
       /\ PlaceInv /\ OrderInv /\ AckInv /\ AnswerInv

USE DtxAssumption

\* What is known of complete messages.
MailInv == PlaceInv /\ OrderInv /\ AckInv /\ AnswerInv

-----------------------------------------------------------------------------
\* Sequences and maps.

\* The elements of a sequence are where its indices say.
LEMMA Elements ==
  ASSUME NEW S, NEW q \in Seq(S)
  PROVE  /\ Len(q) \in Nat /\ (Len(q) = 0 <=> q = <<>>)
         /\ DOMAIN q = 1 .. Len(q) /\ \A i \in 1 .. Len(q) : q[i] \in S
OBVIOUS

\* Range and In say the same of a sequence.
LEMMA RangeIn ==
  ASSUME NEW S, NEW q \in Seq(S)
  PROVE  Range(q) \subseteq S /\ \A m : m \in Range(q) <=> In(q, m)
<1>1. DOMAIN q = 1 .. Len(q) /\ \A i \in 1 .. Len(q) : q[i] \in S BY Elements
<1> QED BY <1>1 DEF Range, In

\* Sequence r is q with x behind it.
Longer(r, q, x) ==
    /\ Len(q) \in Nat /\ Len(r) = Len(q) + 1 /\ r[Len(q) + 1] = x
    /\ \A i \in 1 .. Len(q) : r[i] = q[i]
    /\ \A i \in 1 .. Len(r) : i \in 1 .. Len(q) \/ i = Len(q) + 1
    /\ \A m : In(r, m) <=> In(q, m) \/ m = x
    /\ Range(r) = Range(q) \cup {x}

\* Sequence r is q without its head.
Shorter(r, q) ==
    /\ Len(q) \in Nat /\ Len(q) >= 1 /\ Head(q) = q[1] /\ Len(r) = Len(q) - 1
    /\ \A i \in 1 .. Len(r) : r[i] = q[i + 1] /\ i + 1 \in 1 .. Len(q)
    /\ \A m : In(q, m) <=> In(r, m) \/ m = Head(q)
    /\ Range(q) = Range(r) \cup {Head(q)}

\* A sequence with one more element.
LEMMA Appended ==
  ASSUME NEW S, NEW q \in Seq(S), NEW x \in S
  PROVE  Append(q, x) \in Seq(S) /\ Longer(Append(q, x), q, x)
<1> DEFINE r == Append(q, x)
<1>1. r \in Seq(S) /\ Len(r) = Len(q) + 1 /\ r[Len(q) + 1] = x /\ \A i \in 1 .. Len(q) : r[i] = q[i]
  BY AppendProperties
<1>2. Len(q) \in Nat BY Elements
<1>3. \A m : In(r, m) <=> In(q, m) \/ m = x
  <2> HIDE DEF r
  <2>1. ASSUME NEW m, In(r, m) PROVE In(q, m) \/ m = x BY <1>1, <1>2, <2>1 DEF In
  <2>2. ASSUME NEW m, In(q, m) PROVE In(r, m)
    <3>1. PICK i \in 1 .. Len(q) : q[i] = m BY <2>2 DEF In
    <3>2. i \in 1 .. Len(r) /\ r[i] = m BY <1>1, <1>2, <3>1
    <3> QED BY <3>2 DEF In
  <2>3. In(r, x)
    <3>1. Len(q) + 1 \in 1 .. Len(r) BY <1>1, <1>2
    <3> QED BY <3>1, <1>1 DEF In
  <2> QED BY <2>1, <2>2, <2>3
<1>4. Range(r) = Range(q) \cup {x}
  <2>1. \A m : m \in Range(r) <=> In(r, m) BY <1>1, RangeIn
  <2>2. \A m : m \in Range(q) <=> In(q, m) BY RangeIn
  <2> HIDE DEF r
  <2> QED BY <2>1, <2>2, <1>3
<1>5. \A i \in 1 .. Len(r) : i \in 1 .. Len(q) \/ i = Len(q) + 1 BY <1>1, <1>2
<1> HIDE DEF r
<1>6. Longer(r, q, x) BY <1>1, <1>2, <1>3, <1>4, <1>5 DEF Longer
<1> QED BY <1>1, <1>6 DEF r

\* A sequence without its head.
LEMMA Shortened ==
  ASSUME NEW S, NEW q \in Seq(S), q # <<>>
  PROVE  Head(q) \in S /\ Tail(q) \in Seq(S) /\ Shorter(Tail(q), q)
<1> DEFINE r == Tail(q)
<1>1. Len(q) \in Nat /\ Len(q) >= 1 /\ Head(q) = q[1] OBVIOUS
<1>2. Head(q) \in S /\ r \in Seq(S) /\ Len(r) = Len(q) - 1 /\ \A i \in 1 .. Len(r) : r[i] = q[i + 1]
  BY <1>1, HeadTailProperties
<1>3. \A m : In(q, m) <=> In(r, m) \/ m = Head(q)
  <2> HIDE DEF r
  <2>1. ASSUME NEW m, In(q, m), m # Head(q) PROVE In(r, m)
    <3>1. PICK i \in 1 .. Len(q) : q[i] = m BY <2>1 DEF In
    <3>2. i # 1 BY <1>1, <2>1, <3>1
    <3>3. i - 1 \in 1 .. Len(r) /\ r[i - 1] = q[i] BY <1>1, <1>2, <3>2
    <3> QED BY <3>1, <3>3 DEF In
  <2>2. ASSUME NEW m, In(r, m) PROVE In(q, m)
    <3>1. PICK i \in 1 .. Len(r) : r[i] = m BY <2>2 DEF In
    <3>2. i + 1 \in 1 .. Len(q) /\ q[i + 1] = m BY <1>1, <1>2, <3>1
    <3> QED BY <3>2 DEF In
  <2>3. In(q, Head(q))
    <3>1. 1 \in 1 .. Len(q) BY <1>1
    <3> QED BY <3>1, <1>1 DEF In
  <2> QED BY <2>1, <2>2, <2>3
<1>4. Range(q) = Range(r) \cup {Head(q)}
  <2>1. \A m : m \in Range(r) <=> In(r, m) BY <1>2, RangeIn
  <2>2. \A m : m \in Range(q) <=> In(q, m) BY RangeIn
  <2> HIDE DEF r
  <2> QED BY <2>1, <2>2, <1>3
<1>5. \A i \in 1 .. Len(r) : i + 1 \in 1 .. Len(q) BY <1>1, <1>2
<1> HIDE DEF r
<1>6. Shorter(r, q) BY <1>1, <1>2, <1>3, <1>4, <1>5 DEF Shorter
<1> QED BY <1>2, <1>6 DEF r

-----------------------------------------------------------------------------
\* Messages.

\* What was read whole was sent.
LEMMA Known ==
  ASSUME TypeInv, ReadInv
  PROVE  \A m \in Range(completed) : m \in 1 .. Len(sent)
<1>1. \A m \in Range(completed) : In(completed, m) BY RangeIn DEF TypeInv
<1> QED BY <1>1 DEF In, ReadInv, Begun

\* The order in which messages were complete is strict.
LEMMA BeforeIrreflexive ==
  ASSUME ReadInv, TypeInv, NEW x
  PROVE  ~Before(completed, x, x)
<1>1. Len(completed) \in Nat BY Elements DEF TypeInv
<1> QED BY <1>1 DEF Before, ReadInv, Inj

\* No message is queued twice.
LEMMA QueueInj ==
  ASSUME TypeInv, ReadInv, OrderInv
  PROVE  Inj(queued_messages)
<1> SUFFICES ASSUME NEW i \in 1 .. Len(queued_messages), NEW j \in 1 .. Len(queued_messages),
                    queued_messages[i] = queued_messages[j], i # j
             PROVE  FALSE
  BY DEF Inj
<1>1. Len(queued_messages) \in Nat BY Elements DEF TypeInv
<1>2. i < j \/ j < i BY <1>1
<1>3. \/ Before(completed, queued_messages[i], queued_messages[j])
      \/ Before(completed, queued_messages[j], queued_messages[i])
  BY <1>2 DEF OrderInv
<1> QED BY <1>3, BeforeIrreflexive

\* The messages sent so far stay as they are.
Grows ==
    /\ Len(sent') \in Nat /\ Len(sent) <= Len(sent')
    /\ \A m \in 1 .. Len(sent) : sent'[m] = sent[m]

\* Nothing happens to the messages that are complete.
LEMMA MailKept ==
  ASSUME TypeInv, ReadInv, MailInv, Grows,
         UNCHANGED <<completed, answered, delivered, pending_replies, queued_messages, lost>>,
         Current' = Current, acked \subseteq acked', outbound_torn => outbound_torn'
  PROVE  MailInv'
<1>1. \A m \in Range(completed) : sent'[m] = sent[m] BY Known DEF Grows
<1>2. Range(pending_replies) \cup Range(queued_messages) \cup Answered \subseteq Range(completed)
  BY DEF MailInv, PlaceInv, Split
<1>3. PlaceInv'
  <2>1. \A id \in DOMAIN pending_replies : pending_replies[id] \in Range(completed)
    BY <1>2 DEF Range
  <2>2. \A id \in DOMAIN pending_replies : sent'[pending_replies[id]].id = id
    BY <1>1, <2>1 DEF MailInv, PlaceInv
  <2>3. Answered' = Answered BY DEF Answered
  <2>4. Range(completed)' = Range(completed) /\ Range(delivered)' = Range(delivered)
        /\ Range(pending_replies)' = Range(pending_replies)
        /\ Range(queued_messages)' = Range(queued_messages) OBVIOUS
  <2> QED BY <2>2, <2>3, <2>4 DEF MailInv, PlaceInv, Split
<1>4. OrderInv' BY DEF MailInv, OrderInv
<1>5. AckInv'
  <2>1. \A i \in 1 .. Len(queued_messages) : queued_messages[i] \in Range(completed)
    <3>1. \A i \in 1 .. Len(queued_messages) : In(queued_messages, queued_messages[i]) BY DEF In
    <3> QED BY <3>1, <1>2, RangeIn DEF TypeInv
  <2> QED BY <2>1, <1>1 DEF MailInv, AckInv
<1>6. AnswerInv'
  <2>1. \A a \in answered : a.m \in Range(completed) BY <1>2 DEF Answered
  <2> QED BY <2>1, <1>1 DEF MailInv, AnswerInv
<1> QED BY <1>3, <1>4, <1>5, <1>6 DEF MailInv

-----------------------------------------------------------------------------
\* A message in the connection's hands: complete, and not yet in its place.

Hand(m) ==
    /\ Split(Range(completed'), Answered, Range(delivered), Range(pending_replies),
             Range(queued_messages), lost, {m})
    /\ \A x, y : Before(completed, x, y) => Before(completed', x, y)
    /\ \A i \in 1 .. Len(delivered) : Before(completed', delivered[i], m)
    /\ \A i \in 1 .. Len(queued_messages) : Before(completed', queued_messages[i], m)

\* A message that has just become complete is in hand.
LEMMA TakenInHand ==
  ASSUME TypeInv, ReadInv, MailInv, pc # "ack", NEW m \in Nat, ~In(completed, m),
         completed' = Append(completed, m)
  PROVE  Hand(m)
<1>0. completed \in Seq(Nat) /\ Len(completed) \in Nat BY Elements DEF TypeInv
<1>1. /\ completed' \in Seq(Nat) /\ Len(completed') = Len(completed) + 1
      /\ completed'[Len(completed) + 1] = m /\ Len(completed) \in Nat
      /\ \A i \in 1 .. Len(completed) : completed'[i] = completed[i]
      /\ Range(completed') = Range(completed) \cup {m}
  <2>1. completed' \in Seq(Nat) /\ Longer(completed', completed, m) BY <1>0, Appended
  <2> QED BY <2>1 DEF Longer
<1>2. \A x : x \in Range(completed) <=> In(completed, x) BY RangeIn DEF TypeInv
<1>3. Current = {} BY DEF Current
<1>4. Split(Range(completed'), Answered, Range(delivered), Range(pending_replies),
            Range(queued_messages), lost, {m})
  <2>1. m \notin Range(completed) BY <1>2
  <2> QED BY <2>1, <1>1, <1>3 DEF MailInv, PlaceInv, Split
<1>5. ASSUME NEW x, NEW y, Before(completed, x, y) PROVE Before(completed', x, y)
  <2>1. PICK i, j \in 1 .. Len(completed) : i < j /\ completed[i] = x /\ completed[j] = y
    BY <1>5 DEF Before
  <2>2. i \in 1 .. Len(completed') /\ j \in 1 .. Len(completed')
    <3>1. 1 .. Len(completed) \subseteq 1 .. Len(completed') BY <1>0, <1>1
    <3> QED BY <2>1, <3>1
  <2>3. completed'[i] = x /\ completed'[j] = y BY <1>1, <2>1
  <2> QED BY <2>1, <2>2, <2>3 DEF Before
<1>6. ASSUME NEW x \in Range(completed) PROVE Before(completed', x, m)
  <2>1. PICK i \in 1 .. Len(completed) : completed[i] = x BY <1>2 DEF In
  <2>2. /\ i \in 1 .. Len(completed') /\ Len(completed) + 1 \in 1 .. Len(completed')
        /\ i < Len(completed) + 1
    <3>1. Len(completed) \in Nat /\ Len(completed') = Len(completed) + 1 BY <1>1
    <3> QED BY <3>1
  <2>3. completed'[i] = x BY <1>1, <2>1
  <2> QED BY <1>1, <2>2, <2>3 DEF Before
<1>7. Range(delivered) \subseteq Range(completed) /\ Range(queued_messages) \subseteq Range(completed)
  BY DEF MailInv, PlaceInv, Split
<1>8. \A i \in 1 .. Len(delivered) : delivered[i] \in Range(completed)
  BY <1>7, RangeIn DEF TypeInv, In
<1>9. \A i \in 1 .. Len(queued_messages) : queued_messages[i] \in Range(completed)
  BY <1>7, RangeIn DEF TypeInv, In
<1>10. \A x, y : Before(completed, x, y) => Before(completed', x, y) BY <1>5
<1>11. \A i \in 1 .. Len(delivered) : Before(completed', delivered[i], m) BY <1>6, <1>8
<1>12. \A i \in 1 .. Len(queued_messages) : Before(completed', queued_messages[i], m) BY <1>6, <1>9
<1> QED BY <1>4, <1>10, <1>11, <1>12 DEF Hand

\* The message that a call acknowledges is in hand.
LEMMA CurrentInHand ==
  ASSUME MailInv, pc = "ack", op.kind = "call", UNCHANGED completed
  PROVE  Hand(cur.m)
<1>1. Current = {cur.m} BY DEF Current
<1>2. \A x, y : Before(completed', x, y) <=> Before(completed, x, y) OBVIOUS
<1>3. Range(completed') = Range(completed) OBVIOUS
<1>4. Split(Range(completed'), Answered, Range(delivered), Range(pending_replies),
            Range(queued_messages), lost, {cur.m})
  BY <1>1, <1>3 DEF MailInv, PlaceInv
<1>5. /\ \A i \in 1 .. Len(delivered) : Before(completed', delivered[i], cur.m)
      /\ \A i \in 1 .. Len(queued_messages) : Before(completed', queued_messages[i], cur.m)
  BY <1>1, <1>2 DEF MailInv, OrderInv
<1> QED BY <1>2, <1>4, <1>5 DEF Hand

\* The message in hand is lost.
LEMMA HandLost ==
  ASSUME MailInv, NEW m, Hand(m), UNCHANGED <<sent, answered, delivered, pending_replies, queued_messages>>,
         lost' = lost \cup {m}, Current' = {}, acked \subseteq acked', outbound_torn => outbound_torn'
  PROVE  MailInv'
<1>1. Answered' = Answered BY DEF Answered
<1>2. /\ Range(delivered)' = Range(delivered) /\ Range(completed)' = Range(completed')
      /\ Range(pending_replies)' = Range(pending_replies)
      /\ Range(queued_messages)' = Range(queued_messages)
  OBVIOUS
<1>3. PlaceInv' BY <1>1, <1>2 DEF MailInv, PlaceInv, Split, Hand
<1>4. OrderInv' BY DEF MailInv, OrderInv, Hand
<1>5. AckInv' /\ AnswerInv' BY DEF MailInv, AckInv, AnswerInv
<1> QED BY <1>3, <1>4, <1>5 DEF MailInv

\* The message in hand is the reply a call waits for.
LEMMA HandAnswered ==
  ASSUME MailInv, NEW m, Hand(m), UNCHANGED <<sent, delivered, pending_replies, queued_messages, lost>>,
         NEW id, answered' = answered \cup {[id |-> id, m |-> m]}, sent[m].id = id, sent[m].conv > 0,
         Current' = {}, acked \subseteq acked', outbound_torn => outbound_torn'
  PROVE  MailInv'
<1>1. Answered' = Answered \cup {m}
  <2>1. [id |-> id, m |-> m].m = m OBVIOUS
  <2>2. {a.m : a \in answered \cup {[id |-> id, m |-> m]}} = {a.m : a \in answered} \cup {m}
    BY <2>1
  <2> QED BY <2>2 DEF Answered
<1>2. /\ Range(delivered)' = Range(delivered) /\ Range(completed)' = Range(completed')
      /\ Range(pending_replies)' = Range(pending_replies)
      /\ Range(queued_messages)' = Range(queued_messages)
  OBVIOUS
<1>3. PlaceInv' BY <1>1, <1>2 DEF MailInv, PlaceInv, Split, Hand
<1>4. OrderInv' BY DEF MailInv, OrderInv, Hand
<1>5. AckInv' /\ AnswerInv' BY DEF MailInv, AckInv, AnswerInv
<1> QED BY <1>3, <1>4, <1>5 DEF MailInv

\* The message in hand is one that a call acknowledges first.
LEMMA HandHeld ==
  ASSUME MailInv, NEW m, Hand(m),
         UNCHANGED <<sent, answered, delivered, pending_replies, queued_messages, lost>>,
         Current' = {m}, acked \subseteq acked', outbound_torn => outbound_torn'
  PROVE  MailInv'
<1>1. Answered' = Answered BY DEF Answered
<1>2. /\ Range(delivered)' = Range(delivered) /\ Range(completed)' = Range(completed')
      /\ Range(pending_replies)' = Range(pending_replies)
      /\ Range(queued_messages)' = Range(queued_messages)
  OBVIOUS
<1>3. PlaceInv' BY <1>1, <1>2 DEF MailInv, PlaceInv, Split, Hand
<1>4. OrderInv' BY DEF MailInv, OrderInv, Hand
<1>5. AckInv' /\ AnswerInv' BY DEF MailInv, AckInv, AnswerInv
<1> QED BY <1>3, <1>4, <1>5 DEF MailInv

\* The message in hand is a reply that is parked, perhaps in the place of another.
LEMMA HandParked ==
  ASSUME MailInv, NEW m, Hand(m), UNCHANGED <<sent, answered, delivered, queued_messages>>,
         LET id == sent[m].id
             old == IF id \in DOMAIN pending_replies THEN {pending_replies[id]} ELSE {} IN
         /\ pending_replies' = Insert(pending_replies, id, m)
         /\ lost' = lost \cup old,
         Current' = {}, acked \subseteq acked', outbound_torn => outbound_torn'
  PROVE  MailInv'
<1> DEFINE id == sent[m].id
           old == IF id \in DOMAIN pending_replies THEN {pending_replies[id]} ELSE {}
<1>1. Answered' = Answered BY DEF Answered
<1>2. /\ Range(delivered)' = Range(delivered) /\ Range(completed)' = Range(completed')
      /\ Range(queued_messages)' = Range(queued_messages)
  OBVIOUS
<1>3. /\ DOMAIN pending_replies' = DOMAIN pending_replies \cup {id} /\ pending_replies'[id] = m
      /\ \A x \in DOMAIN pending_replies : x # id => pending_replies'[x] = pending_replies[x]
  <2>1. pending_replies' = Insert(pending_replies, id, m) OBVIOUS
  <2> QED BY <2>1 DEF Insert
<1>4. \A x \in DOMAIN pending_replies : sent[pending_replies[x]].id = x BY DEF MailInv, PlaceInv
<1>5. Range(pending_replies') = (Range(pending_replies) \ old) \cup {m}
  <2>1. ASSUME NEW x \in Range(pending_replies') PROVE x \in (Range(pending_replies) \ old) \cup {m}
    <3>1. PICK k \in DOMAIN pending_replies' : pending_replies'[k] = x BY DEF Range
    <3>2. CASE k = id BY <3>1, <3>2, <1>3
    <3>3. CASE k # id
      <4>1. k \in DOMAIN pending_replies /\ pending_replies[k] = x BY <3>1, <3>3, <1>3
      <4>2. x \in Range(pending_replies) BY <4>1 DEF Range
      <4>3. x \notin old BY <4>1, <3>3, <1>4
      <4> QED BY <4>2, <4>3
    <3> QED BY <3>2, <3>3
  <2>2. ASSUME NEW x \in Range(pending_replies) \ old PROVE x \in Range(pending_replies')
    <3>1. PICK k \in DOMAIN pending_replies : pending_replies[k] = x BY <2>2 DEF Range
    <3>2. k # id BY <3>1, <2>2
    <3>3. k \in DOMAIN pending_replies' /\ pending_replies'[k] = x BY <3>1, <3>2, <1>3
    <3> QED BY <3>3 DEF Range
  <2>3. m \in Range(pending_replies') BY <1>3 DEF Range
  <2> QED BY <2>1, <2>2, <2>3
<1>6. old \subseteq Range(pending_replies) BY DEF Range
<1>7. lost' = lost \cup old OBVIOUS
<1> HIDE DEF old
<1>8. Split(Range(completed)', Answered', Range(delivered)', Range(pending_replies)',
            Range(queued_messages)', lost', Current')
  BY <1>1, <1>2, <1>5, <1>6, <1>7 DEF Split, Hand
<1>9. \A x \in DOMAIN pending_replies' : sent'[pending_replies'[x]].id = x BY <1>3, <1>4
<1>10. OrderInv' BY DEF MailInv, OrderInv, Hand
<1>11. AckInv' /\ AnswerInv' BY DEF MailInv, AckInv, AnswerInv
<1> QED BY <1>8, <1>9, <1>10, <1>11 DEF MailInv, PlaceInv

\* The message in hand is queued, behind the others; a full queue drops its oldest.
LEMMA HandQueued ==
  ASSUME TypeInv, ReadInv, MailInv, NEW m \in Nat, Hand(m),
         UNCHANGED <<sent, answered, delivered, pending_replies>>,
         LET dropped == IF QueueFull THEN {Head(queued_messages)} ELSE {} IN
         /\ queued_messages' = Append(WithRoom, m)
         /\ lost' = lost \cup dropped,
         sent[m].expects => m \in acked' \/ outbound_torn',
         Current' = {}, acked \subseteq acked', outbound_torn => outbound_torn'
  PROVE  MailInv' /\ queued_messages' \in Seq(Nat)
<1> DEFINE dropped == IF QueueFull THEN {Head(queued_messages)} ELSE {}
           q == queued_messages
           w == WithRoom
           shift == IF QueueFull THEN 1 ELSE 0
<1>1. q \in Seq(Nat) /\ Len(q) \in Nat /\ Inj(q) BY Elements, QueueInj DEF TypeInv, MailInv
<1>2. /\ w \in Seq(Nat) /\ Len(w) = Len(q) - shift /\ Len(w) \in Nat
      /\ \A i \in 1 .. Len(w) : w[i] = q[i + shift] /\ i + shift \in 1 .. Len(q)
      /\ Range(w) = Range(q) \ dropped /\ dropped \subseteq Range(q)
  <2>1. CASE QueueFull
    <3>1. q # <<>> BY <1>1, <2>1 DEF QueueFull
    <3>2. /\ Len(q) >= 1 /\ Head(q) = q[1] /\ Tail(q) \in Seq(Nat) /\ Len(Tail(q)) = Len(q) - 1
          /\ \A i \in 1 .. Len(Tail(q)) : Tail(q)[i] = q[i + 1]
          /\ Range(q) = Range(Tail(q)) \cup {Head(q)}
      <4>1. Tail(q) \in Seq(Nat) /\ Shorter(Tail(q), q) BY <1>1, <3>1, Shortened
      <4> QED BY <4>1 DEF Shorter
    <3>3. w = Tail(q) /\ dropped = {Head(q)} /\ shift = 1 BY <2>1 DEF WithRoom
    <3>4. Head(q) \notin Range(Tail(q))
      <4>1. SUFFICES ASSUME In(Tail(q), Head(q)) PROVE FALSE BY <3>2, RangeIn
      <4>2. PICK i \in 1 .. Len(Tail(q)) : Tail(q)[i] = Head(q) BY <4>1 DEF In
      <4>3. i + 1 \in 1 .. Len(q) /\ 1 \in 1 .. Len(q) /\ q[i + 1] = q[1] BY <1>1, <3>2, <4>2
      <4>4. i + 1 = 1 BY <4>3, <1>1 DEF Inj
      <4> QED BY <4>2, <4>4, <1>1, <3>2
    <3>5. Len(Tail(q)) \in Nat /\ \A i \in 1 .. Len(Tail(q)) : i + 1 \in 1 .. Len(q) BY <1>1, <3>2
    <3> HIDE DEF w, q, dropped, shift
    <3> QED BY <3>2, <3>3, <3>4, <3>5
  <2>2. CASE ~QueueFull
    <3>1. w = q /\ dropped = {} /\ shift = 0 BY <2>2 DEF WithRoom
    <3> HIDE DEF w, q, dropped, shift
    <3> QED BY <1>1, <3>1
  <2> QED BY <2>1, <2>2
<1>3. /\ q' \in Seq(Nat) /\ Len(q') = Len(w) + 1 /\ q'[Len(w) + 1] = m
      /\ \A i \in 1 .. Len(w) : q'[i] = w[i]
      /\ Range(q') = Range(w) \cup {m}
  <2>1. q' = Append(w, m) OBVIOUS
  <2>2. w \in Seq(Nat) BY <1>2
  <2>3. Append(w, m) \in Seq(Nat) /\ Longer(Append(w, m), w, m) BY <2>2, Appended
  <2> HIDE DEF w, q
  <2>4. q' \in Seq(Nat) /\ Longer(q', w, m) BY <2>1, <2>3
  <2> QED BY <2>4 DEF Longer
<1>4. lost' = lost \cup dropped OBVIOUS
<1>5. shift \in {0, 1} OBVIOUS
<1>6. Range(q) = Range(queued_messages) /\ Range(q)' = Range(queued_messages') OBVIOUS
<1> HIDE DEF w, dropped, shift
<1>7. \A i \in 1 .. Len(q') : (i \in 1 .. Len(w) /\ q'[i] = q[i + shift] /\ i + shift \in 1 .. Len(q))
                             \/ (i = Len(w) + 1 /\ q'[i] = m)
  <2> SUFFICES ASSUME NEW i \in 1 .. Len(q'), i \notin 1 .. Len(w) PROVE i = Len(w) + 1
    BY <1>2, <1>3
  <2>1. Len(w) \in Nat /\ Len(q') = Len(w) + 1 BY <1>2, <1>3
  <2> HIDE DEF q
  <2> QED BY <2>1
<1>8. PlaceInv'
  <2>1. Answered' = Answered BY DEF Answered
  <2>2. /\ Range(delivered)' = Range(delivered) /\ Range(completed)' = Range(completed')
        /\ Range(pending_replies)' = Range(pending_replies)
    OBVIOUS
  <2>3. Range(q') = (Range(q) \ dropped) \cup {m} /\ dropped \subseteq Range(q) BY <1>2, <1>3
  <2>4. Split(Range(completed)', Answered', Range(delivered)', Range(pending_replies)', Range(q'),
              lost', Current')
    <3> HIDE DEF q
    <3> QED BY <2>1, <2>2, <2>3, <1>4, <1>6 DEF Split, Hand
  <2> QED BY <2>4 DEF PlaceInv, MailInv
<1>9. OrderInv'
  <2>1. ASSUME NEW i \in 1 .. Len(q'), NEW j \in 1 .. Len(q'), i < j
        PROVE  Before(completed', q'[i], q'[j])
    <3>1. i \in 1 .. Len(w) /\ q'[i] = q[i + shift] /\ i + shift \in 1 .. Len(q)
      <4>1. Len(q') = Len(w) + 1 /\ Len(w) \in Nat BY <1>2, <1>3
      <4>2. i # Len(w) + 1 BY <4>1, <2>1
      <4> QED BY <1>7, <4>2
    <3>2. CASE j \in 1 .. Len(w) /\ q'[j] = q[j + shift] /\ j + shift \in 1 .. Len(q)
      <4>1. i + shift < j + shift BY <1>5, <2>1
      <4>2. Before(completed, q[i + shift], q[j + shift]) BY <3>1, <3>2, <4>1 DEF MailInv, OrderInv
      <4> QED BY <3>1, <3>2, <4>2 DEF Hand
    <3>3. CASE j = Len(w) + 1 /\ q'[j] = m BY <3>1, <3>3 DEF Hand
    <3> QED BY <3>2, <3>3, <1>7
  <2>2. ASSUME NEW i \in 1 .. Len(delivered), NEW j \in 1 .. Len(q')
        PROVE  Before(completed', delivered[i], q'[j])
    <3>1. CASE j \in 1 .. Len(w) /\ q'[j] = q[j + shift] /\ j + shift \in 1 .. Len(q)
      <4>1. Before(completed, delivered[i], q[j + shift]) BY <3>1 DEF MailInv, OrderInv
      <4> QED BY <3>1, <4>1 DEF Hand
    <3>2. CASE j = Len(w) + 1 /\ q'[j] = m BY <3>2 DEF Hand
    <3> QED BY <3>1, <3>2, <1>7
  <2>3. \A i, j \in 1 .. Len(delivered) : i < j => Before(completed', delivered[i], delivered[j])
    BY DEF MailInv, OrderInv, Hand
  <2> QED BY <2>1, <2>2, <2>3 DEF OrderInv
<1>10. AckInv'
  <2>1. ASSUME NEW i \in 1 .. Len(q'), sent[q'[i]].expects PROVE q'[i] \in acked' \/ outbound_torn'
    <3>1. CASE i \in 1 .. Len(w) /\ q'[i] = q[i + shift] /\ i + shift \in 1 .. Len(q)
      <4>1. q[i + shift] \in acked \/ outbound_torn BY <3>1, <2>1 DEF MailInv, AckInv
      <4> QED BY <3>1, <4>1
    <3>2. CASE i = Len(w) + 1 /\ q'[i] = m BY <2>1, <3>2
    <3> QED BY <3>1, <3>2, <1>7
  <2> QED BY <2>1 DEF AckInv
<1>11. AnswerInv' BY DEF MailInv, AnswerInv
<1> QED BY <1>3, <1>8, <1>9, <1>10, <1>11 DEF MailInv

\* recv returns the message in hand, when nothing is queued.
LEMMA HandDelivered ==
  ASSUME TypeInv, MailInv, NEW m \in Nat, Hand(m), queued_messages = <<>>,
         UNCHANGED <<sent, answered, pending_replies, queued_messages, lost>>,
         delivered' = Append(delivered, m),
         Current' = {}, acked \subseteq acked', outbound_torn => outbound_torn'
  PROVE  MailInv' /\ delivered' \in Seq(Nat)
<1>1. /\ delivered' \in Seq(Nat) /\ Len(delivered') = Len(delivered) + 1
      /\ delivered'[Len(delivered) + 1] = m
      /\ \A i \in 1 .. Len(delivered) : delivered'[i] = delivered[i]
      /\ \A i \in 1 .. Len(delivered') : i \in 1 .. Len(delivered) \/ i = Len(delivered) + 1
      /\ Range(delivered') = Range(delivered) \cup {m}
  <2>1. delivered \in Seq(Nat) BY DEF TypeInv
  <2>2. delivered' \in Seq(Nat) /\ Longer(delivered', delivered, m) BY <2>1, Appended
  <2> QED BY <2>2 DEF Longer
<1>2. Len(delivered) \in Nat BY Elements DEF TypeInv
<1>3. PlaceInv'
  <2>1. Answered' = Answered BY DEF Answered
  <2>2. /\ Range(queued_messages)' = Range(queued_messages) /\ Range(completed)' = Range(completed')
        /\ Range(pending_replies)' = Range(pending_replies) /\ Range(delivered)' = Range(delivered')
    OBVIOUS
  <2>3. Split(Range(completed)', Answered', Range(delivered)', Range(pending_replies)',
              Range(queued_messages)', lost', Current')
    BY <2>1, <2>2, <1>1 DEF Split, Hand
  <2> QED BY <2>3 DEF PlaceInv, MailInv
<1>4. OrderInv'
  <2>1. ASSUME NEW i \in 1 .. Len(delivered'), NEW j \in 1 .. Len(delivered'), i < j
        PROVE  Before(completed', delivered'[i], delivered'[j])
    <3>1. i \in 1 .. Len(delivered) /\ delivered'[i] = delivered[i] BY <1>1, <1>2, <2>1
    <3>2. CASE j \in 1 .. Len(delivered)
      <4>1. Before(completed, delivered[i], delivered[j]) BY <2>1, <3>1, <3>2 DEF MailInv, OrderInv
      <4>2. delivered'[j] = delivered[j] BY <1>1, <3>2
      <4> QED BY <3>1, <4>1, <4>2 DEF Hand
    <3>3. CASE j \notin 1 .. Len(delivered)
      <4>1. j = Len(delivered) + 1 BY <1>1, <3>3
      <4> QED BY <3>1, <4>1, <1>1 DEF Hand
    <3> QED BY <3>2, <3>3
  <2>2. 1 .. Len(queued_messages') = {} BY Elements DEF TypeInv
  <2> QED BY <2>1, <2>2 DEF OrderInv
<1>5. AckInv' /\ AnswerInv' BY DEF MailInv, AckInv, AnswerInv
<1> QED BY <1>1, <1>3, <1>4, <1>5 DEF MailInv

\* recv returns the oldest queued message.
LEMMA QueueDelivered ==
  ASSUME TypeInv, ReadInv, MailInv, queued_messages # <<>>, pc # "ack",
         UNCHANGED <<completed, sent, answered, pending_replies, lost, acked, outbound_torn>>,
         queued_messages' = Tail(queued_messages),
         delivered' = Append(delivered, Head(queued_messages)), Current' = {}
  PROVE  MailInv' /\ delivered' \in Seq(Nat) /\ queued_messages' \in Seq(Nat)
<1> DEFINE q == queued_messages
           m == Head(q)
<1>1. /\ q \in Seq(Nat) /\ Len(q) >= 1 /\ m = q[1] /\ m \in Nat /\ q' \in Seq(Nat)
      /\ Len(q') = Len(q) - 1 /\ \A i \in 1 .. Len(q') : q'[i] = q[i + 1]
      /\ Range(q) = Range(q') \cup {m}
  <2>1. q \in Seq(Nat) BY DEF TypeInv
  <2> HIDE DEF q
  <2>2. q # <<>> /\ q' = Tail(q) BY DEF q
  <2>3. Head(q) \in Nat /\ q' \in Seq(Nat) /\ Shorter(q', q) BY <2>1, <2>2, Shortened
  <2> QED BY <2>1, <2>3 DEF Shorter, m
<1>2. Len(q) \in Nat /\ Len(q') \in Nat /\ Len(delivered) \in Nat /\ delivered \in Seq(Nat)
  BY Elements, <1>1 DEF TypeInv
<1>3. m \notin Range(q')
  <2>1. SUFFICES ASSUME In(q', m) PROVE FALSE BY <1>1, RangeIn
  <2>2. PICK i \in 1 .. Len(q') : q'[i] = m BY <2>1 DEF In
  <2>3. i + 1 \in 1 .. Len(q) /\ 1 \in 1 .. Len(q) /\ q[i + 1] = q[1] BY <1>1, <1>2, <2>2
  <2>4. i + 1 = 1 BY <2>3, QueueInj DEF Inj, MailInv
  <2> QED BY <2>2, <2>4, <1>2
<1>4. /\ delivered' \in Seq(Nat) /\ Len(delivered') = Len(delivered) + 1
      /\ delivered'[Len(delivered) + 1] = m
      /\ \A i \in 1 .. Len(delivered) : delivered'[i] = delivered[i]
      /\ \A i \in 1 .. Len(delivered') : i \in 1 .. Len(delivered) \/ i = Len(delivered) + 1
      /\ Range(delivered') = Range(delivered) \cup {m}
  <2>1. delivered' = Append(delivered, m) OBVIOUS
  <2> HIDE DEF m
  <2>2. m \in Nat /\ delivered \in Seq(Nat) BY <1>1, <1>2
  <2>3. delivered' \in Seq(Nat) /\ Longer(delivered', delivered, m) BY <2>1, <2>2, Appended
  <2> QED BY <2>3 DEF Longer
<1>6. Range(q) = Range(queued_messages) /\ Range(q)' = Range(queued_messages') /\ m = Head(queued_messages)
  OBVIOUS
<1>7. 1 \in 1 .. Len(q) /\ \A i \in 1 .. Len(q') : i + 1 \in 1 .. Len(q) /\ 1 < i + 1 BY <1>1, <1>2
<1> HIDE DEF m
<1>8. PlaceInv'
  <2>1. Answered' = Answered BY DEF Answered
  <2>2. /\ Range(completed)' = Range(completed) /\ Range(pending_replies)' = Range(pending_replies)
        /\ Range(delivered)' = Range(delivered')
    OBVIOUS
  <2>3. Current = {} BY DEF Current
  <2>4. Split(Range(completed)', Answered', Range(delivered)', Range(pending_replies)', Range(q'),
              lost', Current')
    <3>1. Split(Range(completed), Answered, Range(delivered), Range(pending_replies), Range(q), lost, {})
      BY <2>3 DEF MailInv, PlaceInv
    <3>2. /\ Range(q) = Range(q') \cup {m} /\ m \notin Range(q')
          /\ Range(delivered') = Range(delivered) \cup {m} /\ lost' = lost /\ Current' = {}
      BY <1>1, <1>3, <1>4
    <3> HIDE DEF q
    <3> QED BY <3>1, <3>2, <2>1, <2>2 DEF Split
  <2> QED BY <2>4 DEF PlaceInv, MailInv
<1>9. OrderInv'
  <2>1. ASSUME NEW i \in 1 .. Len(delivered'), NEW j \in 1 .. Len(delivered'), i < j
        PROVE  Before(completed, delivered'[i], delivered'[j])
    <3>1. i \in 1 .. Len(delivered) /\ delivered'[i] = delivered[i] BY <1>2, <1>4, <2>1
    <3>2. CASE j \in 1 .. Len(delivered)
      BY <2>1, <3>1, <3>2, <1>4 DEF MailInv, OrderInv
    <3>3. CASE j \notin 1 .. Len(delivered)
      <4>1. j = Len(delivered) + 1 BY <1>4, <3>3
      <4>2. Before(completed, delivered[i], q[1]) BY <3>1, <1>7 DEF MailInv, OrderInv
      <4> QED BY <3>1, <4>1, <4>2, <1>1, <1>4
    <3> QED BY <3>2, <3>3
  <2>2. ASSUME NEW i \in 1 .. Len(q'), NEW j \in 1 .. Len(q'), i < j
        PROVE  Before(completed, q'[i], q'[j])
    <3>1. i + 1 \in 1 .. Len(q) /\ j + 1 \in 1 .. Len(q) BY <1>7
    <3>2. i + 1 < j + 1 BY <2>2
    <3>3. Before(completed, q[i + 1], q[j + 1]) BY <3>1, <3>2 DEF MailInv, OrderInv
    <3> QED BY <3>3, <1>1
  <2>3. ASSUME NEW i \in 1 .. Len(delivered'), NEW j \in 1 .. Len(q')
        PROVE  Before(completed, delivered'[i], q'[j])
    <3>1. q'[j] = q[j + 1] /\ j + 1 \in 1 .. Len(q) /\ 1 < j + 1 BY <1>1, <1>7
    <3>2. CASE i \in 1 .. Len(delivered)
      <4>1. Before(completed, delivered[i], q[j + 1]) BY <3>1, <3>2 DEF MailInv, OrderInv
      <4> QED BY <3>1, <3>2, <4>1, <1>4
    <3>3. CASE i \notin 1 .. Len(delivered)
      <4>1. i = Len(delivered) + 1 BY <1>4, <3>3
      <4>2. Before(completed, q[1], q[j + 1]) BY <3>1, <1>7 DEF MailInv, OrderInv
      <4> QED BY <3>1, <4>1, <4>2, <1>1, <1>4
    <3> QED BY <3>2, <3>3
  <2> QED BY <2>1, <2>2, <2>3 DEF OrderInv
<1>10. AckInv'
  <2>1. \A i \in 1 .. Len(q') : sent[q'[i]].expects => q'[i] \in acked \/ outbound_torn
    BY <1>1, <1>7 DEF MailInv, AckInv
  <2> QED BY <2>1 DEF AckInv
<1>11. AnswerInv' BY DEF MailInv, AnswerInv
<1> QED BY <1>1, <1>4, <1>8, <1>9, <1>10, <1>11 DEF MailInv

-----------------------------------------------------------------------------
\* What the operation does with a complete message.

OpType == [kind : {"none", "call", "async", "recv"}, id : Nat]

\* The operation is at one of these awaits, or over.
Stands(pcs) ==
    /\ ControlInv' /\ pc' \in pcs /\ op' \in OpType /\ cur' \in FrameType
    /\ queued_messages' \in Seq(Nat) /\ delivered' \in Seq(Nat)

\* An operation that is over.
LEMMA DoneStands ==
  ASSUME TypeInv, Done, UNCHANGED <<queued_messages, delivered>>
  PROVE  Stands({"idle"}) /\ Current' = {}
BY DEF Done, NoOp, NoFrame, Stands, ControlInv, OpType, FrameType, Current, TypeInv

\* An operation that has handed a message to its caller.
LEMMA DeliverStands ==
  ASSUME NEW m \in Nat, Deliver(m), queued_messages' \in Seq(Nat), delivered' \in Seq(Nat)
  PROVE  Stands({"idle", "ack"}) /\ Current' = {}
<1>1. CASE pc' = "ack" /\ cur' = First(m) /\ op' = [kind |-> "recv", id |-> 0]
  <2>1. cur' \in FrameType /\ op' \in OpType /\ op'.kind = "recv"
    BY <1>1 DEF First, FrameType, OpType
  <2> QED BY <1>1, <2>1 DEF Stands, ControlInv, Current
<1>2. CASE Done
  BY <1>2 DEF Done, NoOp, NoFrame, Stands, ControlInv, OpType, FrameType, Current
<1> QED BY <1>1, <1>2 DEF Deliver, First

\* queue_message
LEMMA QueueMail ==
  ASSUME TypeInv, ReadInv, MailInv, NEW m \in Nat, Hand(m), NEW u, QueueMessage(m, u),
         op.kind = "call", UNCHANGED <<sent, answered, delivered, pending_replies>>,
         sent[m].expects => m \in acked' \/ outbound_torn',
         acked \subseteq acked', outbound_torn => outbound_torn'
  PROVE  MailInv' /\ Stands({"idle", "header"})
<1>1. CASE Done /\ lost' = lost \cup {m} /\ UNCHANGED queued_messages
  <2>1. Stands({"idle"}) /\ Current' = {} BY <1>1, DoneStands
  <2>2. MailInv' BY <1>1, <2>1, HandLost
  <2> QED BY <2>1, <2>2 DEF Stands
<1>2. CASE /\ pc' = "header" /\ cur' = NoFrame /\ op' = op
           /\ queued_messages' = Append(WithRoom, m)
           /\ lost' = lost \cup IF QueueFull THEN {Head(queued_messages)} ELSE {}
  <2>1. Current' = {} BY <1>2 DEF Current
  <2>2. MailInv' /\ queued_messages' \in Seq(Nat) BY <1>2, <2>1, HandQueued
  <2>3. Stands({"header"})
    BY <1>2, <2>2 DEF Stands, ControlInv, OpType, FrameType, NoFrame, TypeInv
  <2> QED BY <2>2, <2>3 DEF Stands
<1> QED BY <1>1, <1>2 DEF QueueMessage

\* buffer_reply
LEMMA ParkMail ==
  ASSUME TypeInv, ControlInv, MailInv, NEW m, Hand(m), NEW u, BufferReply(m, u),
         pc \in {"header", "body"}, UNCHANGED <<sent, outbound_torn>>
  PROVE  MailInv' /\ Stands({"idle", "header"})
<1>1. /\ UNCHANGED <<queued_messages, answered, delivered, acked>>
      /\ \/ Done /\ lost' = lost \cup {m} /\ UNCHANGED pending_replies
         \/ /\ pc' = "header" /\ cur' = NoFrame /\ op' = op
            /\ pending_replies' = Insert(pending_replies, sent[m].id, m)
            /\ lost' = lost \cup IF sent[m].id \in DOMAIN pending_replies
                                 THEN {pending_replies[sent[m].id]} ELSE {}
  BY DEF BufferReply
<1>2. CASE Done /\ lost' = lost \cup {m} /\ UNCHANGED pending_replies
  <2>1. Stands({"idle"}) /\ Current' = {} BY <1>1, <1>2, DoneStands
  <2>2. MailInv' BY <1>1, <1>2, <2>1, HandLost
  <2> QED BY <2>1, <2>2 DEF Stands
<1>3. CASE /\ pc' = "header" /\ cur' = NoFrame /\ op' = op
           /\ pending_replies' = Insert(pending_replies, sent[m].id, m)
           /\ lost' = lost \cup IF sent[m].id \in DOMAIN pending_replies
                                THEN {pending_replies[sent[m].id]} ELSE {}
  <2>1. Current' = {} BY <1>3 DEF Current
  <2>2. MailInv' BY <1>1, <1>3, <2>1, HandParked
  <2>3. Stands({"header"})
    BY <1>1, <1>3 DEF Stands, ControlInv, OpType, FrameType, NoFrame, TypeInv
  <2> QED BY <2>2, <2>3 DEF Stands
<1> QED BY <1>1, <1>2, <1>3

\* recv_from_stream returns a message that had not been returned before.
LEMMA TakesMail ==
  ASSUME TypeInv, ControlInv, ReadInv, MailInv, NEW m \in Nat, NEW u, Takes(m, u),
         ~In(completed, m), pc \in {"header", "body"}, UNCHANGED <<sent, outbound_torn>>
  PROVE  MailInv' /\ Stands({"idle", "header", "ack"}) /\ completed' = Append(completed, m)
<1>1. completed' = Append(completed, m) BY DEF Takes
<1>2. Hand(m) BY <1>1, TakenInHand
<1>3. ASSUME Stands({"idle"}) \/ Stands({"header"}) \/ Stands({"ack"}) \/ Stands({"idle", "header"})
             \/ Stands({"idle", "ack"})
      PROVE  Stands({"idle", "header", "ack"})
  BY <1>3 DEF Stands
<1>4. CASE op.kind = "call" /\ CallTakes(m, u)
  <2>1. CASE /\ IsReply(m) /\ sent[m].id = op.id /\ Done
             /\ answered' = answered \cup {[id |-> op.id, m |-> m]}
             /\ UNCHANGED <<pending_replies, queued_messages, delivered, lost, acked>>
    <3>1. Stands({"idle"}) /\ Current' = {} BY <2>1, DoneStands
    <3>2. sent[m].conv > 0 BY <2>1 DEF IsReply
    <3>3. MailInv' BY <1>2, <2>1, <3>1, <3>2, HandAnswered
    <3> QED BY <1>1, <1>3, <3>1, <3>3
  <2>2. CASE BufferReply(m, u) BY <1>1, <1>2, <1>3, <2>2, ParkMail
  <2>3. CASE /\ pc' = "ack" /\ cur' = First(m)
             /\ UNCHANGED <<op, pending_replies, queued_messages, answered, delivered, lost, acked>>
    <3>1. Current' = {m} BY <1>4, <2>3 DEF Current, First
    <3>2. MailInv' BY <1>2, <2>3, <3>1, HandHeld
    <3>3. Stands({"ack"})
      BY <1>4, <2>3 DEF Stands, ControlInv, OpType, FrameType, First, TypeInv
    <3> QED BY <1>1, <1>3, <3>2, <3>3
  <2>4. CASE /\ ~AcksFirst(m) /\ QueueMessage(m, u)
             /\ UNCHANGED <<pending_replies, answered, delivered, acked>>
    BY <1>1, <1>2, <1>3, <1>4, <2>4, QueueMail DEF AcksFirst
  <2> QED BY <1>4, <2>1, <2>2, <2>3, <2>4 DEF CallTakes, First
<1>5. CASE op.kind = "recv" /\ RecvTakes(m, u)
  <2>1. CASE BufferReply(m, u) BY <1>1, <1>2, <1>3, <2>1, ParkMail
  <2>2. CASE /\ Deliver(m)
             /\ UNCHANGED <<outstanding_reply_ids, pending_replies, queued_messages,
                            answered, lost, acked>>
    <3>1. queued_messages = <<>> BY <1>5 DEF ControlInv
    <3>2. Current' = {} BY <2>2 DEF Deliver, Done, NoOp, Current
    <3>3. delivered' = Append(delivered, m) BY <2>2 DEF Deliver
    <3>4. MailInv' /\ delivered' \in Seq(Nat) BY <1>2, <2>2, <3>1, <3>2, <3>3, HandDelivered
    <3>5. queued_messages' \in Seq(Nat) BY <2>2 DEF TypeInv
    <3>6. Stands({"idle", "ack"}) BY <2>2, <3>4, <3>5, DeliverStands
    <3> QED BY <1>1, <1>3, <3>4, <3>6
  <2> QED BY <1>5, <2>1, <2>2 DEF RecvTakes
<1> QED BY <1>4, <1>5 DEF Takes

-----------------------------------------------------------------------------
\* What is on the wire and in the accumulators.

\* The wire without its first frame.
LEMMA WireShrinks ==
  ASSUME TypeInv, FrameInv, wire # <<>>, wire' = Tail(wire), UNCHANGED <<sent, todo>>
  PROVE  /\ FrameInv' /\ wire' \in Seq(FrameType)
         /\ OfSent(Frame) /\ Frame \in FrameType
         /\ Frame.idx = 0 => ~In(wire', Frame)
         /\ \A f : In(wire', f) => In(wire, f)
<1>1. /\ wire \in Seq(FrameType) /\ Len(wire) >= 1 /\ Frame = wire[1] /\ Frame \in FrameType
      /\ wire' \in Seq(FrameType) /\ Len(wire') = Len(wire) - 1
      /\ \A i \in 1 .. Len(wire') : wire'[i] = wire[i + 1]
      /\ \A f : In(wire', f) => In(wire, f)
  <2>1. wire \in Seq(FrameType) BY DEF TypeInv
  <2>2. Head(wire) \in FrameType /\ wire' \in Seq(FrameType) /\ Shorter(wire', wire) BY <2>1, Shortened
  <2> QED BY <2>1, <2>2 DEF Frame, Shorter
<1>2. Len(wire) \in Nat BY <1>1, Elements
<1>3. 1 \in 1 .. Len(wire) /\ \A i \in 1 .. Len(wire') : i + 1 \in 1 .. Len(wire) BY <1>1, <1>2
<1>4. OfSent(Frame) BY <1>1, <1>3 DEF FrameInv
<1>5. Frame.idx = 0 => ~In(wire', Frame)
  <2>1. SUFFICES ASSUME Frame.idx = 0, NEW i \in 1 .. Len(wire'), wire'[i] = Frame PROVE FALSE
    BY DEF In
  <2>2. wire[i + 1] = wire[1] /\ i + 1 \in 1 .. Len(wire) BY <1>1, <1>3, <2>1
  <2>3. i + 1 = 1 BY <1>1, <1>3, <2>1, <2>2 DEF FrameInv
  <2> QED BY <2>3, <1>1, <1>2
<1>6. FrameInv'
  <2>1. \A i \in 1 .. Len(wire') : OfSent(wire'[i]) BY <1>1, <1>3 DEF FrameInv
  <2>2. ASSUME NEW i \in 1 .. Len(wire'), NEW j \in 1 .. Len(wire'), wire'[i].idx = 0, wire'[i] = wire'[j]
        PROVE  i = j
    <3>1. i + 1 \in 1 .. Len(wire) /\ j + 1 \in 1 .. Len(wire) BY <1>3
    <3>2. wire[i + 1].idx = 0 /\ wire[i + 1] = wire[j + 1] BY <1>1, <2>2
    <3>3. i + 1 = j + 1 BY <3>1, <3>2 DEF FrameInv
    <3> QED BY <3>3, <1>1, <1>2
  <2>3. \A f : OfSent(f)' <=> OfSent(f) BY DEF OfSent
  <2> QED BY <2>1, <2>2, <2>3 DEF FrameInv, OfSent
<1> QED BY <1>1, <1>4, <1>5, <1>6

\* The accumulators afterwards are some of those before.
Fewer == \A id \in DOMAIN fragments' : id \in DOMAIN fragments /\ fragments'[id] = fragments[id]

\* No message that was begun begins again.
BegunKept == \A m \in 1 .. Len(sent) : In(wire', First(m)) => In(wire, First(m))

\* A message that was begun stays so.
LEMMA Stays ==
  ASSUME TypeInv, Grows, BegunKept, NEW m, Begun(m)
  PROVE  Begun(m)' /\ m \in 1 .. Len(sent) /\ sent'[m] = sent[m]
<1>1. Len(sent) \in Nat BY Elements DEF TypeInv
<1> QED BY <1>1 DEF Begun, Grows, BegunKept

\* An accumulator that is left alone and whose message has not become complete.
LEMMA AccKept ==
  ASSUME TypeInv, ReadInv, Grows, BegunKept, NEW id \in DOMAIN fragments,
         fragments'[id] = fragments[id], ~In(completed', fragments[id].m)
  PROVE  AccInv(id)'
<1>1. AccInv(id) BY DEF ReadInv
<1>2. Begun(fragments[id].m)' /\ sent'[fragments[id].m] = sent[fragments[id].m]
  <2> DEFINE m == fragments[id].m
  <2>1. Begun(m) BY <1>1 DEF AccInv, Unfinished
  <2> HIDE DEF m
  <2>2. PICK n : n = m OBVIOUS
  <2>3. Begun(n)' /\ sent'[n] = sent[n] BY <2>1, <2>2, Stays
  <2>4. n = fragments'[id].m BY <2>2 DEF m
  <2>5. Begun(fragments[id].m)' BY <2>3, <2>4 DEF Begun
  <2> QED BY <2>2, <2>3, <2>5 DEF m
<1> QED BY <1>1, <1>2 DEF AccInv, Unfinished, Begun

\* No message becomes complete.
LEMMA ReadKept ==
  ASSUME TypeInv, ReadInv, Grows, BegunKept, UNCHANGED completed,
         \A id \in DOMAIN fragments' :
            \/ id \in DOMAIN fragments /\ fragments'[id] = fragments[id]
            \/ AccInv(id)',
         pc' = "body" => BodyInv'
  PROVE  ReadInv'
<1>1. ASSUME NEW i \in 1 .. Len(completed') PROVE Begun(completed[i])'
  <2>1. Begun(completed[i]) BY DEF ReadInv
  <2>2. PICK n : n = completed[i] OBVIOUS
  <2>3. Begun(n)' BY <2>1, <2>2, Stays
  <2> QED BY <2>2, <2>3 DEF Begun
<1>2. Inj(completed)' BY DEF ReadInv, Inj
<1>3. ASSUME NEW id \in DOMAIN fragments, fragments'[id] = fragments[id] PROVE AccInv(id)'
  <2>1. ~In(completed', fragments[id].m) BY DEF ReadInv, AccInv, Unfinished
  <2> QED BY <1>3, <2>1, AccKept
<1> QED BY <1>1, <1>2, <1>3 DEF ReadInv

\* A body is awaited, as before.
LEMMA BodyKept ==
  ASSUME TypeInv, ReadInv, Grows, BegunKept, pc = "body", UNCHANGED <<cur, fragments, completed>>
  PROVE  BodyInv' /\ cur.m \in 1 .. Len(sent)
<1>1. BodyInv BY DEF ReadInv
<1>2. CASE sent[cur.m].cnt = 1
  <2>1. Unfinished(cur.m) BY <1>1, <1>2 DEF BodyInv
  <2>2. PICK n : n = cur.m OBVIOUS
  <2>3. Begun(n)' /\ n \in 1 .. Len(sent) /\ sent'[n] = sent[n] BY <2>1, <2>2, Stays DEF Unfinished
  <2>4. Unfinished(cur.m)' BY <2>1, <2>2, <2>3 DEF Unfinished, Begun
  <2> QED BY <1>2, <2>2, <2>3, <2>4 DEF BodyInv
<1>3. CASE sent[cur.m].cnt # 1
  <2>1. sent[cur.m].id \in DOMAIN fragments /\ fragments[sent[cur.m].id].m = cur.m
    BY <1>1, <1>3 DEF BodyInv
  <2>2. Begun(cur.m) BY <2>1 DEF ReadInv, AccInv, Unfinished
  <2>3. PICK n : n = cur.m OBVIOUS
  <2>4. n \in 1 .. Len(sent) /\ sent'[n] = sent[n] BY <2>2, <2>3, Stays
  <2> QED BY <1>3, <2>1, <2>3, <2>4 DEF BodyInv
<1> QED BY <1>2, <1>3

\* A message becomes complete, and its accumulator is gone.
LEMMA ReadDone ==
  ASSUME TypeInv, ReadInv, Grows, BegunKept, NEW m \in 1 .. Len(sent), ~In(wire', First(m)),
         ~In(completed, m), completed' = Append(completed, m),
         Fewer, \A id \in DOMAIN fragments' : fragments[id].m # m,
         pc' # "body"
  PROVE  ReadInv' /\ completed' \in Seq(Nat)
<1>0. Len(completed) \in Nat /\ completed \in Seq(Nat) /\ Len(sent) \in Nat BY Elements DEF TypeInv
<1>1. /\ completed' \in Seq(Nat) /\ Len(completed') = Len(completed) + 1
      /\ completed'[Len(completed) + 1] = m
      /\ \A i \in 1 .. Len(completed) : completed'[i] = completed[i]
      /\ \A x : In(completed', x) <=> In(completed, x) \/ x = m
  <2>1. m \in Nat BY <1>0
  <2>2. completed' \in Seq(Nat) /\ Longer(completed', completed, m) BY <1>0, <2>1, Appended
  <2> QED BY <2>2 DEF Longer
<1>2. \A i \in 1 .. Len(completed') : i \in 1 .. Len(completed) \/ i = Len(completed) + 1
  BY <1>0, <1>1
<1>3. ASSUME NEW i \in 1 .. Len(completed') PROVE Begun(completed[i])'
  <2>1. PICK n : n = completed'[i] OBVIOUS
  <2>2. Begun(n)'
    <3>1. CASE i \in 1 .. Len(completed)
      <4>1. Begun(n) BY <2>1, <3>1, <1>1 DEF ReadInv
      <4> QED BY <4>1, Stays
    <3>2. CASE i = Len(completed) + 1
      <4>1. n = m BY <2>1, <3>2, <1>1
      <4>2. m \in 1 .. Len(sent') BY <1>0 DEF Grows
      <4> QED BY <4>1, <4>2 DEF Begun
    <3> QED BY <1>2, <3>1, <3>2
  <2> QED BY <2>1, <2>2 DEF Begun
<1>4. Inj(completed)'
  <2> SUFFICES ASSUME NEW i \in 1 .. Len(completed'), NEW j \in 1 .. Len(completed'),
                      completed'[i] = completed'[j]
               PROVE  i = j
    BY DEF Inj
  <2>1. CASE i \in 1 .. Len(completed) /\ j \in 1 .. Len(completed)
    BY <2>1, <1>1 DEF ReadInv, Inj
  <2>2. \A k \in 1 .. Len(completed) : completed[k] # m BY DEF In
  <2> QED BY <2>1, <2>2, <1>1, <1>2
<1>5. ASSUME NEW id \in DOMAIN fragments' PROVE AccInv(id)'
  <2>1. id \in DOMAIN fragments /\ fragments'[id] = fragments[id] /\ fragments[id].m # m BY DEF Fewer
  <2>2. ~In(completed, fragments[id].m) BY <2>1 DEF ReadInv, AccInv, Unfinished
  <2>3. ~In(completed', fragments[id].m) BY <2>1, <2>2, <1>1
  <2> QED BY <2>1, <2>3, AccKept
<1> QED BY <1>1, <1>3, <1>4, <1>5 DEF ReadInv

-----------------------------------------------------------------------------
\* Reading one header or one body.

Accumulators == \A id \in DOMAIN fragments : fragments[id] \in Accumulator

\* The parts of the invariant that a reader disturbs.
ReaderInv ==
    /\ MailInv' /\ ReadInv' /\ Stands({"idle", "header", "body", "ack"})
    /\ completed' \in Seq(Nat) /\ Accumulators'

\* What a reader finds.
Reads ==
    /\ TypeInv /\ ControlInv /\ ReadInv /\ MailInv
    /\ pc \in {"header", "body"} /\ UNCHANGED <<sent, outbound_torn>> /\ BegunKept

\* The device's messages are the same afterwards.
LEMMA SentKept ==
  ASSUME TypeInv, UNCHANGED sent
  PROVE  Grows
<1>1. Len(sent) \in Nat BY Elements DEF TypeInv
<1> QED BY <1>1 DEF Grows

\* recv_from_stream returns an error.
LEMMA FailsReader ==
  ASSUME Reads, NEW u, ReadFails(u)
  PROVE  ReaderInv
<1>1. Stands({"idle"}) /\ Current' = {} BY DoneStands DEF ReadFails, Reads
<1>2. MailInv'
  <2>1. Current = {} BY DEF Current, Reads
  <2> QED BY <1>1, <2>1, MailKept, SentKept DEF ReadFails, Reads
<1>3. DOMAIN fragments' = {} BY DEF ReadFails, NoPending
<1>4. ReadInv'
  <2>1. pc' # "body" BY <1>1 DEF Stands
  <2> QED BY <1>3, <2>1, ReadKept, SentKept DEF ReadFails, Reads
<1>5. completed' \in Seq(Nat) BY DEF ReadFails, Reads, TypeInv
<1> QED BY <1>1, <1>2, <1>3, <1>4, <1>5 DEF ReaderInv, Stands, Accumulators

\* recv_from_stream returns m, which is in no accumulator afterwards.
LEMMA TakesReader ==
  ASSUME Reads, NEW m, NEW u, Takes(m, u), m \in 1 .. Len(sent), ~In(completed, m),
         ~In(wire', First(m)), Fewer, \A id \in DOMAIN fragments' : fragments[id].m # m
  PROVE  ReaderInv
<1>1. Len(sent) \in Nat BY Elements DEF TypeInv, Reads
<1>2. m \in Nat BY <1>1
<1>3. MailInv' /\ Stands({"idle", "header", "ack"}) /\ completed' = Append(completed, m)
  BY <1>2, TakesMail DEF Reads
<1>4. ReadInv' /\ completed' \in Seq(Nat)
  <2>1. pc' # "body" BY <1>3 DEF Stands
  <2> QED BY <1>3, <2>1, ReadDone, SentKept DEF Reads
<1>5. Accumulators' BY DEF Fewer, Accumulators, Reads, TypeInv
<1> QED BY <1>3, <1>4, <1>5 DEF ReaderInv, Stands

\* The operation goes on reading: its tables and the messages are left alone.
LEMMA ReadsOn ==
  ASSUME Reads, pc' \in {"header", "body"}, op' = op, cur' \in FrameType, Accumulators',
         UNCHANGED <<pending_replies, queued_messages, completed, answered, delivered, lost, acked>>,
         \A id \in DOMAIN fragments' :
            \/ id \in DOMAIN fragments /\ fragments'[id] = fragments[id]
            \/ AccInv(id)',
         pc' = "body" => BodyInv'
  PROVE  ReaderInv
<1>1. Stands({"header", "body"}) BY DEF Stands, ControlInv, OpType, TypeInv, Reads
<1>2. Current' = {} /\ Current = {} BY DEF Current, Reads
<1>3. MailInv' BY <1>2, MailKept, SentKept DEF Reads
<1>4. ReadInv' BY ReadKept, SentKept DEF Reads
<1>5. completed' \in Seq(Nat) BY DEF Reads, TypeInv
<1> QED BY <1>1, <1>3, <1>4, <1>5 DEF ReaderInv, Stands

\* A message that is whole in one frame.
LEMMA SingleReader ==
  ASSUME Reads, NEW m, NEW u, Decode(m, u), m \in 1 .. Len(sent), ~In(completed, m),
         ~In(wire', First(m)), sent[m].cnt = 1
  PROVE  ReaderInv
<1>1. CASE ReadFails(u) BY <1>1, FailsReader
<1>2. CASE Takes(m, u) /\ UNCHANGED fragments
  <2>1. Fewer BY <1>2 DEF Fewer
  <2>2. \A id \in DOMAIN fragments' : fragments[id].m # m
    BY <1>2 DEF Reads, ReadInv, AccInv
  <2> QED BY <1>2, <2>1, <2>2, TakesReader
<1> QED BY <1>1, <1>2 DEF Decode

\* A header.
LEMMA HeaderReader ==
  ASSUME TypeInv, ControlInv, NumberInv, FrameInv, ReadInv, MailInv, ReadHeader
  PROVE  ReaderInv /\ FrameInv' /\ wire' \in Seq(FrameType)
<1>0. PICK m : m = Frame.m OBVIOUS
<1>1. pc = "header" /\ wire # <<>> /\ wire' = Tail(wire) /\ UNCHANGED <<sent, todo, outbound_torn>>
  BY DEF ReadHeader, AtHeader, device
<1>2. /\ FrameInv' /\ wire' \in Seq(FrameType) /\ OfSent(Frame) /\ Frame \in FrameType
      /\ Frame.idx = 0 => ~In(wire', Frame)
      /\ \A f : In(wire', f) => In(wire, f)
  BY <1>1, WireShrinks
<1> SUFFICES ReaderInv BY <1>2
<1>3. Reads BY <1>1, <1>2 DEF Reads, BegunKept
<1>4. m \in 1 .. Len(sent) /\ sent[m] \in Msg /\ Frame.idx \in Nat /\ Frame.idx < sent[m].cnt
      /\ sent[m] = Arriving
  <2>1. sent \in Seq(Msg) BY DEF TypeInv
  <2>2. m \in 1 .. Len(sent) /\ Frame.idx < sent[m].cnt BY <1>0, <1>2 DEF OfSent
  <2>3. Frame.idx \in Nat BY <1>2 DEF FrameType
  <2>4. sent[m] \in Msg BY <2>1, <2>2
  <2> QED BY <1>0, <2>2, <2>3, <2>4 DEF Arriving
<1>5. sent[m].cnt \in Nat \ {0} /\ sent[m].conv \in {0, 1} BY <1>4 DEF Msg
<1>6. Frame.idx = 0 => Frame = First(m) /\ ~In(wire', First(m)) /\ In(wire, First(m))
  <2>1. SUFFICES ASSUME Frame.idx = 0 PROVE Frame = First(m) /\ In(wire, Frame)
    BY <1>0, <1>2
  <2>2. Frame = First(m) BY <1>0, <1>2, <2>1 DEF First, FrameType
  <2>3. wire \in Seq(FrameType) BY DEF TypeInv
  <2>4. Shorter(wire', wire) BY <1>1, <2>3, Shortened
  <2>5. In(wire, Frame) BY <2>4 DEF Shorter, Frame
  <2> QED BY <2>2, <2>5
<1>7. Frame.idx = 0 => ~In(completed, m)
  BY <1>6 DEF In, ReadInv, Begun
<1>8. ASSUME Refuse PROVE ReaderInv BY <1>3, <1>8, FailsReader DEF Refuse
<1>9. ASSUME AwaitBody, BodyInv' PROVE ReaderInv
  <2>1. pc' = "body" /\ cur' = Frame /\ op' = op /\ UNCHANGED fragments BY <1>9 DEF AwaitBody
  <2>2. Accumulators' BY <2>1 DEF Accumulators, TypeInv
  <2> QED BY <1>2, <1>3, <1>9, <2>1, <2>2, ReadsOn DEF AwaitBody
<1>10. CASE ReadHeaderEmpty
  <2>1. Frame.idx = 0 BY <1>4, <1>5, <1>10 DEF ReadHeaderEmpty
  <2>2. Decode(m, used) /\ sent[m].cnt = 1 BY <1>0, <1>4, <1>10 DEF ReadHeaderEmpty
  <2> QED BY <1>3, <1>4, <1>6, <1>7, <2>1, <2>2, SingleReader
<1>11. CASE ReadHeaderSingle
  <2>1. Frame.idx = 0 /\ sent[m].cnt = 1 BY <1>4, <1>5, <1>11 DEF ReadHeaderSingle
  <2>2. CASE AwaitBody
    <3>1. cur' = Frame /\ UNCHANGED completed BY <2>2 DEF AwaitBody
    <3>2. cur'.m = m /\ sent'[cur'.m].cnt = 1 BY <1>0, <1>1, <2>1, <3>1
    <3>3. Unfinished(cur.m)' BY <1>1, <1>4, <1>6, <1>7, <2>1, <3>1, <3>2 DEF Unfinished, Begun
    <3>4. BodyInv' BY <3>2, <3>3 DEF BodyInv
    <3> QED BY <1>9, <2>2, <3>4
  <2> QED BY <1>8, <1>11, <2>2 DEF ReadHeaderSingle
<1>12. CASE ReadHeaderFirst
  <2>1. Frame.idx = 0 /\ sent[m].cnt > 1 BY <1>4, <1>12 DEF ReadHeaderFirst
  <2>2. CASE /\ fragments' = Insert(fragments, Arriving.id, [m |-> Frame.m, parts |-> {}])
             /\ UNCHANGED <<call, pending_replies, queued_messages,
                            completed, answered, delivered, lost, acked>>
    <3> DEFINE new == [m |-> m, parts |-> {}]
    <3>0. PICK k : k = sent[m].id OBVIOUS
    <3>1. fragments' = Insert(fragments, k, new) BY <1>0, <1>4, <2>2, <3>0
    <3>2. new \in Accumulator /\ new.m = m /\ new.parts = {}
      <4>1. m \in Nat BY <1>0, <1>2 DEF FrameType
      <4> QED BY <4>1 DEF Accumulator
    <3> HIDE DEF new
    <3>3. /\ DOMAIN fragments' = DOMAIN fragments \cup {k} /\ fragments'[k] = new
          /\ \A x \in DOMAIN fragments : x # k => fragments'[x] = fragments[x]
      BY <3>1 DEF Insert
    <3>4. AccInv(k)'
      <4>1. Unfinished(m)' BY <1>1, <1>4, <1>6, <1>7, <2>1, <2>2 DEF Unfinished, Begun
      <4>2. sent'[m].id = k /\ sent'[m].cnt > 1 BY <1>1, <2>1, <3>0
      <4>3. fragments'[k].m = m /\ fragments'[k].parts = {} BY <3>2, <3>3
      <4>4. Unfinished(fragments[k].m)' BY <4>1, <4>3 DEF Unfinished, Begun
      <4> QED BY <4>2, <4>3, <4>4 DEF AccInv
    <3>5. Accumulators' BY <3>2, <3>3 DEF Accumulators, TypeInv
    <3>6. pc' = "header" /\ op' = op /\ cur' \in FrameType BY <1>1, <2>2 DEF call, TypeInv
    <3>7. \A x \in DOMAIN fragments' : \/ x \in DOMAIN fragments /\ fragments'[x] = fragments[x]
                                       \/ AccInv(x)'
      BY <3>3, <3>4
    <3> QED BY <1>3, <2>2, <3>5, <3>6, <3>7, ReadsOn
  <2> QED BY <1>8, <1>12, <2>2 DEF ReadHeaderFirst
<1>13. CASE ReadHeaderPart
  <2>1. sent[m].cnt > 1 BY <1>4, <1>13 DEF ReadHeaderPart
  <2>2. CASE ~PartRefused /\ AwaitBody
    <3> DEFINE k == sent[m].id
               n == fragments[k].m
    <3>1. k \in DOMAIN fragments /\ SameMessage(sent[m], sent[n]) BY <1>4, <2>2 DEF PartRefused
    <3>2. n \in 1 .. Len(sent) /\ sent[n].id = k
      BY <3>1 DEF ReadInv, AccInv, Unfinished, Begun
    <3>3. n = m
      <4>1. sent[m].conv = sent[n].conv BY <3>1 DEF SameMessage
      <4> QED BY <1>4, <3>2, <4>1 DEF NumberInv
    <3>4. cur' = Frame /\ UNCHANGED fragments BY <2>2 DEF AwaitBody
    <3>5. BodyInv' BY <1>0, <1>1, <1>5, <2>1, <3>1, <3>3, <3>4 DEF BodyInv
    <3> QED BY <1>9, <2>2, <3>5
  <2> QED BY <1>8, <1>13, <2>2 DEF ReadHeaderPart
<1> QED BY <1>10, <1>11, <1>12, <1>13 DEF ReadHeader

\* A body.
LEMMA BodyReader ==
  ASSUME TypeInv, ControlInv, FrameInv, ReadInv, MailInv, ReadBody
  PROVE  ReaderInv
<1>1. pc = "body" /\ UNCHANGED <<sent, wire, outbound_torn>> BY DEF ReadBody, device, transport
<1>2. Reads BY <1>1 DEF Reads, BegunKept
<1>3. BodyInv BY <1>1 DEF ReadInv
<1>4. CASE ReadBodySingle
  <2>1. sent[cur.m].cnt = 1 /\ Decode(cur.m, used - FrameLen(cur)) BY <1>4 DEF ReadBodySingle
  <2>2. Unfinished(cur.m) BY <1>3, <2>1 DEF BodyInv
  <2> QED BY <1>1, <1>2, <2>1, <2>2, SingleReader DEF Unfinished, Begun
<1>5. CASE ReadBodyPart
  <2>0. PICK id : id = sent[cur.m].id OBVIOUS
  <2> DEFINE acc == [fragments[id] EXCEPT !.parts = @ \cup {cur}]
  <2>1. sent[cur.m].cnt > 1 BY <1>5 DEF ReadBodyPart
  <2>2. id \in DOMAIN fragments /\ fragments[id].m = cur.m BY <1>3, <2>0, <2>1 DEF BodyInv
  <2>3. AccInv(id) /\ fragments[id] \in Accumulator BY <2>2 DEF ReadInv, TypeInv
  <2>4. acc \in Accumulator /\ acc.m = cur.m /\ acc.parts = fragments[id].parts \cup {cur}
    <3>1. cur \in FrameType BY DEF TypeInv
    <3> QED BY <2>2, <2>3, <3>1 DEF Accumulator
  <2>5. /\ cur.m \in 1 .. Len(sent) /\ ~In(wire, First(cur.m)) /\ ~In(completed, cur.m)
    BY <2>2, <2>3 DEF AccInv, Unfinished, Begun
  <2>6. CASE Reassemble(acc, id)
    <3>1. CASE ReadFails(used - 1) BY <1>2, <3>1, FailsReader
    <3>2. CASE /\ Takes(acc.m, used - sent[acc.m].len)
               /\ fragments' = RestrictDomain(fragments, LAMBDA i : i # id)
      <4>1. DOMAIN fragments' = DOMAIN fragments \ {id} /\ \A x \in DOMAIN fragments' : fragments'[x] = fragments[x]
        BY <3>2 DEF RestrictDomain, Restrict
      <4>2. Fewer BY <4>1 DEF Fewer
      <4>3. ASSUME NEW x \in DOMAIN fragments' PROVE fragments[x].m # acc.m
        <5>1. sent[fragments[x].m].id = x BY <4>1 DEF ReadInv, AccInv
        <5>2. acc.m = cur.m /\ x # id BY <2>4, <4>1
        <5> HIDE DEF acc
        <5> QED BY <2>0, <5>1, <5>2
      <4>4. acc.m = cur.m BY <2>4
      <4> HIDE DEF acc
      <4> QED BY <1>1, <1>2, <2>5, <3>2, <4>2, <4>3, <4>4, TakesReader
    <3> QED BY <2>6, <3>1, <3>2 DEF Reassemble
  <2>7. CASE /\ fragments' = [fragments EXCEPT ![id] = acc]
             /\ pc' = "header" /\ cur' = NoFrame
             /\ UNCHANGED <<op, pending_replies, queued_messages,
                            completed, answered, delivered, lost, acked>>
    <3> HIDE DEF acc
    <3>1. /\ DOMAIN fragments' = DOMAIN fragments /\ fragments'[id] = acc
          /\ \A x \in DOMAIN fragments : x # id => fragments'[x] = fragments[x]
      BY <2>2, <2>7
    <3>2. Accumulators' BY <2>4, <3>1 DEF Accumulators, TypeInv
    <3>3. AccInv(id)'
      <4>1. fragments'[id].m = fragments[id].m /\ fragments'[id].parts = fragments[id].parts \cup {cur}
        BY <2>2, <2>4, <3>1
      <4>2. Unfinished(fragments[id].m)' BY <1>1, <2>3, <2>7, <4>1 DEF AccInv, Unfinished, Begun
      <4>3. \A p \in fragments'[id].parts : p.m = fragments'[id].m BY <2>2, <2>3, <4>1 DEF AccInv
      <4>4. sent'[fragments'[id].m].id = id /\ sent'[fragments'[id].m].cnt > 1
        BY <1>1, <2>3, <4>1 DEF AccInv
      <4> QED BY <4>2, <4>3, <4>4 DEF AccInv
    <3>4. cur' \in FrameType BY <2>7 DEF NoFrame, FrameType
    <3>5. \A x \in DOMAIN fragments' : \/ x \in DOMAIN fragments /\ fragments'[x] = fragments[x]
                                       \/ AccInv(x)'
      BY <3>1, <3>3
    <3> QED BY <1>2, <2>7, <3>2, <3>4, <3>5, ReadsOn
  <2> QED BY <1>5, <2>0, <2>6, <2>7 DEF ReadBodyPart
<1> QED BY <1>4, <1>5 DEF ReadBody

-----------------------------------------------------------------------------
\* The steps of the connection.

\* Nothing is numbered.
LEMMA NumbersKept ==
  ASSUME NumberInv, pc' # "send", UNCHANGED <<identifier, sent>>, asked' \subseteq asked
  PROVE  NumberInv'
<1>1. Events' = Events BY DEF Events
<1> QED BY <1>1 DEF NumberInv

\* What is read is kept in order, and what is on the wire is not touched.
LEMMA FramesKept ==
  ASSUME FrameInv, UNCHANGED <<wire, sent, todo>>
  PROVE  FrameInv'
BY DEF FrameInv, OfSent

\* A step of the reader.
LEMMA ReaderKeeps ==
  ASSUME Inv, ReaderInv, FrameInv', wire' \in Seq(FrameType), UNCHANGED <<identifier, sent, todo, asked>>
  PROVE  Inv'
<1>1. NumberInv' BY NumbersKept DEF Inv, ReaderInv, Stands
<1>2. TypeInv' BY DEF Inv, ReaderInv, Stands, TypeInv, OpType, Accumulators
<1> QED BY <1>1, <1>2 DEF Inv, ReaderInv, Stands, MailInv

\* A step that leaves the stream alone.
LEMMA StreamKept ==
  ASSUME Inv, Stands({"idle", "header", "ack"}), MailInv',
         UNCHANGED <<identifier, sent, todo, asked, fragments, completed, wire>>
  PROVE  Inv'
<1>1. ReadInv'
  <2>1. Grows /\ BegunKept BY SentKept DEF Inv, BegunKept
  <2>2. pc' # "body" BY DEF Stands
  <2> QED BY <2>1, <2>2, ReadKept DEF Inv
<1>2. FrameInv' BY FramesKept DEF Inv
<1>3. ReaderInv BY <1>1 DEF ReaderInv, Stands, Inv, TypeInv, Accumulators
<1> QED BY <1>2, <1>3, ReaderKeeps DEF Inv, TypeInv

\* ReadHeader
LEMMA ReadHeaderKeeps ==
  ASSUME Inv, ReadHeader
  PROVE  Inv'
<1>1. ReaderInv /\ FrameInv' /\ wire' \in Seq(FrameType) BY HeaderReader DEF Inv, MailInv
<1> QED BY <1>1, ReaderKeeps DEF ReadHeader, device

\* ReadBody
LEMMA ReadBodyKeeps ==
  ASSUME Inv, ReadBody
  PROVE  Inv'
<1>1. ReaderInv BY BodyReader DEF Inv, MailInv
<1>2. UNCHANGED <<identifier, wire, sent, todo, asked>> BY DEF ReadBody, device, transport
<1>3. FrameInv' /\ wire' \in Seq(FrameType) BY <1>2, FramesKept DEF Inv, TypeInv
<1> QED BY <1>1, <1>2, <1>3, ReaderKeeps

\* ReadGarbage
LEMMA ReadGarbageKeeps ==
  ASSUME Inv, ReadGarbage
  PROVE  Inv'
<1>1. UNCHANGED <<identifier, sent, todo, asked, outbound_torn>> /\ pc = "header" /\ ReadFails(used)
  BY DEF ReadGarbage, device
<1>2. FrameInv' /\ wire' \in Seq(FrameType) /\ \A f : In(wire', f) => In(wire, f)
  <2>1. CASE UNCHANGED wire BY <1>1, <2>1, FramesKept DEF Inv, TypeInv
  <2>2. CASE wire # <<>> /\ wire' = Tail(wire) BY <1>1, <2>2, WireShrinks DEF Inv
  <2> QED BY <2>1, <2>2 DEF ReadGarbage
<1>3. Reads BY <1>1, <1>2 DEF Reads, Inv, MailInv, BegunKept
<1> QED BY <1>1, <1>2, <1>3, FailsReader, ReaderKeeps

\* Start
LEMMA StartKeeps ==
  ASSUME Inv, NEW k \in {"call", "async"}, Start(k)
  PROVE  Inv'
<1>1. /\ pc = "idle" /\ op' = [kind |-> k, id |-> identifier] /\ identifier' = identifier + 1
      /\ pc' = "send" /\ cur' = cur
      /\ UNCHANGED <<pending_replies, queued_messages, fragments, wire, outbound_torn, sent, todo,
                     asked, completed, answered, delivered, lost, acked>>
  BY DEF Start, tables, transport, device, history
<1>2. identifier \in Nat \ {0} BY DEF Inv, TypeInv
<1>3. op'.kind = k /\ op'.id = identifier /\ op' \in OpType BY <1>1, <1>2 DEF OpType
<1>4. TypeInv'
  <2>1. identifier' \in Nat \ {0} BY <1>1, <1>2
  <2>2. op' \in [kind : {"none", "call", "async", "recv"}, id : Nat] BY <1>3 DEF OpType
  <2> QED BY <1>1, <2>1, <2>2 DEF Inv, TypeInv
<1>5. ControlInv' BY <1>1, <1>3 DEF Inv, ControlInv
<1>6. NumberInv'
  <2>1. Events' = Events BY <1>1 DEF Events
  <2>2. sent \in Seq(Msg) /\ asked \subseteq Nat BY DEF Inv, TypeInv
  <2>3. ASSUME NEW m \in 1 .. Len(sent) PROVE sent[m].id \in Nat
    <3>1. sent[m] \in Msg BY <2>2
    <3> QED BY <3>1 DEF Msg
  <2>4. \A x \in Nat : x < identifier => x < identifier' /\ x # op'.id BY <1>1, <1>2, <1>3
  <2>5. ASSUME NEW m \in 1 .. Len(sent')
        PROVE  /\ sent'[m].conv = 0 => sent'[m].id <= Cardinality(Events')
               /\ sent'[m].conv = 1 => /\ sent'[m].id < identifier' /\ sent'[m].id \notin asked'
                                       /\ pc' = "send" => sent'[m].id # op'.id
    BY <1>1, <2>1, <2>3, <2>4 DEF Inv, NumberInv
  <2>6. \A a \in asked' : a < identifier' /\ a # op'.id BY <1>1, <2>2, <2>4 DEF Inv, NumberInv
  <2>7. op'.id < identifier' BY <1>1, <1>2, <1>3
  <2> QED BY <1>1, <2>5, <2>6, <2>7 DEF Inv, NumberInv
<1>7. FrameInv' BY <1>1, FramesKept DEF Inv
<1>8. ReadInv'
  <2>1. Grows /\ BegunKept BY <1>1, SentKept DEF Inv, BegunKept
  <2> QED BY <1>1, <2>1, ReadKept DEF Inv
<1>9. MailInv'
  <2>1. Current' = {} /\ Current = {} BY <1>1 DEF Current
  <2> QED BY <1>1, <2>1, MailKept, SentKept DEF Inv, MailInv
<1> QED BY <1>4, <1>5, <1>6, <1>7, <1>8, <1>9 DEF Inv, MailInv

\* Numbers stay apart when the request that is being written is asked of the device.
LEMMA AskedNumbers ==
  ASSUME Inv, pc = "send", pc' # "send", UNCHANGED <<identifier, sent>>,
         asked' = asked \/ asked' = AskedNow
  PROVE  NumberInv' /\ asked' \subseteq Nat
<1>1. asked' \subseteq asked \cup {op.id} BY DEF AskedNow
<1>2. op.id \in Nat /\ asked \subseteq Nat BY DEF Inv, TypeInv
<1>3. Events' = Events BY DEF Events
<1> QED BY <1>1, <1>2, <1>3 DEF Inv, NumberInv

\* Sent
LEMMA SentKeeps ==
  ASSUME Inv, Sent
  PROVE  Inv'
<1>1. /\ pc = "send" /\ asked' = AskedNow
      /\ UNCHANGED <<identifier, pending_replies, queued_messages, fragments, wire, outbound_torn,
                     sent, todo, completed, answered, delivered, lost, acked>>
  BY DEF Sent, transport, history
<1>2. Stands({"idle", "header"})
  <2>1. CASE Done
    <3>1. Stands({"idle"}) BY <1>1, <2>1, DoneStands DEF Inv
    <3> QED BY <3>1 DEF Stands
  <2>2. CASE op.kind = "call" /\ pc' = "header" /\ UNCHANGED <<op, cur>>
    BY <1>1, <2>2 DEF Inv, TypeInv, Stands, ControlInv, OpType
  <2> QED BY <2>1, <2>2 DEF Sent
<1>3. Current' = {} /\ Current = {} BY <1>1, <1>2 DEF Current, Stands
<1>4. NumberInv' /\ asked' \subseteq Nat BY <1>1, <1>2, AskedNumbers DEF Stands
<1>5. TypeInv' BY <1>1, <1>2, <1>4 DEF Inv, TypeInv, Stands, OpType
<1>6. FrameInv' BY <1>1, FramesKept DEF Inv
<1>7. ReadInv'
  <2>1. Grows /\ BegunKept BY <1>1, SentKept DEF Inv, BegunKept
  <2>2. pc' # "body" BY <1>2 DEF Stands
  <2> QED BY <1>1, <2>1, <2>2, ReadKept DEF Inv
<1>8. MailInv' BY <1>1, <1>3, MailKept, SentKept DEF Inv, MailInv
<1> QED BY <1>2, <1>4, <1>5, <1>6, <1>7, <1>8 DEF Inv, MailInv, Stands

\* RecvQueued
LEMMA RecvQueuedKeeps ==
  ASSUME Inv, RecvQueued
  PROVE  Inv'
<1> DEFINE m == Head(queued_messages)
<1>1. /\ pc = "idle" /\ queued_messages # <<>> /\ queued_messages' = Tail(queued_messages)
      /\ Deliver(m)
      /\ UNCHANGED <<identifier, pending_replies, fragments, wire, outbound_torn, sent, todo, asked,
                     completed, answered, lost, acked>>
  BY DEF RecvQueued, transport, device
<1>2. queued_messages \in Seq(Nat) /\ delivered \in Seq(Nat) BY DEF Inv, TypeInv
<1>3. m \in Nat /\ queued_messages' \in Seq(Nat) BY <1>1, <1>2, Shortened
<1>4. delivered' = Append(delivered, m) BY <1>1 DEF Deliver
<1> HIDE DEF m
<1>5. delivered' \in Seq(Nat) BY <1>2, <1>3, <1>4
<1>6. Stands({"idle", "ack"}) /\ Current' = {} BY <1>1, <1>3, <1>5, DeliverStands
<1>7. MailInv' BY <1>1, <1>4, <1>6, QueueDelivered DEF Inv, MailInv, m
<1>8. Stands({"idle", "header", "ack"}) BY <1>6 DEF Stands
<1> QED BY <1>1, <1>7, <1>8, StreamKept

\* RecvFresh
LEMMA RecvFreshKeeps ==
  ASSUME Inv, RecvFresh
  PROVE  Inv'
<1>1. /\ pc = "idle" /\ queued_messages = <<>> /\ op' = [kind |-> "recv", id |-> 0] /\ pc' = "header"
      /\ UNCHANGED <<identifier, cur, pending_replies, queued_messages, fragments, wire, outbound_torn,
                     sent, todo, asked, completed, answered, delivered, lost, acked>>
  BY DEF RecvFresh, MayRead, tables, transport, device, history
<1>2. op'.kind = "recv" /\ op' \in OpType BY <1>1 DEF OpType
<1>3. Stands({"idle", "header", "ack"}) BY <1>1, <1>2 DEF Inv, TypeInv, Stands, ControlInv
<1>4. Current' = {} /\ Current = {} BY <1>1 DEF Current
<1>5. MailInv' BY <1>1, <1>4, MailKept, SentKept DEF Inv, MailInv
<1> QED BY <1>1, <1>3, <1>5, StreamKept

\* AckWritten
LEMMA AckWrittenKeeps ==
  ASSUME Inv, AckWritten
  PROVE  Inv'
<1>1. /\ pc = "ack" /\ acked' = IF outbound_torn THEN acked ELSE acked \cup {cur.m}
      /\ UNCHANGED <<identifier, pending_replies, fragments, wire, outbound_torn, sent, todo, asked,
                     completed, answered, delivered>>
  BY DEF AckWritten, transport, device
<1>2. acked \subseteq acked' /\ (cur.m \in acked' \/ outbound_torn') BY <1>1
<1>3. CASE op.kind = "recv" /\ Done /\ UNCHANGED <<queued_messages, lost>>
  <2>1. Stands({"idle"}) /\ Current' = {} BY <1>1, <1>3, DoneStands DEF Inv
  <2>2. Current = {} BY <1>3 DEF Current
  <2>3. MailInv' BY <1>1, <1>2, <1>3, <2>1, <2>2, MailKept, SentKept DEF Inv, MailInv
  <2>4. Stands({"idle", "header", "ack"}) BY <2>1 DEF Stands
  <2> QED BY <1>1, <2>3, <2>4, StreamKept
<1>4. CASE op.kind = "call" /\ QueueMessage(cur.m, used)
  <2>1. Hand(cur.m) BY <1>1, <1>4, CurrentInHand DEF Inv, MailInv
  <2>2. cur.m \in Nat BY DEF Inv, TypeInv, FrameType
  <2>3. MailInv' /\ Stands({"idle", "header"})
    BY <1>1, <1>2, <1>4, <2>1, <2>2, QueueMail DEF Inv, MailInv
  <2>4. Stands({"idle", "header", "ack"}) BY <2>3 DEF Stands
  <2> QED BY <1>1, <2>3, <2>4, StreamKept
<1> QED BY <1>3, <1>4 DEF AckWritten

\* The operation ends without a result; the message that a call acknowledges is lost.
LEMMA EndsMail ==
  ASSUME Inv, Done, LosesCurrent,
         UNCHANGED <<sent, completed, answered, delivered, pending_replies, queued_messages>>,
         acked \subseteq acked', outbound_torn => outbound_torn'
  PROVE  MailInv' /\ Stands({"idle"})
<1>1. Stands({"idle"}) /\ Current' = {} BY DoneStands DEF Inv
<1>2. CASE pc = "ack" /\ op.kind = "call"
  <2>1. Hand(cur.m) BY <1>2, CurrentInHand DEF Inv, MailInv
  <2>2. lost' = lost \cup {cur.m} BY <1>2 DEF LosesCurrent
  <2> QED BY <1>1, <2>1, <2>2, HandLost DEF Inv, MailInv
<1>3. CASE ~(pc = "ack" /\ op.kind = "call")
  <2>1. lost' = lost /\ Current = {} BY <1>3 DEF LosesCurrent, Current
  <2> QED BY <1>1, <2>1, MailKept, SentKept DEF Inv, MailInv
<1> QED BY <1>2, <1>3

\* IoError
LEMMA IoErrorKeeps ==
  ASSUME Inv, IoError
  PROVE  Inv'
<1>1. UNCHANGED <<identifier, wire, outbound_torn, sent, todo, asked>> BY DEF IoError, device
<1>2. CASE pc \in {"header", "body"} /\ ReadFails(used - Held)
  <2>1. Reads BY <1>1, <1>2 DEF Reads, Inv, MailInv, BegunKept
  <2>2. ReaderInv BY <1>2, <2>1, FailsReader
  <2>3. FrameInv' /\ wire' \in Seq(FrameType) BY <1>1, FramesKept DEF Inv, TypeInv
  <2> QED BY <1>1, <2>2, <2>3, ReaderKeeps
<1>3. CASE /\ Done /\ LosesCurrent
           /\ UNCHANGED <<pending_replies, queued_messages, fragments,
                          completed, answered, delivered, acked>>
  <2>1. MailInv' /\ Stands({"idle"}) BY <1>1, <1>3, EndsMail
  <2>2. Stands({"idle", "header", "ack"}) BY <2>1 DEF Stands
  <2> QED BY <1>1, <1>3, <2>1, <2>2, StreamKept
<1> QED BY <1>2, <1>3 DEF IoError

\* Cancel
LEMMA CancelKeeps ==
  ASSUME Inv, Cancel
  PROVE  Inv'
<1>1. /\ Done /\ LosesCurrent
      /\ UNCHANGED <<identifier, pending_replies, queued_messages, fragments, sent, todo,
                     completed, answered, delivered>>
  BY DEF Cancel, tables
<1>2. /\ acked \subseteq acked' /\ (outbound_torn => outbound_torn')
      /\ asked' = asked \/ (pc = "send" /\ asked' = AskedNow)
      /\ wire' = wire \/ (wire # <<>> /\ wire' = Tail(wire))
  BY DEF Cancel, WriteDropped, ReadDropped, AtHeader
<1>3. MailInv' /\ Stands({"idle"}) BY <1>1, <1>2, EndsMail
<1>4. FrameInv' /\ wire' \in Seq(FrameType) /\ \A f : In(wire', f) => In(wire, f)
  <2>1. CASE wire' = wire BY <1>1, <2>1, FramesKept DEF Inv, TypeInv
  <2>2. CASE wire # <<>> /\ wire' = Tail(wire) BY <1>1, <2>2, WireShrinks DEF Inv
  <2> QED BY <1>2, <2>1, <2>2
<1>5. ReadInv'
  <2>1. Grows /\ BegunKept BY <1>1, <1>4, SentKept DEF Inv, BegunKept
  <2>2. pc' # "body" BY <1>3 DEF Stands
  <2> QED BY <1>1, <2>1, <2>2, ReadKept DEF Inv
<1>6. NumberInv' /\ asked' \subseteq Nat
  <2>1. pc' # "send" BY <1>3 DEF Stands
  <2>2. CASE asked' = asked BY <1>1, <2>1, <2>2, NumbersKept DEF Inv, TypeInv
  <2>3. CASE pc = "send" /\ asked' = AskedNow BY <1>1, <2>1, <2>3, AskedNumbers
  <2> QED BY <1>2, <2>2, <2>3
<1>7. TypeInv' BY <1>1, <1>3, <1>4, <1>6 DEF Inv, TypeInv, Stands, OpType
<1> QED BY <1>3, <1>4, <1>5, <1>6, <1>7 DEF Inv, MailInv, Stands

-----------------------------------------------------------------------------
\* The steps of the device.

\* A frame is put on the wire; the messages that were sent before are as they were.
LEMMA FramePut ==
  ASSUME Inv, Grows, NEW f \in FrameType, wire' = Append(wire, f),
         f.idx = 0 => f.m \notin 1 .. Len(sent),
         UNCHANGED <<identifier, tables, call, outbound_torn, history>>
  PROVE  /\ ControlInv' /\ ReadInv' /\ MailInv' /\ wire' \in Seq(FrameType)
         /\ OfSent(f)' => (\A i \in 1 .. Len(wire') : OfSent(wire[i])')
         /\ \A i, j \in 1 .. Len(wire') : wire'[i].idx = 0 /\ wire'[i] = wire'[j] => i = j
<1>0. /\ wire \in Seq(FrameType) /\ Len(wire) \in Nat /\ Len(sent) \in Nat
      /\ \A i \in 1 .. Len(wire) : wire[i] \in FrameType
  BY Elements DEF Inv, TypeInv
<1>1. /\ wire' \in Seq(FrameType) /\ Len(wire') = Len(wire) + 1 /\ wire'[Len(wire) + 1] = f
      /\ \A i \in 1 .. Len(wire) : wire'[i] = wire[i]
      /\ \A x : In(wire', x) <=> In(wire, x) \/ x = f
  <2>1. wire' \in Seq(FrameType) /\ Longer(wire', wire, f) BY <1>0, Appended
  <2> QED BY <2>1 DEF Longer
<1>2. \A i \in 1 .. Len(wire') : i \in 1 .. Len(wire) \/ i = Len(wire) + 1 BY <1>0, <1>1
<1>3. BegunKept
  <2> SUFFICES ASSUME NEW m \in 1 .. Len(sent), First(m) = f PROVE FALSE BY <1>1 DEF BegunKept
  <2>1. f.idx = 0 /\ f.m = m BY DEF First
  <2> QED BY <2>1
<1>4. UNCHANGED <<pending_replies, queued_messages, fragments, op, pc, cur, completed, answered,
                  delivered, lost, acked, outbound_torn>>
  BY DEF tables, call, history
<1>5. ReadInv'
  <2>1. pc' = "body" => BodyInv' BY <1>3, <1>4, BodyKept DEF Inv
  <2> QED BY <1>3, <1>4, <2>1, ReadKept DEF Inv
<1>6. MailInv'
  <2>1. Current' = Current BY <1>4 DEF Current
  <2> QED BY <1>4, <2>1, MailKept DEF Inv, MailInv
<1>7. ControlInv' BY <1>4 DEF Inv, ControlInv
<1>8. \A i \in 1 .. Len(wire) : OfSent(wire[i]) BY DEF Inv, FrameInv
<1>9. ASSUME OfSent(f)', NEW i \in 1 .. Len(wire') PROVE OfSent(wire[i])'
  <2>1. CASE i \in 1 .. Len(wire)
    <3>1. wire'[i] = wire[i] /\ OfSent(wire[i]) BY <1>1, <1>8, <2>1
    <3>2. wire[i].m \in 1 .. Len(sent') /\ sent'[wire[i].m] = sent[wire[i].m]
      <4>1. wire[i].m \in 1 .. Len(sent) BY <3>1 DEF OfSent
      <4>2. Len(sent) \in Nat /\ Len(sent') \in Nat /\ Len(sent) <= Len(sent') BY <1>0 DEF Grows
      <4>3. 1 .. Len(sent) \subseteq 1 .. Len(sent') BY <4>2
      <4> QED BY <4>1, <4>3 DEF Grows
    <3> QED BY <3>1, <3>2 DEF OfSent
  <2>2. CASE i = Len(wire) + 1
    <3>1. wire'[i] = f BY <1>1, <2>2
    <3> QED BY <3>1, <1>9 DEF OfSent
  <2> QED BY <1>2, <2>1, <2>2
<1>10. ASSUME NEW i \in 1 .. Len(wire'), NEW j \in 1 .. Len(wire'), wire'[i].idx = 0, wire'[i] = wire'[j]
       PROVE  i = j
  <2>1. \A k \in 1 .. Len(wire) : wire[k].m \in 1 .. Len(sent) BY <1>8 DEF OfSent
  <2>2. CASE i \in 1 .. Len(wire) /\ j \in 1 .. Len(wire)
    BY <1>1, <1>10, <2>2 DEF Inv, FrameInv
  <2>3. CASE i = Len(wire) + 1 /\ j \in 1 .. Len(wire) BY <1>1, <1>10, <2>1, <2>3
  <2>4. CASE i \in 1 .. Len(wire) /\ j = Len(wire) + 1 BY <1>1, <1>10, <2>1, <2>4
  <2> QED BY <1>2, <2>2, <2>3, <2>4
<1> QED BY <1>1, <1>5, <1>6, <1>7, <1>9, <1>10

\* A message is sent: its first frame goes out, the others wait.
LEMMA MessagePut ==
  ASSUME Inv, NEW id \in Nat, NEW conv \in {0, 1}, NEW expects \in BOOLEAN,
         NEW s \in EventShapes \cup ReplyShapes, DeviceMessage(id, conv, expects, s),
         NumberInv', asked' \subseteq asked
  PROVE  Inv'
<1> DEFINE new == [id |-> id, conv |-> conv, expects |-> expects,
                   len |-> s.len, cnt |-> s.cnt, ok |-> s.ok]
<1>0. PICK n : n = Len(sent) + 1 OBVIOUS
<1>1. /\ sent' = Append(sent, new) /\ wire' = Append(wire, First(n))
      /\ todo' = todo \cup {[m |-> n, idx |-> i] : i \in 1 .. s.cnt - 1}
      /\ UNCHANGED <<identifier, tables, call, outbound_torn, history>>
  BY <1>0 DEF DeviceMessage, First
<1>2. s.len \in Nat /\ s.cnt \in Nat \ {0} /\ s.ok \in BOOLEAN
  <2>1. s \in [len : Nat, cnt : Nat \ {0}, ok : BOOLEAN] BY DEF DtxAssumption
  <2> QED BY <2>1
<1>3. new \in Msg /\ new.cnt = s.cnt BY <1>2 DEF Msg
<1> HIDE DEF new
<1>4. sent \in Seq(Msg) /\ Len(sent) \in Nat BY Elements DEF Inv, TypeInv
<1>5. /\ sent' \in Seq(Msg) /\ Len(sent') = n /\ sent'[n] = new /\ n \in Nat
      /\ \A m \in 1 .. Len(sent) : sent'[m] = sent[m]
  <2>1. sent' \in Seq(Msg) /\ Longer(sent', sent, new) BY <1>1, <1>3, <1>4, Appended
  <2>2. n \in Nat BY <1>0, <1>4
  <2>3. /\ Len(sent') = Len(sent) + 1 /\ sent'[Len(sent) + 1] = new
        /\ \A m \in 1 .. Len(sent) : sent'[m] = sent[m]
    BY <2>1 DEF Longer
  <2> QED BY <1>0, <2>1, <2>2, <2>3
<1>6. Grows
  <2>1. n \in Nat /\ Len(sent) <= n BY <1>0, <1>4
  <2>2. Len(sent') = n /\ \A m \in 1 .. Len(sent) : sent'[m] = sent[m] BY <1>5
  <2> QED BY <2>1, <2>2 DEF Grows
<1>7. First(n) \in FrameType /\ First(n).m = n /\ First(n).idx = 0 /\ n \notin 1 .. Len(sent)
  BY <1>0, <1>4, <1>5 DEF First, FrameType
<1>8. OfSent(First(n))' BY <1>0, <1>2, <1>3, <1>4, <1>5, <1>7 DEF OfSent, First
<1>9. /\ ControlInv' /\ ReadInv' /\ MailInv' /\ wire' \in Seq(FrameType)
      /\ \A i \in 1 .. Len(wire') : OfSent(wire[i])'
      /\ \A i, j \in 1 .. Len(wire') : wire'[i].idx = 0 /\ wire'[i] = wire'[j] => i = j
  <2>1. PICK f \in FrameType : f = First(n) BY <1>7
  <2>2. OfSent(f)' BY <2>1, <1>8 DEF OfSent, First
  <2>3. wire' = Append(wire, f) /\ (f.idx = 0 => f.m \notin 1 .. Len(sent)) BY <2>1, <1>1, <1>7
  <2> QED BY <1>1, <1>6, <2>2, <2>3, FramePut
<1>10. ASSUME NEW f \in todo' PROVE OfSent(f)' /\ f.idx > 0 /\ f \in FrameType
  <2>1. CASE f \in todo
    <3>1. OfSent(f) /\ f.idx > 0 /\ f \in FrameType BY <2>1 DEF Inv, FrameInv, TypeInv
    <3>2. f.m \in 1 .. Len(sent) /\ f.idx < sent[f.m].cnt BY <3>1 DEF OfSent
    <3>3. sent'[f.m] = sent[f.m] BY <1>6, <3>2 DEF Grows
    <3>4. f.m \in 1 .. Len(sent')
      <4>1. Len(sent') = Len(sent) + 1 BY <1>0, <1>5
      <4> QED BY <1>4, <3>2, <4>1
    <3> QED BY <3>1, <3>2, <3>3, <3>4 DEF OfSent
  <2>2. CASE f \notin todo
    <3>1. PICK i \in 1 .. s.cnt - 1 : f = [m |-> n, idx |-> i] BY <1>1, <2>2
    <3>2. f.m = n /\ f.idx = i /\ i \in Nat /\ i > 0 /\ i < s.cnt BY <1>2, <3>1
    <3>3. f \in FrameType BY <1>5, <3>1, <3>2 DEF FrameType
    <3> QED BY <1>0, <1>3, <1>4, <1>5, <3>2, <3>3 DEF OfSent
  <2> QED BY <2>1, <2>2
<1>11. FrameInv' BY <1>9, <1>10 DEF FrameInv
<1>12. TypeInv'
  <2>1. todo' \subseteq FrameType BY <1>10
  <2> QED BY <1>1, <1>5, <1>9, <2>1 DEF Inv, TypeInv, tables, call, history
<1> QED BY <1>9, <1>11, <1>12 DEF Inv, MailInv

\* What the device has sent, after one message more.
LEMMA SentMore ==
  ASSUME Inv, NEW id \in Nat, NEW conv \in {0, 1}, NEW expects, NEW s, DeviceMessage(id, conv, expects, s)
  PROVE  LET n == Len(sent) + 1 IN
         /\ Len(sent) \in Nat /\ Len(sent') = n /\ sent'[n].id = id /\ sent'[n].conv = conv
         /\ \A m \in 1 .. Len(sent) : sent'[m] = sent[m] /\ sent[m] \in Msg
         /\ Events' = IF conv = 0 THEN Events \cup {n} ELSE Events
         /\ IsFiniteSet(Events) /\ n \notin Events
         /\ UNCHANGED <<identifier, op, pc>>
<1> DEFINE n == Len(sent) + 1
           new == [id |-> id, conv |-> conv, expects |-> expects,
                   len |-> s.len, cnt |-> s.cnt, ok |-> s.ok]
<1>1. sent' = Append(sent, new) /\ UNCHANGED <<identifier, op, pc>> BY DEF DeviceMessage, call
<1>2. new.id = id /\ new.conv = conv OBVIOUS
<1> HIDE DEF new
<1>3. sent \in Seq(Msg) /\ Len(sent) \in Nat /\ DOMAIN sent = 1 .. Len(sent)
      /\ \A m \in 1 .. Len(sent) : sent[m] \in Msg
  BY Elements DEF Inv, TypeInv
<1>4. /\ Len(sent') = n /\ sent'[n] = new /\ DOMAIN sent' = 1 .. n
      /\ \A m \in 1 .. Len(sent) : sent'[m] = sent[m]
  BY <1>1, <1>3, AppendProperties
<1>5. \A m : m \in 1 .. n <=> m \in 1 .. Len(sent) \/ m = n
  <2>1. Len(sent) \in Nat BY <1>3
  <2> QED BY <2>1
<1>6. n \notin 1 .. Len(sent) BY <1>3
<1> HIDE DEF n
<1>7. Events' = IF conv = 0 THEN Events \cup {n} ELSE Events
  BY <1>2, <1>3, <1>4, <1>5, <1>6 DEF Events
<1>8. n \notin Events BY <1>3, <1>6 DEF Events
<1>9. IsFiniteSet(Events)
  <2>1. IsFiniteSet(1 .. Len(sent)) BY <1>3, FS_Interval
  <2> QED BY <1>3, <2>1, FS_Subset DEF Events
<1> QED BY <1>1, <1>2, <1>3, <1>4, <1>7, <1>8, <1>9 DEF n

\* DeviceReplies
LEMMA DeviceRepliesKeeps ==
  ASSUME Inv, NEW id \in asked, NEW s \in ReplyShapes, DeviceReplies(id, s)
  PROVE  Inv'
<1>0. id \in Nat /\ asked' = asked \ {id} /\ DeviceMessage(id, 1, FALSE, s)
  BY DEF DeviceReplies, Inv, TypeInv
<1>1. PICK n : n = Len(sent) + 1 OBVIOUS
<1>2. /\ Len(sent) \in Nat /\ Len(sent') = n /\ sent'[n].id = id /\ sent'[n].conv = 1
      /\ \A m \in 1 .. Len(sent) : sent'[m] = sent[m] /\ sent[m] \in Msg
      /\ Events' = Events /\ UNCHANGED <<identifier, op, pc>>
  <2>1. 1 \in {0, 1} /\ 1 # 0 OBVIOUS
  <2>2. LET k == Len(sent) + 1 IN
        /\ Len(sent) \in Nat /\ Len(sent') = k /\ sent'[k].id = id /\ sent'[k].conv = 1
        /\ \A m \in 1 .. Len(sent) : sent'[m] = sent[m] /\ sent[m] \in Msg
        /\ Events' = IF 1 = 0 THEN Events \cup {k} ELSE Events
        /\ UNCHANGED <<identifier, op, pc>>
    BY <1>0, <2>1, SentMore
  <2> QED BY <1>1, <2>1, <2>2
<1>3. \A m \in 1 .. Len(sent') : m \in 1 .. Len(sent) \/ m = n BY <1>1, <1>2
<1>4. id < identifier /\ (pc = "send" => id # op.id)
      /\ \A m \in 1 .. Len(sent) : sent[m].conv = 1 => sent[m].id # id
  BY DEF Inv, NumberInv
<1>5. NumberInv'
  <2>1. ASSUME NEW a \in 1 .. Len(sent'), NEW b \in 1 .. Len(sent'),
               sent'[a].id = sent'[b].id, sent'[a].conv = sent'[b].conv
        PROVE  a = b
    <3>1. CASE a \in 1 .. Len(sent) /\ b \in 1 .. Len(sent)
      BY <1>2, <2>1, <3>1 DEF Inv, NumberInv
    <3>2. CASE a = n /\ b \in 1 .. Len(sent) BY <1>2, <1>4, <2>1, <3>2
    <3>3. CASE b = n /\ a \in 1 .. Len(sent) BY <1>2, <1>4, <2>1, <3>3
    <3> QED BY <1>3, <3>1, <3>2, <3>3
  <2>2. ASSUME NEW m \in 1 .. Len(sent')
        PROVE  /\ sent'[m].conv = 0 => sent'[m].id <= Cardinality(Events')
               /\ sent'[m].conv = 1 => /\ sent'[m].id < identifier' /\ sent'[m].id \notin asked'
                                       /\ pc' = "send" => sent'[m].id # op'.id
    <3>1. CASE m \in 1 .. Len(sent) BY <1>0, <1>2, <3>1 DEF Inv, NumberInv
    <3>2. CASE m = n BY <1>0, <1>2, <1>4, <3>2
    <3> QED BY <1>3, <3>1, <3>2
  <2>3. \A a \in asked' : a < identifier' /\ (pc' = "send" => a # op'.id)
    BY <1>0, <1>2 DEF Inv, NumberInv
  <2>4. pc' = "send" => op'.id < identifier' BY <1>2 DEF Inv, NumberInv
  <2> QED BY <2>1, <2>2, <2>3, <2>4 DEF NumberInv
<1> QED BY <1>0, <1>5, MessagePut

\* DeviceNotifies
LEMMA DeviceNotifiesKeeps ==
  ASSUME Inv, NEW e \in BOOLEAN, NEW s \in EventShapes, DeviceNotifies(e, s)
  PROVE  Inv'
<1>0. PICK id : id = Cardinality(Events) + 1 OBVIOUS
<1>1. PICK n : n = Len(sent) + 1 OBVIOUS
<1>2. asked' = asked /\ DeviceMessage(id, 0, e, s) BY <1>0 DEF DeviceNotifies
<1>3. id \in Nat /\ Cardinality(Events) \in Nat
  <2>1. sent \in Seq(Msg) BY DEF Inv, TypeInv
  <2>2. Len(sent) \in Nat /\ Events \subseteq 1 .. Len(sent) BY <2>1 DEF Events
  <2>3. IsFiniteSet(1 .. Len(sent)) BY <2>2, FS_Interval
  <2>4. IsFiniteSet(Events) BY <2>2, <2>3, FS_Subset
  <2> QED BY <1>0, <2>4, FS_CardinalityType
<1>4. /\ Len(sent) \in Nat /\ Len(sent') = n /\ sent'[n].id = id /\ sent'[n].conv = 0
      /\ \A m \in 1 .. Len(sent) : sent'[m] = sent[m] /\ sent[m] \in Msg
      /\ Events' = Events \cup {n} /\ UNCHANGED <<identifier, op, pc>>
      /\ IsFiniteSet(Events) /\ n \notin Events
  BY <1>1, <1>2, <1>3, SentMore
<1>5. Cardinality(Events') = id BY <1>0, <1>4, FS_AddElement
<1>6. \A m \in 1 .. Len(sent') : m \in 1 .. Len(sent) \/ m = n BY <1>1, <1>4
<1>7. ASSUME NEW m \in 1 .. Len(sent), sent[m].conv = 0 PROVE sent[m].id < id /\ sent[m].id \in Nat
  <2>1. sent[m].id \in Nat BY <1>4 DEF Msg
  <2>2. sent[m].id <= Cardinality(Events) BY <1>7 DEF Inv, NumberInv
  <2>3. \A x, c \in Nat : x <= c => x < c + 1 OBVIOUS
  <2> QED BY <1>0, <1>3, <2>1, <2>2, <2>3
<1>8. NumberInv'
  <2>1. ASSUME NEW a \in 1 .. Len(sent'), NEW b \in 1 .. Len(sent'),
               sent'[a].id = sent'[b].id, sent'[a].conv = sent'[b].conv
        PROVE  a = b
    <3>1. CASE a \in 1 .. Len(sent) /\ b \in 1 .. Len(sent)
      BY <1>4, <2>1, <3>1 DEF Inv, NumberInv
    <3>2. CASE a = n /\ b \in 1 .. Len(sent)
      <4>1. sent[b].id = id /\ sent[b].conv = 0 BY <1>4, <2>1, <3>2
      <4>2. sent[b].id < id BY <1>7, <3>2, <4>1
      <4> QED BY <1>3, <4>1, <4>2
    <3>3. CASE b = n /\ a \in 1 .. Len(sent)
      <4>1. sent[a].id = id /\ sent[a].conv = 0 BY <1>4, <2>1, <3>3
      <4>2. sent[a].id < id BY <1>7, <3>3, <4>1
      <4> QED BY <1>3, <4>1, <4>2
    <3> QED BY <1>6, <3>1, <3>2, <3>3
  <2>2. ASSUME NEW m \in 1 .. Len(sent')
        PROVE  /\ sent'[m].conv = 0 => sent'[m].id <= Cardinality(Events')
               /\ sent'[m].conv = 1 => /\ sent'[m].id < identifier' /\ sent'[m].id \notin asked'
                                       /\ pc' = "send" => sent'[m].id # op'.id
    <3>1. CASE m \in 1 .. Len(sent) /\ sent[m].conv = 0
      <4>1. sent[m].id \in Nat /\ sent[m].id < id BY <1>7, <3>1
      <4>2. \A x, y \in Nat : x < y => x <= y OBVIOUS
      <4>3. sent[m].id <= id BY <1>3, <4>1, <4>2
      <4> QED BY <1>4, <1>5, <3>1, <4>3
    <3>2. CASE m \in 1 .. Len(sent) /\ sent[m].conv # 0 BY <1>2, <1>4, <3>2 DEF Inv, NumberInv
    <3>3. CASE m = n BY <1>3, <1>4, <1>5, <3>3
    <3> QED BY <1>6, <3>1, <3>2, <3>3
  <2>3. \A a \in asked' : a < identifier' /\ (pc' = "send" => a # op'.id)
    BY <1>2, <1>4 DEF Inv, NumberInv
  <2>4. pc' = "send" => op'.id < identifier' BY <1>4 DEF Inv, NumberInv
  <2> QED BY <2>1, <2>2, <2>3, <2>4 DEF NumberInv
<1> QED BY <1>2, <1>3, <1>8, MessagePut

\* DeviceContinues
LEMMA DeviceContinuesKeeps ==
  ASSUME Inv, NEW f \in todo, DeviceContinues(f)
  PROVE  Inv'
<1>1. /\ wire' = Append(wire, f) /\ todo' = todo \ {f} /\ UNCHANGED <<sent, asked>>
      /\ UNCHANGED <<identifier, tables, call, outbound_torn, history>>
  BY DEF DeviceContinues
<1>2. f \in FrameType /\ OfSent(f) /\ f.idx > 0 BY DEF Inv, TypeInv, FrameInv
<1>3. OfSent(f)' BY <1>1, <1>2 DEF OfSent
<1>4. /\ ControlInv' /\ ReadInv' /\ MailInv' /\ wire' \in Seq(FrameType)
      /\ \A i \in 1 .. Len(wire') : OfSent(wire[i])'
      /\ \A i, j \in 1 .. Len(wire') : wire'[i].idx = 0 /\ wire'[i] = wire'[j] => i = j
  <2>1. f.idx # 0 BY <1>2 DEF FrameType
  <2> QED BY <1>1, <1>2, <1>3, <2>1, FramePut, SentKept DEF Inv
<1>5. FrameInv' BY <1>1, <1>4 DEF FrameInv, OfSent, Inv
<1>6. NumberInv'
  <2>1. Events' = Events BY <1>1 DEF Events
  <2> QED BY <1>1, <2>1 DEF Inv, NumberInv, call
<1>7. TypeInv' BY <1>1, <1>4 DEF Inv, TypeInv, tables, call, history
<1> QED BY <1>4, <1>5, <1>6, <1>7 DEF Inv, MailInv

-----------------------------------------------------------------------------
\* The invariant.

\* A fresh connection satisfies the invariant.
LEMMA InitInv == Init => Inv
<1> SUFFICES ASSUME Init PROVE Inv OBVIOUS
<1>1. TypeInv
  BY DEF Init, TypeInv, NoOp, NoFrame, NoPending, FrameType
<1>2. ControlInv BY DEF Init, ControlInv
<1>3. 1 .. Len(<<>>) = {} /\ Range(<<>>) = {} BY DEF Range
<1>4. NumberInv BY <1>3 DEF Init, NumberInv
<1>5. FrameInv BY <1>3 DEF Init, FrameInv
<1>6. ReadInv BY <1>3 DEF Init, ReadInv, Inj, NoPending
<1>7. PlaceInv
  <2>1. Answered = {} /\ Current = {} BY DEF Init, Answered, Current
  <2>2. Range(pending_replies) = {} /\ DOMAIN pending_replies = {} BY DEF Init, NoPending, Range
  <2> QED BY <1>3, <2>1, <2>2 DEF Init, PlaceInv, Split
<1>8. OrderInv
  <2>1. Current = {} BY DEF Init, Current
  <2> QED BY <1>3, <2>1 DEF Init, OrderInv
<1>9. AckInv /\ AnswerInv BY <1>3 DEF Init, AckInv, AnswerInv
<1> QED BY <1>1, <1>2, <1>4, <1>5, <1>6, <1>7, <1>8, <1>9 DEF Inv

\* Every step keeps the invariant.
LEMMA NextInv == Inv /\ [Next]_vars => Inv'
<1> SUFFICES ASSUME Inv, [Next]_vars PROVE Inv' OBVIOUS
<1>1. CASE Client
  <2>1. CASE \E k \in {"call", "async"} : Start(k) BY <2>1, StartKeeps
  <2>2. CASE Sent BY <2>2, SentKeeps
  <2>3. CASE RecvQueued BY <2>3, RecvQueuedKeeps
  <2>4. CASE RecvFresh BY <2>4, RecvFreshKeeps
  <2>5. CASE AckWritten BY <2>5, AckWrittenKeeps
  <2>6. CASE ReadHeader BY <2>6, ReadHeaderKeeps
  <2>7. CASE ReadBody BY <2>7, ReadBodyKeeps
  <2>8. CASE ReadGarbage BY <2>8, ReadGarbageKeeps
  <2> QED BY <1>1, <2>1, <2>2, <2>3, <2>4, <2>5, <2>6, <2>7, <2>8 DEF Client
<1>2. CASE Device
  <2>1. CASE \E id \in asked, s \in ReplyShapes : DeviceReplies(id, s) BY <2>1, DeviceRepliesKeeps
  <2>2. CASE \E e \in BOOLEAN, s \in EventShapes : DeviceNotifies(e, s) BY <2>2, DeviceNotifiesKeeps
  <2>3. CASE \E f \in todo : DeviceContinues(f) BY <2>3, DeviceContinuesKeeps
  <2> QED BY <1>2, <2>1, <2>2, <2>3 DEF Device
<1>3. CASE IoError BY <1>3, IoErrorKeeps
<1>4. CASE Cancel BY <1>4, CancelKeeps
<1>5. CASE UNCHANGED vars
  <2>1. /\ UNCHANGED <<identifier, tables, call, transport, device, history>>
        /\ UNCHANGED <<pending_replies, queued_messages, fragments, op, pc, cur, wire, outbound_torn,
                       sent, todo, asked, completed, answered, delivered, lost, acked>>
    BY <1>5 DEF vars, tables, call, transport, device, history
  <2>2. MailInv'
    <3>1. Current' = Current BY <2>1 DEF Current
    <3> QED BY <2>1, <3>1, MailKept, SentKept DEF Inv, MailInv
  <2>3. ReadInv'
    <3>1. Grows /\ BegunKept BY <2>1, SentKept DEF Inv, BegunKept
    <3>2. pc' = "body" => BodyInv' BY <2>1, <3>1, BodyKept DEF Inv
    <3> QED BY <2>1, <3>1, <3>2, ReadKept DEF Inv
  <2>4. NumberInv'
    <3>1. Events' = Events BY <2>1 DEF Events
    <3> QED BY <2>1, <3>1 DEF Inv, NumberInv
  <2>5. FrameInv' BY <2>1, FramesKept DEF Inv
  <2>6. TypeInv' /\ ControlInv' BY <2>1 DEF Inv, TypeInv, ControlInv
  <2> QED BY <2>2, <2>3, <2>4, <2>5, <2>6 DEF Inv, MailInv
<1> QED BY <1>1, <1>2, <1>3, <1>4, <1>5 DEF Next

\* The invariant holds in every state of every behaviour.
LEMMA Invariance == Spec => []Inv
BY InitInv, NextInv, PTL DEF Spec

-----------------------------------------------------------------------------
(***************************************************************************)
(* The properties.                                                         *)
(***************************************************************************)

\* recv hands messages out in the order in which they became complete.
LEMMA InvOrdered == Inv => DeliveredInOrder
<1> SUFFICES ASSUME Inv, NEW i \in DOMAIN delivered, NEW j \in DOMAIN delivered, i < j
             PROVE  Place(delivered[i]) < Place(delivered[j])
  BY DEF DeliveredInOrder
<1>1. /\ completed \in Seq(Nat) /\ DOMAIN completed = 1 .. Len(completed)
      /\ DOMAIN delivered = 1 .. Len(delivered)
  BY Elements DEF Inv, TypeInv
<1>2. PICK a, b \in 1 .. Len(completed) : a < b /\ completed[a] = delivered[i] /\ completed[b] = delivered[j]
  BY <1>1 DEF Inv, OrderInv, Before
<1>3. ASSUME NEW k \in 1 .. Len(completed) PROVE Place(completed[k]) = k
  <2>1. Place(completed[k]) \in 1 .. Len(completed) /\ completed[Place(completed[k])] = completed[k]
    BY <1>1 DEF Place
  <2> QED BY <2>1 DEF Inv, ReadInv, Inj
<1> QED BY <1>2, <1>3

\* Every complete message is in exactly one place.
LEMMA InvSomewhere == Inv => EveryMessageSomewhere
<1> DEFINE places == << Answered, Range(delivered), Range(pending_replies), Range(queued_messages),
                        lost, Current >>
<1> SUFFICES ASSUME Inv, NEW m \in Range(completed)
             PROVE  Cardinality({i \in DOMAIN places : m \in places[i]}) = 1
  BY DEF EveryMessageSomewhere, Answered, Current
<1>1. Split(Range(completed), Answered, Range(delivered), Range(pending_replies),
            Range(queued_messages), lost, Current)
  BY DEF Inv, PlaceInv
<1>2. DOMAIN places = 1 .. 6 OBVIOUS
<1>3. /\ places[1] = Answered /\ places[2] = Range(delivered) /\ places[3] = Range(pending_replies)
      /\ places[4] = Range(queued_messages) /\ places[5] = lost /\ places[6] = Current
  OBVIOUS
<1> HIDE DEF places
<1>4. \E k \in 1 .. 6 : m \in places[k] BY <1>1, <1>3 DEF Split
<1>5. \A j, k \in 1 .. 6 : m \in places[j] /\ m \in places[k] => j = k
  BY <1>1, <1>3 DEF Split
<1>6. PICK k \in 1 .. 6 : m \in places[k] BY <1>4
<1>7. {i \in DOMAIN places : m \in places[i]} = {k} BY <1>2, <1>5, <1>6
<1> QED BY <1>7, FS_Singleton

\* A call returns the reply to its own request (method_call, wait_for_reply), whatever
\* the device numbers alike and however late the replies to dropped calls come.
THEOREM RepliesMatched == Spec => []RepliesMatch
<1>1. Inv => RepliesMatch BY DEF Inv, AnswerInv, RepliesMatch
<1> QED BY <1>1, Invariance, PTL

\* A message that a call queues (queue_message) has been acknowledged if the device
\* wants that, unless a dropped write has torn the outbound stream.
THEOREM QueuedAreAcknowledged == Spec => []QueuedAcknowledged
<1>1. Inv => QueuedAcknowledged
  <2> SUFFICES ASSUME Inv, NEW m \in Range(queued_messages), sent[m].expects
               PROVE  m \in acked \/ outbound_torn
    BY DEF QueuedAcknowledged
  <2>1. In(queued_messages, m) BY RangeIn DEF Inv, TypeInv
  <2> QED BY <2>1 DEF In, Inv, AckInv
<1> QED BY <1>1, Invariance, PTL

\* No message is lost, doubled, mixed with another or overtaken between the wire and
\* its caller: every complete message is in exactly one place, recv keeps their order,
\* and an accumulator never holds a fragment of another message.
THEOREM MessagesStayIntact == Spec => []MessagesIntact
<1>1. Inv => FragmentsIntact BY DEF Inv, ReadInv, AccInv, FragmentsIntact
<1>2. Inv => MessagesIntact BY <1>1, InvOrdered, InvSomewhere DEF MessagesIntact
<1> QED BY <1>2, Invariance, PTL
=============================================================================
