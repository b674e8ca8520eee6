------------------------- MODULE XpcConnectionProof -------------------------
(***************************************************************************)
(* Proofs about XpcConnection, for every set of streams, every size and    *)
(* every limit.                                                            *)
(*                                                                         *)
(* The argument is about the bytes of a stream that are not read yet,      *)
(* buffered or in transit: each of them fixes the bytes around it that     *)
(* belong to the same message, and the last message is whole (Shape).  So  *)
(* a reader that starts at a boundary reads one message and comes out at   *)
(* the next boundary (BodyInv), and one that stops in between leaves its   *)
(* marker up, after which nothing is read (ControlInv, AlignInv).          *)
(* Dropping any number of bytes keeps the shape, so also a stream that     *)
(* overflowed never mixes two messages; it only loses its boundary.  Every *)
(* message is then followed from one place to the next (PlaceInv).         *)
(***************************************************************************)
EXTENDS XpcConnection, SequenceTheorems, WellFoundedInduction, TLAPS

Msg == [stream : Streams, id : Nat, len : Nat, kind : Kinds]
UnitType == [seq : Nat, part : Nat]

\* Units of message m.
Span(sq, m) == HeaderLen + sq[m].len

\* Unit i, and every unit of its message that is there is in its place.
Placed(u, i, sq) ==
    /\ u[i].seq \in 1 .. Len(sq) /\ u[i].part < Span(sq, u[i].seq)
    /\ i + Span(sq, u[i].seq) - u[i].part <= Len(u) + 1
    /\ \A j \in 1 .. Len(u) :
         i - u[i].part <= j /\ j < i - u[i].part + Span(sq, u[i].seq) =>
            u[j] = Unit(u[i].seq, u[i].part + j - i)

Distinct(u) == \A i, j \in 1 .. Len(u) : u[i] = u[j] => i = j

Shape(u, sq) ==
    /\ u \in Seq(UnitType) /\ Distinct(u)
    /\ \A i \in 1 .. Len(u) : Placed(u, i, sq)

TypeInv ==
    /\ sent \in Seq(Msg)
    /\ bufs \in [Streams -> Seq(UnitType)] /\ wire \in [Streams -> Seq(UnitType)]
    /\ pending_messages \in [Streams -> Seq(Nat)]
    /\ msg_id \in Nat \ {0} /\ reply_id \in Nat /\ left \in Nat /\ header \in Nat
    /\ request_units \in Nat
    /\ target \in Streams \cup {NoStream} /\ ended \subseteq Streams
    /\ returned \subseteq [seq : Nat, op : {"none", "call", "recv", "any"}, id : Nat]

ControlInv ==
    /\ pc \in {"idle", "send", "header", "body", "any"}
    /\ pc = "idle" => op = "none"
    /\ pc = "send" => op \in {"send", "call"} /\ sending_message_in_progress
    /\ pc \in {"header", "body"} => target \in Streams /\ op \in {"call", "recv", "any"}
    /\ pc = "any" => op = "any"
    /\ op = "call" => target \in Streams
    /\ pc = "body" <=> header # NoMessage
    /\ pc = "body" => message_read_in_progress
    /\ pc # "idle" => ~framer_dead
    /\ sending_message_in_progress => pc \in {"idle", "send"}
    /\ message_read_in_progress => pc \in {"idle", "body"}

\* What the device has of a request.
RequestInv ==
    /\ pc = "send" => left <= SendLen /\ request_units = (IF left = 0 THEN 0 ELSE SendLen - left)
    /\ ~sending_message_in_progress => request_units = 0
    /\ "MIXED_REQUEST" \notin faults

StreamInv ==
    \A s \in Streams :
       /\ Shape(Unread(s), sent)
       /\ \A i \in 1 .. Len(Unread(s)) : sent[Unread(s)[i].seq].stream = s

\* The message that is being read, and where its stream stands.
BodyInv ==
    pc = "body" =>
       /\ header \in 1 .. Len(sent) /\ left <= sent[header].len /\ sent[header].stream = target
       /\ Unread(target) = <<>> => left = 0 \/ target \in ended
       /\ Unread(target) # <<>> =>
            IF left = 0 THEN Unread(target)[1].part = 0
            ELSE Unread(target)[1] = Unit(header, Span(sent, header) - left)

AlignInv ==
    /\ \A s \in Streams \ overflowed :
         ~message_read_in_progress \/ (pc = "body" /\ s # target) => Aligned(Unread(s))
    /\ "SPLICED" \in faults => overflowed # {}

\* A message is in one place.
Apart(a, b, c, d, e) ==
    /\ a \cap b = {} /\ a \cap c = {} /\ a \cap d = {} /\ a \cap e = {}
    /\ b \cap c = {} /\ b \cap d = {} /\ b \cap e = {}
    /\ c \cap d = {} /\ c \cap e = {} /\ d \cap e = {}

Everywhere == InTransit \cup BeingRead \cup Parked \cup Taken \cup lost

PlaceInv ==
    /\ Apart(InTransit, BeingRead, Parked, Taken, lost)
    /\ Everywhere \subseteq 1 .. Len(sent)
    /\ pc = "body" \/ ~message_read_in_progress => 1 .. Len(sent) \subseteq Everywhere
    /\ \A s \in Streams : \A i \in 1 .. Len(Unread(s)) : Unread(s)[i].seq \notin Parked \cup Taken
    /\ "TWICE" \notin faults

Inj(q) == \A i, j \in 1 .. Len(q) : q[i] = q[j] => i = j

ParkInv ==
    \A s \in Streams :
       /\ Inj(pending_messages[s])
       /\ \A m \in ToSet(pending_messages[s]) : m \in 1 .. Len(sent) /\ sent[m].stream = s

\* A call's identifier is new, and what a call returned has it.
ReplyInv ==
    /\ op = "call" => reply_id < msg_id
    /\ \A r \in returned :
         r.op = "call" => /\ sent[r.seq].id = r.id
                          /\ r.id < msg_id /\ (op = "call" => r.id # reply_id)
                          /\ \A q \in returned : q.op = "call" /\ q.id = r.id => q = r

Inv == /\ TypeInv /\ ControlInv /\ RequestInv /\ StreamInv /\ BodyInv /\ AlignInv
       /\ PlaceInv /\ ParkInv /\ ReplyInv

USE StreamAssumption, SizeAssumption

-----------------------------------------------------------------------------
\* Numbers and sequences.

\* A set of numbers has a least one: what Min finds is in it.
LEMMA MinIn ==
  ASSUME NEW S \in SUBSET Nat, S # {}
  PROVE  Min(S) \in S /\ \A y \in S : Min(S) <= y
<1>1. IsWellFoundedOn(OpToRel(<, Nat), Nat) BY NatLessThanWellFounded
<1>2. PICK x \in S : \A y \in S : ~(<<y, x>> \in OpToRel(<, Nat)) BY <1>1, WFMin, Zenon
<1>3. \A y \in S : ~(y < x)
  <2> TAKE y \in S
  <2>1. y \in Nat /\ x \in Nat OBVIOUS
  <2>2. <<y, x>> \notin OpToRel(<, Nat) BY <1>2
  <2>3. OpToRel(<, Nat) = {ss \in Nat \X Nat : ss[1] < ss[2]} BY DEF OpToRel
  <2> QED BY <2>1, <2>2, <2>3
<1>4. \A y \in S : x <= y BY <1>3
<1> QED BY <1>4 DEF Min

\* The device counts the writes of a request, and starts again after the last one.
LEMMA ModSmall ==
  ASSUME NEW n \in Nat \ {0}, NEW k \in 1 .. n
  PROVE  k % n = IF k = n THEN 0 ELSE k
OBVIOUS

\* Only the empty sequence has length zero.
LEMMA EmptyLen ==
  ASSUME NEW S, NEW q \in Seq(S)
  PROVE  /\ Len(q) \in Nat /\ (Len(q) = 0 <=> q = <<>>)
         /\ \A i \in 1 .. Len(q) : q[i] \in S
OBVIOUS

\* u without its first k elements.
Without(u, k) == SubSeq(u, k + 1, Len(u))

\* What is left of a sequence without a part of its front.
LEMMA WithoutFacts ==
  ASSUME NEW S, NEW u \in Seq(S), NEW k \in 0 .. Len(u)
  PROVE  /\ Without(u, k) \in Seq(S) /\ Len(Without(u, k)) = Len(u) - k
         /\ \A i \in 1 .. Len(u) - k : Without(u, k)[i] = u[i + k]
<1>1. Len(u) \in Nat /\ k \in Nat /\ k <= Len(u) BY EmptyLen
<1>2. \A i \in k + 1 .. Len(u) : u[i] \in S BY <1>1, EmptyLen
<1> DEFINE v == SubSeq(u, k + 1, Len(u))
<1>3. /\ v \in Seq(S)
      /\ Len(v) = IF k + 1 <= Len(u) THEN Len(u) - (k + 1) + 1 ELSE 0
      /\ \A i \in 1 .. Len(u) - (k + 1) + 1 : v[i] = u[k + 1 + i - 1]
  BY <1>1, <1>2, SubSeqProperties
<1> HIDE DEF v
<1>4. Len(v) = Len(u) - k BY <1>1, <1>3
<1>5. ASSUME NEW i \in 1 .. Len(u) - k PROVE v[i] = u[i + k]
  <2>1. i \in 1 .. Len(u) - (k + 1) + 1 /\ k + 1 + i - 1 = i + k BY <1>1, <1>5
  <2> QED BY <1>3, <2>1
<1> QED BY <1>3, <1>4, <1>5 DEF v, Without

\* Sequences with the same elements are the same.
LEMMA SameElements ==
  ASSUME NEW S, NEW u \in Seq(S), NEW v \in Seq(S), Len(u) = Len(v),
         \A i \in 1 .. Len(u) : u[i] = v[i]
  PROVE  u = v
<1>1. DOMAIN u = 1 .. Len(u) /\ DOMAIN v = 1 .. Len(v) OBVIOUS
<1>2. u = [i \in DOMAIN u |-> u[i]] /\ v = [i \in DOMAIN v |-> v[i]] OBVIOUS
<1> QED BY <1>1, <1>2

\* Concatenation is associative.
LEMMA ConcatAssoc ==
  ASSUME NEW S, NEW a \in Seq(S), NEW b \in Seq(S), NEW c \in Seq(S)
  PROVE  (a \o b) \o c = a \o (b \o c)
<1> DEFINE u == a \o b
           v == b \o c
           x == u \o c
           y == a \o v
<1>1. Len(a) \in Nat /\ Len(b) \in Nat /\ Len(c) \in Nat BY EmptyLen
<1>2. /\ u \in Seq(S) /\ Len(u) = Len(a) + Len(b)
      /\ \A i \in 1 .. Len(a) + Len(b) : u[i] = IF i <= Len(a) THEN a[i] ELSE b[i - Len(a)]
  BY ConcatProperties
<1>3. /\ v \in Seq(S) /\ Len(v) = Len(b) + Len(c)
      /\ \A i \in 1 .. Len(b) + Len(c) : v[i] = IF i <= Len(b) THEN b[i] ELSE c[i - Len(b)]
  BY ConcatProperties
<1> HIDE DEF u, v
<1>4. /\ x \in Seq(S) /\ Len(x) = Len(u) + Len(c)
      /\ \A i \in 1 .. Len(u) + Len(c) : x[i] = IF i <= Len(u) THEN u[i] ELSE c[i - Len(u)]
  BY <1>2, ConcatProperties
<1>5. /\ y \in Seq(S) /\ Len(y) = Len(a) + Len(v)
      /\ \A i \in 1 .. Len(a) + Len(v) : y[i] = IF i <= Len(a) THEN a[i] ELSE v[i - Len(a)]
  BY <1>3, ConcatProperties, ZenonT(60)
<1> HIDE DEF x, y
<1>6. Len(x) = Len(y) BY <1>1, <1>2, <1>3, <1>4, <1>5
<1>7. ASSUME NEW i \in 1 .. Len(x) PROVE x[i] = y[i]
  <2>1. i \in 1 .. Len(u) + Len(c) /\ i \in 1 .. Len(a) + Len(v) BY <1>4, <1>5, <1>6
  <2>2. x[i] = IF i <= Len(u) THEN u[i] ELSE c[i - Len(u)] BY <1>4, <2>1
  <2>3. y[i] = IF i <= Len(a) THEN a[i] ELSE v[i - Len(a)] BY <1>5, <2>1
  <2>4. CASE i <= Len(a)
    <3>1. i <= Len(u) /\ i \in 1 .. Len(a) + Len(b) BY <1>1, <1>2, <2>4
    <3> QED BY <1>2, <2>2, <2>3, <2>4, <3>1
  <2>5. CASE ~(i <= Len(a)) /\ i <= Len(u)
    <3>1. /\ i \in 1 .. Len(a) + Len(b) /\ i - Len(a) \in 1 .. Len(b) + Len(c)
          /\ i - Len(a) <= Len(b)
      BY <1>1, <1>2, <2>5
    <3>2. u[i] = b[i - Len(a)] BY <1>2, <2>5, <3>1
    <3>3. v[i - Len(a)] = b[i - Len(a)] BY <1>3, <3>1
    <3> QED BY <2>2, <2>3, <2>5, <3>2, <3>3
  <2>6. CASE ~(i <= Len(u))
    <3>1. /\ ~(i <= Len(a)) /\ i - Len(a) \in 1 .. Len(b) + Len(c) /\ ~(i - Len(a) <= Len(b))
          /\ i - Len(a) - Len(b) = i - Len(u)
      BY <1>1, <1>2, <1>3, <2>1, <2>6
    <3>2. v[i - Len(a)] = c[i - Len(u)] BY <1>3, <3>1
    <3> QED BY <2>2, <2>3, <2>6, <3>1, <3>2
  <2> QED BY <2>4, <2>5, <2>6
<1> QED BY <1>4, <1>5, <1>6, <1>7, SameElements DEF u, v, x, y

\* A reader consumes what is buffered, then what is in transit.
LEMMA WithoutConcat ==
  ASSUME NEW S, NEW a \in Seq(S), NEW b \in Seq(S), NEW k \in 0 .. Len(a)
  PROVE  Without(a, k) \o b = Without(a \o b, k)
<1> DEFINE u == a \o b
           v == Without(a, k)
           w == Without(u, k)
           x == v \o b
<1>1. Len(a) \in Nat /\ Len(b) \in Nat /\ k \in Nat /\ k <= Len(a) BY EmptyLen
<1>2. /\ u \in Seq(S) /\ Len(u) = Len(a) + Len(b)
      /\ \A i \in 1 .. Len(a) + Len(b) : u[i] = IF i <= Len(a) THEN a[i] ELSE b[i - Len(a)]
  BY ConcatProperties
<1>3. /\ v \in Seq(S) /\ Len(v) = Len(a) - k /\ \A i \in 1 .. Len(a) - k : v[i] = a[i + k]
  BY WithoutFacts
<1> HIDE DEF u, v
<1>4. k \in 0 .. Len(u) BY <1>1, <1>2
<1>5. /\ w \in Seq(S) /\ Len(w) = Len(u) - k /\ \A i \in 1 .. Len(u) - k : w[i] = u[i + k]
  BY <1>2, <1>4, WithoutFacts, ZenonT(60)
<1>6. /\ x \in Seq(S) /\ Len(x) = Len(v) + Len(b)
      /\ \A i \in 1 .. Len(v) + Len(b) : x[i] = IF i <= Len(v) THEN v[i] ELSE b[i - Len(v)]
  BY <1>3, ConcatProperties
<1> HIDE DEF w, x
<1>7. Len(x) = Len(w) BY <1>1, <1>2, <1>3, <1>5, <1>6
<1>8. ASSUME NEW i \in 1 .. Len(x) PROVE x[i] = w[i]
  <2>a. \A p, q \in Nat : \A c \in 0 .. p : \A j \in 1 .. (p - c) + q :
           j \in 1 .. (p + q) - c /\ j + c \in 1 .. p + q /\ (j <= p - c <=> j + c <= p)
    OBVIOUS
  <2>b. i \in 1 .. (Len(a) - k) + Len(b) BY <1>3, <1>6
  <2>c. /\ i \in 1 .. (Len(a) + Len(b)) - k /\ i + k \in 1 .. Len(a) + Len(b)
        /\ (i <= Len(a) - k <=> i + k <= Len(a))
    BY ONLY <1>1, <2>a, <2>b, k \in 0 .. Len(a)
  <2>1. /\ i \in 1 .. Len(v) + Len(b) /\ i \in 1 .. Len(u) - k /\ i + k \in 1 .. Len(a) + Len(b)
        /\ (i <= Len(v) <=> i + k <= Len(a))
    BY <1>2, <1>3, <2>b, <2>c
  <2>0. w[i] = u[i + k] BY <1>5, <2>1
  <2>2. w[i] = IF i + k <= Len(a) THEN a[i + k] ELSE b[i + k - Len(a)] BY <1>2, <2>0, <2>1
  <2>3. x[i] = IF i <= Len(v) THEN v[i] ELSE b[i - Len(v)] BY <1>6, <2>1
  <2>d. i \in Nat /\ i >= 1 /\ Len(a) - k \in Int BY <1>1, <2>b
  <2>e. i <= Len(v) => i \in 1 .. Len(a) - k BY ONLY <1>3, <2>d
  <2>4. i <= Len(v) => v[i] = a[i + k] BY ONLY <1>3, <2>e
  <2>5. i - Len(v) = i + k - Len(a) BY <1>1, <1>3, <2>1
  <2>6. CASE i <= Len(v) BY <2>1, <2>2, <2>3, <2>4, <2>6
  <2>7. CASE ~(i <= Len(v)) BY <2>1, <2>2, <2>3, <2>5, <2>7
  <2> QED BY <2>6, <2>7
<1> QED BY <1>5, <1>6, <1>7, <1>8, SameElements DEF u, v, w, x

\* A frame moves the front of what is in transit to the end of what is buffered.
LEMMA CarryConcat ==
  ASSUME NEW S, NEW a \in Seq(S), NEW b \in Seq(S), NEW k \in 0 .. Len(b)
  PROVE  (a \o SubSeq(b, 1, k)) \o Without(b, k) = a \o b
<1>1. Len(b) \in Nat /\ k \in Nat /\ k <= Len(b) BY EmptyLen
<1>2. \A i \in 1 .. k : b[i] \in S BY <1>1, EmptyLen
<1>3. SubSeq(b, 1, k) \in Seq(S) BY <1>1, <1>2, SubSeqProperties
<1>4. Without(b, k) \in Seq(S) BY WithoutFacts
<1>5. /\ 1 \in 1 .. Len(b) + 1 /\ k \in 1 - 1 .. Len(b) /\ Len(b) \in k .. Len(b) BY <1>1
<1>6. SubSeq(b, 1, k) \o SubSeq(b, k + 1, Len(b)) = SubSeq(b, 1, Len(b))
  BY <1>5, ConcatAdjacentSubSeq
<1>7. SubSeq(b, 1, Len(b)) = b BY SubSeqFull
<1>8. PICK f \in Seq(S) : f = SubSeq(b, 1, k) BY <1>3
<1>9. PICK g \in Seq(S) : g = Without(b, k) BY <1>4
<1>10. f \o g = b BY <1>6, <1>7, <1>8, <1>9 DEF Without
<1>11. (a \o f) \o g = a \o (f \o g) BY ONLY a \in Seq(S), f \in Seq(S), g \in Seq(S), ConcatAssoc, SMTT(30)
<1> QED BY <1>8, <1>9, <1>10, <1>11

\* What is left of a stream whose buffer is dropped with the frame that arrives.
LEMMA DropConcat ==
  ASSUME NEW S, NEW a \in Seq(S), NEW b \in Seq(S), NEW k \in 0 .. Len(b)
  PROVE  <<>> \o Without(b, k) = Without(a \o b, Len(a) + k)
<1> DEFINE u == a \o b
           v == Without(b, k)
           w == Without(u, Len(a) + k)
<1>1. Len(a) \in Nat /\ Len(b) \in Nat /\ k \in Nat /\ k <= Len(b) BY EmptyLen
<1>2. /\ u \in Seq(S) /\ Len(u) = Len(a) + Len(b)
      /\ \A i \in 1 .. Len(a) + Len(b) : u[i] = IF i <= Len(a) THEN a[i] ELSE b[i - Len(a)]
  BY ConcatProperties
<1>3. /\ v \in Seq(S) /\ Len(v) = Len(b) - k /\ \A i \in 1 .. Len(b) - k : v[i] = b[i + k]
  BY WithoutFacts
<1> HIDE DEF u, v
<1>4. Len(a) + k \in 0 .. Len(u) BY <1>1, <1>2
<1>5. /\ w \in Seq(S) /\ Len(w) = Len(u) - (Len(a) + k)
      /\ \A i \in 1 .. Len(u) - (Len(a) + k) : w[i] = u[i + (Len(a) + k)]
  BY <1>2, <1>4, WithoutFacts, ZenonT(60)
<1> HIDE DEF w
<1>6. Len(v) = Len(w) BY <1>1, <1>2, <1>3, <1>5
<1>7. ASSUME NEW i \in 1 .. Len(v) PROVE v[i] = w[i]
  <2>1. /\ i \in 1 .. Len(b) - k /\ i \in 1 .. Len(u) - (Len(a) + k)
        /\ i + (Len(a) + k) \in 1 .. Len(a) + Len(b)
        /\ ~(i + (Len(a) + k) <= Len(a)) /\ i + (Len(a) + k) - Len(a) = i + k
    BY <1>1, <1>2, <1>3, <1>5, <1>6
  <2>2. w[i] = u[i + (Len(a) + k)] BY <1>5, <2>1
  <2>3. u[i + (Len(a) + k)] = b[i + k] BY <1>2, <2>1
  <2> QED BY <1>3, <2>1, <2>2, <2>3
<1>8. v = w BY <1>3, <1>5, <1>6, <1>7, SameElements
<1>9. <<>> \o v = v BY <1>3, ConcatEmptySeq
<1> QED BY <1>8, <1>9 DEF u, v, w

-----------------------------------------------------------------------------
\* The shape of a stream.

\* Messages that begin in u, and messages u has a part of.
Heads(u) == {m \in Nat : \E i \in 1 .. Len(u) : u[i] = Unit(m, 0)}
Seqs(u) == {m \in Nat : \E i \in 1 .. Len(u) : u[i].seq = m}

\* A message that was sent has a stream, an ID and a length of at least a header.
LEMMA SpanFacts ==
  ASSUME NEW sq \in Seq(Msg), NEW m \in 1 .. Len(sq)
  PROVE  /\ sq[m].len \in Nat /\ sq[m].stream \in Streams /\ sq[m].id \in Nat /\ sq[m] \in Msg
         /\ Span(sq, m) \in Nat /\ Span(sq, m) >= HeaderLen /\ Span(sq, m) >= 1
         /\ HeaderLen \in Nat /\ HeaderLen >= 1
<1>1. sq[m] \in Msg BY EmptyLen
<1>2. sq[m].len \in Nat /\ sq[m].stream \in Streams /\ sq[m].id \in Nat BY <1>1 DEF Msg
<1>3. HeaderLen \in Nat /\ HeaderLen >= 1 OBVIOUS
<1> QED BY <1>1, <1>2, <1>3 DEF Span

\* What a unit of an unread stream says of the units around it.
LEMMA PlacedFacts ==
  ASSUME NEW sq \in Seq(Msg), NEW u, Shape(u, sq), NEW i \in 1 .. Len(u)
  PROVE  /\ Len(u) \in Nat /\ u[i] \in UnitType /\ u[i].seq \in Nat /\ u[i].part \in Nat
         /\ u[i] = Unit(u[i].seq, u[i].part)
         /\ u[i].seq \in 1 .. Len(sq) /\ u[i].part < Span(sq, u[i].seq)
         /\ Span(sq, u[i].seq) \in Nat
         /\ i + Span(sq, u[i].seq) - u[i].part <= Len(u) + 1
         /\ \A j \in 1 .. Len(u) :
              i - u[i].part <= j /\ j < i - u[i].part + Span(sq, u[i].seq) =>
                u[j] = Unit(u[i].seq, u[i].part + j - i)
<1>1. u \in Seq(UnitType) /\ Placed(u, i, sq) BY DEF Shape
<1>2. Len(u) \in Nat /\ u[i] \in UnitType BY <1>1, EmptyLen
<1>3. /\ u[i].seq \in Nat /\ u[i].part \in Nat /\ u[i] = Unit(u[i].seq, u[i].part)
  BY <1>2 DEF UnitType, Unit
<1>4. u[i].seq \in 1 .. Len(sq) BY <1>1 DEF Placed
<1>5. Span(sq, u[i].seq) \in Nat BY <1>4, SpanFacts
<1> QED BY <1>1, <1>2, <1>3, <1>4, <1>5 DEF Placed

\* A unit is its message and its place in it.
LEMMA UnitFacts ==
  ASSUME NEW m, NEW p
  PROVE  /\ Unit(m, p).seq = m /\ Unit(m, p).part = p
         /\ \A n, q : Unit(m, p) = Unit(n, q) <=> m = n /\ p = q
BY DEF Unit

\* Without a part of its front a stream keeps its shape: whole messages are cut at one
\* place only.
LEMMA ShapeWithout ==
  ASSUME NEW sq \in Seq(Msg), NEW u, Shape(u, sq), NEW k \in 0 .. Len(u)
  PROVE  Shape(Without(u, k), sq)
<1> DEFINE v == Without(u, k)
<1>0. u \in Seq(UnitType) BY DEF Shape
<1>1. Len(u) \in Nat /\ k \in Nat /\ k <= Len(u) BY <1>0, EmptyLen
<1>2. /\ v \in Seq(UnitType) /\ Len(v) = Len(u) - k
      /\ \A i \in 1 .. Len(u) - k : v[i] = u[i + k]
  BY <1>0, WithoutFacts
<1> HIDE DEF v
<1>3. ASSUME NEW i \in 1 .. Len(v) PROVE i + k \in 1 .. Len(u) /\ v[i] = u[i + k]
  BY <1>1, <1>2, <1>3
<1>4. Distinct(v)
  <2> SUFFICES ASSUME NEW i \in 1 .. Len(v), NEW j \in 1 .. Len(v), v[i] = v[j] PROVE i = j
    BY DEF Distinct
  <2>1. i + k = j + k BY <1>3 DEF Shape, Distinct
  <2> QED BY <1>1, <2>1
<1>5. ASSUME NEW i \in 1 .. Len(v) PROVE Placed(v, i, sq)
  <2> DEFINE m == u[i + k].seq
             p == u[i + k].part
             n == Span(sq, m)
  <2>1. i + k \in 1 .. Len(u) /\ v[i] = u[i + k] BY <1>3
  <2>2. /\ m \in 1 .. Len(sq) /\ p \in Nat /\ p < n /\ n \in Nat /\ (i + k) + n - p <= Len(u) + 1
        /\ \A j \in 1 .. Len(u) :
             (i + k) - p <= j /\ j < (i + k) - p + n => u[j] = Unit(m, p + j - (i + k))
    <3>0. PICK e \in 1 .. Len(u) : e = i + k BY <2>1
    <3>1. /\ u[e].seq \in 1 .. Len(sq) /\ u[e].part \in Nat
          /\ u[e].part < Span(sq, u[e].seq) /\ Span(sq, u[e].seq) \in Nat
          /\ e + Span(sq, u[e].seq) - u[e].part <= Len(u) + 1
      BY PlacedFacts
    <3>2. \A j \in 1 .. Len(u) :
            e - u[e].part <= j /\ j < e - u[e].part + Span(sq, u[e].seq) =>
              u[j] = Unit(u[e].seq, u[e].part + j - e)
      BY PlacedFacts
    <3>3. m = u[e].seq /\ p = u[e].part /\ n = Span(sq, u[e].seq) BY <3>0
    <3> QED BY ONLY <3>0, <3>1, <3>2, <3>3
  <2>3. v[i].seq = m /\ v[i].part = p BY <2>1
  <2> HIDE DEF m, p, n
  <2>4. i + n - p <= Len(v) + 1 BY <1>1, <1>2, <2>1, <2>2
  <2>5. ASSUME NEW j \in 1 .. Len(v), i - p <= j, j < i - p + n
        PROVE  v[j] = Unit(m, p + j - i)
    <3>1. j + k \in 1 .. Len(u) /\ v[j] = u[j + k] BY <1>3
    <3>2. /\ (i + k) - p <= j + k /\ j + k < (i + k) - p + n /\ p + (j + k) - (i + k) = p + j - i
      BY <1>1, <1>2, <2>1, <2>2, <2>5
    <3>3. u[j + k] = Unit(m, p + (j + k) - (i + k)) BY <2>2, <3>1, <3>2
    <3> QED BY <3>1, <3>2, <3>3
  <2> QED BY <2>2, <2>3, <2>4, <2>5 DEF Placed, n
<1> QED BY <1>2, <1>4, <1>5 DEF Shape, v

\* Where the messages are that begin in u.
LEMMA HeadsWithout ==
  ASSUME NEW sq \in Seq(Msg), NEW u, Shape(u, sq), NEW k \in 0 .. Len(u)
  PROVE  /\ Heads(Without(u, k)) \subseteq Heads(u) /\ Seqs(Without(u, k)) \subseteq Seqs(u)
         /\ \A m \in Heads(u) : m \in Heads(Without(u, k)) \/ \E i \in 1 .. k : u[i].seq = m
         /\ \A m \in Heads(Without(u, k)) : \A i \in 1 .. k : u[i].seq # m
<1> DEFINE v == Without(u, k)
<1>0. u \in Seq(UnitType) BY DEF Shape
<1>1. Len(u) \in Nat /\ k \in Nat /\ k <= Len(u) BY <1>0, EmptyLen
<1>2. /\ Len(v) = Len(u) - k /\ \A i \in 1 .. Len(u) - k : v[i] = u[i + k]
  BY <1>0, WithoutFacts
<1> HIDE DEF v
<1>3. ASSUME NEW i \in 1 .. Len(v) PROVE i + k \in 1 .. Len(u) /\ i + k > k /\ v[i] = u[i + k]
  BY <1>1, <1>2, <1>3
<1>4. Heads(v) \subseteq Heads(u) BY <1>3 DEF Heads
<1>5. Seqs(v) \subseteq Seqs(u) BY <1>3 DEF Seqs
<1>6. ASSUME NEW m \in Heads(u) PROVE m \in Heads(v) \/ \E i \in 1 .. k : u[i].seq = m
  <2>1. PICK i \in 1 .. Len(u) : m \in Nat /\ u[i] = Unit(m, 0) BY <1>6 DEF Heads
  <2>2. CASE i <= k BY <1>1, <2>1, <2>2, UnitFacts
  <2>3. CASE i > k
    <3>1. i - k \in 1 .. Len(v) /\ (i - k) + k = i BY <1>1, <1>2, <2>3
    <3>2. v[i - k] = Unit(m, 0) BY <1>3, <2>1, <3>1
    <3> QED BY <2>1, <3>1, <3>2 DEF Heads
  <2> QED BY <1>1, <2>2, <2>3
<1>7. ASSUME NEW m \in Heads(v), NEW i \in 1 .. k, u[i].seq = m PROVE FALSE
  <2>1. PICK j \in 1 .. Len(v) : m \in Nat /\ v[j] = Unit(m, 0) BY <1>7 DEF Heads
  <2>2. PICK h \in 1 .. Len(u) : h > k /\ u[h] = Unit(m, 0) BY <1>3, <2>1
  <2> DEFINE p == u[i].part
             n == Span(sq, m)
  <2>3. u[h].seq = m /\ u[h].part = 0 BY <2>2, UnitFacts
  <2>4. /\ n \in Nat /\ h + n <= Len(u) + 1
        /\ \A l \in 1 .. Len(u) : h <= l /\ l < h + n => u[l] = Unit(m, l - h)
    <3>1. /\ Span(sq, u[h].seq) \in Nat
          /\ h + Span(sq, u[h].seq) - u[h].part <= Len(u) + 1
          /\ \A l \in 1 .. Len(u) :
               h - u[h].part <= l /\ l < h - u[h].part + Span(sq, u[h].seq) =>
                 u[l] = Unit(u[h].seq, u[h].part + l - h)
      BY PlacedFacts
    <3>2. n = Span(sq, u[h].seq) BY <2>3
    <3> HIDE DEF n
    <3>3. n \in Nat /\ h + n <= Len(u) + 1 BY <1>1, <2>3, <3>1, <3>2
    <3>4. ASSUME NEW l \in 1 .. Len(u), h <= l, l < h + n PROVE u[l] = Unit(m, l - h)
      <4>1. h - u[h].part = h /\ u[h].part + l - h = l - h BY <1>1, <2>3
      <4> QED BY <2>3, <3>1, <3>2, <3>4, <4>1
    <3> QED BY <3>3, <3>4
  <2>5. i \in 1 .. Len(u) BY <1>1
  <2>6. p \in Nat /\ p < n /\ u[i] = Unit(m, p) BY <1>7, <2>5, PlacedFacts
  <2> HIDE DEF p, n
  <2>7. h + p \in 1 .. Len(u) /\ h <= h + p /\ h + p < h + n /\ (h + p) - h = p
    BY <1>1, <2>4, <2>6, SMTT(30)
  <2>8. u[h + p] = Unit(m, p) BY <2>4, <2>7
  <2>9. h + p = i BY <2>5, <2>6, <2>7, <2>8 DEF Shape, Distinct
  <2> QED BY <1>1, <2>2, <2>6, <2>9
<1> QED BY <1>4, <1>5, <1>6, <1>7 DEF v

\* A message with a part in u begins there, or u starts inside it.
LEMMA SeqsCovered ==
  ASSUME NEW sq \in Seq(Msg), NEW u, Shape(u, sq), NEW i \in 1 .. Len(u)
  PROVE  u[i].seq \in Heads(u) \/ (u[1].part # 0 /\ u[1].seq = u[i].seq)
<1> DEFINE m == u[i].seq
           p == u[i].part
           n == Span(sq, m)
<1>1. /\ Len(u) \in Nat /\ m \in Nat /\ p \in Nat /\ p < n /\ n \in Nat
      /\ \A j \in 1 .. Len(u) : i - p <= j /\ j < i - p + n => u[j] = Unit(m, p + j - i)
  BY PlacedFacts
<1>2. SUFFICES m \in Heads(u) \/ (u[1].part # 0 /\ u[1].seq = m) OBVIOUS
<1> HIDE DEF m, p, n
<1>3. CASE i - p >= 1
  <2>1. i - p \in 1 .. Len(u) /\ i - p <= i - p /\ i - p < i - p + n /\ p + (i - p) - i = 0
    BY <1>1, <1>3
  <2>2. u[i - p] = Unit(m, 0) BY <1>1, <2>1
  <2> QED BY <1>1, <2>1, <2>2 DEF Heads
<1>4. CASE i - p < 1
  <2>1. 1 \in 1 .. Len(u) /\ i - p <= 1 /\ 1 < i - p + n /\ p + 1 - i # 0 BY <1>1, <1>4
  <2>2. u[1] = Unit(m, p + 1 - i) BY <1>1, <2>1
  <2> QED BY <2>1, <2>2, UnitFacts
<1> QED BY <1>1, <1>3, <1>4

\* Reading the front of a stream, up to the end of the message it starts with.
LEMMA ReadFront ==
  ASSUME NEW sq \in Seq(Msg), NEW u, Shape(u, sq), u # <<>>,
         NEW k \in 1 .. Span(sq, u[1].seq) - u[1].part
  PROVE  /\ k <= Len(u)
         /\ \A j \in 1 .. k : u[j] = Unit(u[1].seq, u[1].part + j - 1)
         /\ Without(u, k) # <<>> =>
              IF u[1].part + k = Span(sq, u[1].seq) THEN Without(u, k)[1].part = 0
              ELSE Without(u, k)[1] = Unit(u[1].seq, u[1].part + k)
         /\ Heads(Without(u, k)) = IF u[1].part = 0 THEN Heads(u) \ {u[1].seq} ELSE Heads(u)
<1> DEFINE m == u[1].seq
           p == u[1].part
           n == Span(sq, m)
           v == Without(u, k)
<1>0. u \in Seq(UnitType) BY DEF Shape
<1>1. Len(u) \in Nat /\ 1 \in 1 .. Len(u) BY <1>0, EmptyLen
<1>2. /\ m \in Nat /\ p \in Nat /\ p < n /\ n \in Nat /\ 1 + n - p <= Len(u) + 1 /\ u[1] = Unit(m, p)
      /\ m \in 1 .. Len(sq)
      /\ \A j \in 1 .. Len(u) : 1 - p <= j /\ j < 1 - p + n => u[j] = Unit(m, p + j - 1)
  BY <1>1, PlacedFacts
<1>3. k \in 1 .. n - p /\ (u[1].part = 0 <=> p = 0) OBVIOUS
<1>30. k <= Len(u) /\ k \in 0 .. Len(u) /\ k \in Nat BY <1>1, <1>2, <1>3
<1>4. /\ v \in Seq(UnitType) /\ Len(v) = Len(u) - k /\ \A i \in 1 .. Len(u) - k : v[i] = u[i + k]
  BY <1>0, <1>30, WithoutFacts
<1>5. Shape(v, sq) BY <1>30, ShapeWithout
<1>6. /\ Heads(v) \subseteq Heads(u)
      /\ \A h \in Heads(u) : h \in Heads(v) \/ \E i \in 1 .. k : u[i].seq = h
      /\ \A h \in Heads(v) : \A i \in 1 .. k : u[i].seq # h
  BY <1>30, HeadsWithout
<1>7. SUFFICES /\ \A j \in 1 .. k : u[j] = Unit(m, p + j - 1)
               /\ v # <<>> => IF p + k = n THEN v[1].part = 0 ELSE v[1] = Unit(m, p + k)
               /\ Heads(v) = IF p = 0 THEN Heads(u) \ {m} ELSE Heads(u)
  BY <1>30
<1> HIDE DEF m, p, n, v
<1>8. ASSUME NEW j \in 1 .. k PROVE u[j] = Unit(m, p + j - 1)
  <2>1. j \in 1 .. Len(u) /\ 1 - p <= j /\ j < 1 - p + n BY <1>2, <1>3, <1>30
  <2> QED BY <1>2, <2>1
<1>9. ASSUME v # <<>> PROVE IF p + k = n THEN v[1].part = 0 ELSE v[1] = Unit(m, p + k)
  <2>1. 1 \in 1 .. Len(v) /\ v[1] = u[1 + k] /\ 1 + k \in 1 .. Len(u) BY <1>1, <1>4, <1>9, <1>30, EmptyLen, SMTT(30)
  <2>2. CASE p + k # n
    <3>1. 1 - p <= 1 + k /\ 1 + k < 1 - p + n /\ p + (1 + k) - 1 = p + k BY <1>2, <1>3, <2>2
    <3>2. u[1 + k] = Unit(m, p + (1 + k) - 1) BY <1>2, <2>1, <3>1
    <3> QED BY <2>1, <2>2, <3>1, <3>2
  <2>3. CASE p + k = n
    <3> DEFINE h == u[1 + k].seq
               q == u[1 + k].part
               l == Span(sq, h)
    <3>0. PICK e \in 1 .. Len(u) : e = 1 + k BY <2>1
    <3>a. /\ u[e].seq \in Nat /\ u[e].part \in Nat /\ u[e].part < Span(sq, u[e].seq)
          /\ Span(sq, u[e].seq) \in Nat
          /\ \A j \in 1 .. Len(u) :
               e - u[e].part <= j /\ j < e - u[e].part + Span(sq, u[e].seq) =>
                 u[j] = Unit(u[e].seq, u[e].part + j - e)
      BY PlacedFacts
    <3>b. h = u[e].seq /\ q = u[e].part /\ l = Span(sq, u[e].seq) BY <3>0
    <3>1. /\ h \in Nat /\ q \in Nat /\ q < l /\ l \in Nat
          /\ \A j \in 1 .. Len(u) : (1 + k) - q <= j /\ j < (1 + k) - q + l => u[j] = Unit(h, q + j - (1 + k))
      BY ONLY <3>0, <3>a, <3>b
    <3>2. u[k] = Unit(m, p + k - 1) BY <1>3, <1>8, <1>30
    <3>3. q = 0 <=> v[1].part = 0 BY <2>1
    <3>4. l = Span(sq, h) /\ n = Span(sq, m) BY DEF n
    <3> HIDE DEF h, q, l
    <3>5. ASSUME q # 0 PROVE FALSE
      <4>1. k \in 1 .. Len(u) /\ (1 + k) - q <= k /\ k < (1 + k) - q + l BY <1>1, <1>3, <1>30, <3>1, <3>5
      <4>2. u[k] = Unit(h, q + k - (1 + k)) BY <3>1, <4>1
      <4>3. h = m /\ q + k - (1 + k) = p + k - 1 BY <3>2, <4>2, UnitFacts
      <4>4. l = n BY <3>4, <4>3
      <4>5. q \in Nat /\ q < l /\ l \in Nat /\ p \in Nat /\ n \in Nat /\ k \in Nat BY <1>2, <1>30, <3>1
      <4>6. q = p + k BY ONLY <4>3, <4>5
      <4> QED BY ONLY <2>3, <4>4, <4>5, <4>6
    <3> QED BY <2>3, <3>3, <3>5
  <2> QED BY <2>2, <2>3
<1>10. \A i \in 1 .. k : u[i].seq = m BY <1>8, UnitFacts
<1>11. 1 \in 1 .. k BY <1>3
<1>12. p = 0 <=> m \in Heads(u)
  <2>1. p = 0 => m \in Heads(u) BY <1>1, <1>2 DEF Heads
  <2>2. ASSUME m \in Heads(u), p # 0 PROVE FALSE
    <3>1. PICK i \in 1 .. Len(u) : u[i] = Unit(m, 0) BY <2>2 DEF Heads
    <3>2. i \notin 1 .. k
      <4>1. ASSUME i \in 1 .. k PROVE FALSE
        <5>1. u[i] = Unit(m, p + i - 1) BY <1>8, <4>1
        <5>2. p + i - 1 = 0 BY <3>1, <5>1, UnitFacts
        <5> QED BY <1>2, <2>2, <5>2
      <4> QED BY <4>1
    <3>3. i - k \in 1 .. Len(v) /\ (i - k) + k = i /\ i - k \in 1 .. Len(u) - k BY <1>1, <1>30, <1>4, <3>2
    <3>4. v[i - k] = u[(i - k) + k] BY <1>4, <3>3
    <3>5. m \in Heads(v) BY <1>2, <3>1, <3>3, <3>4 DEF Heads
    <3> QED BY <1>6, <1>10, <1>11, <3>5
  <2> QED BY <2>1, <2>2
<1>13. Heads(v) = Heads(u) \ {m} BY <1>6, <1>10, <1>11
<1> QED BY <1>8, <1>9, <1>12, <1>13

\* Messages keep their length when more are sent.
LEMMA ShapeGrows ==
  ASSUME NEW sq \in Seq(Msg), NEW x \in Msg, NEW u, Shape(u, sq)
  PROVE  Shape(u, Append(sq, x))
<1> DEFINE r == Append(sq, x)
<1>1. Len(sq) \in Nat /\ Len(r) = Len(sq) + 1 /\ \A m \in 1 .. Len(sq) : r[m] = sq[m]
  BY AppendProperties, EmptyLen
<1> HIDE DEF r
<1>2. \A m \in 1 .. Len(sq) : m \in 1 .. Len(r) /\ Span(r, m) = Span(sq, m) BY <1>1 DEF Span
<1>3. ASSUME NEW i \in 1 .. Len(u) PROVE Placed(u, i, r)
  <2>1. Placed(u, i, sq) BY DEF Shape
  <2>2. u[i].seq \in 1 .. Len(sq) BY <2>1 DEF Placed
  <2>3. u[i].seq \in 1 .. Len(r) /\ Span(r, u[i].seq) = Span(sq, u[i].seq) BY <1>2, <2>2
  <2> QED BY <2>1, <2>3 DEF Placed
<1> QED BY <1>3 DEF Shape, r

\* The bytes of a message are numbered from zero.
LEMMA MessageUnitsFacts ==
  ASSUME NEW m \in Nat, NEW n \in Nat
  PROVE  /\ MessageUnits(m, n) \in Seq(UnitType) /\ Len(MessageUnits(m, n)) = HeaderLen + n
         /\ \A i \in 1 .. HeaderLen + n : MessageUnits(m, n)[i] = Unit(m, i - 1)
<1>1. HeaderLen \in Nat /\ HeaderLen + n \in Nat OBVIOUS
<1> DEFINE k == HeaderLen + n
           v == [i \in 1 .. k |-> Unit(m, i - 1)]
<1>2. \A i \in 1 .. k : Unit(m, i - 1) \in UnitType BY <1>1 DEF Unit, UnitType
<1>3. v \in [1 .. k -> UnitType] BY <1>2
<1> HIDE DEF k
<1>4. k \in Nat BY <1>1 DEF k
<1>5. v \in Seq(UnitType) /\ Len(v) = k
  BY <1>3, <1>4, IsASeq
<1> QED BY <1>5 DEF k, MessageUnits

\* The device adds message m to a stream.
Joined(u, m, n) == u \o MessageUnits(m, n)

\* A whole message after the last one keeps the shape, and is one message more.
LEMMA ShapeAppend ==
  ASSUME NEW sq \in Seq(Msg), NEW x \in Msg, NEW u, Shape(u, sq)
  PROVE  LET m == Len(sq) + 1
             w == Joined(u, m, x.len)
         IN  /\ Shape(w, Append(sq, x)) /\ Heads(w) = Heads(u) \cup {m}
             /\ \A i \in 1 .. Len(w) : (i <= Len(u) /\ w[i] = u[i]) \/ w[i].seq = m
             /\ IF u = <<>> THEN w[1].part = 0 ELSE w[1] = u[1]
<1> DEFINE m == Len(sq) + 1
           v == MessageUnits(m, x.len)
           w == u \o v
           r == Append(sq, x)
           n == HeaderLen + x.len
<1>1. /\ Len(sq) \in Nat /\ Len(r) = Len(sq) + 1 /\ r[m] = x
      /\ \A l \in 1 .. Len(sq) : r[l] = sq[l]
  BY AppendProperties, EmptyLen
<1>2. x.len \in Nat /\ HeaderLen \in Nat /\ HeaderLen >= 1 BY DEF Msg
<1>3. m \in Nat /\ m \in 1 .. Len(r) /\ Span(r, m) = n /\ n \in Nat /\ n >= 1 BY <1>1, <1>2 DEF Span
<1>4. v \in Seq(UnitType) /\ Len(v) = n /\ \A i \in 1 .. n : v[i] = Unit(m, i - 1)
  BY <1>2, <1>3, MessageUnitsFacts
<1>5. u \in Seq(UnitType) /\ Len(u) \in Nat /\ (Len(u) = 0 <=> u = <<>>) BY EmptyLen DEF Shape
<1>6. Shape(u, r) BY ShapeGrows
<1>60. r \in Seq(Msg) BY AppendProperties
<1>7. ASSUME NEW i \in 1 .. Len(u) PROVE u[i].seq # m /\ u[i].seq \in Nat
  <2>1. u[i].seq \in 1 .. Len(sq) BY PlacedFacts
  <2> QED BY <1>1, <2>1
<1> HIDE DEF v, r
<1>8. /\ w \in Seq(UnitType) /\ Len(w) = Len(u) + Len(v)
      /\ \A i \in 1 .. Len(u) + Len(v) : w[i] = IF i <= Len(u) THEN u[i] ELSE v[i - Len(u)]
  <2>1. u \in Seq(UnitType) /\ v \in Seq(UnitType) BY <1>4, <1>5
  <2> QED BY <2>1, ConcatProperties
<1> HIDE DEF w, n, m
<1>80. Len(w) = Len(u) + n /\ Len(w) \in Nat /\ Len(u) <= Len(w) BY <1>3, <1>4, <1>5, <1>8
<1>9. ASSUME NEW i \in 1 .. Len(w), i <= Len(u) PROVE i \in 1 .. Len(u) /\ w[i] = u[i]
  BY <1>4, <1>5, <1>8, <1>9
<1>10. ASSUME NEW i \in 1 .. Len(w), ~(i <= Len(u))
       PROVE  i - Len(u) \in 1 .. n /\ w[i] = Unit(m, i - Len(u) - 1)
  <2>1. i - Len(u) \in 1 .. n BY <1>3, <1>4, <1>5, <1>8, <1>10
  <2> QED BY <1>4, <1>8, <1>10, <2>1
<1>11. Distinct(w)
  <2> SUFFICES ASSUME NEW i \in 1 .. Len(w), NEW j \in 1 .. Len(w), w[i] = w[j] PROVE i = j
    BY DEF Distinct
  <2>1. CASE i <= Len(u) /\ j <= Len(u) BY <1>6, <1>9, <2>1 DEF Shape, Distinct
  <2>2. CASE i <= Len(u) /\ ~(j <= Len(u)) 
    <3>1. w[i].seq # m BY <1>7, <1>9, <2>2
    <3>2. w[j].seq = m
      <4>1. w[j] = Unit(m, j - Len(u) - 1) BY <1>10, <2>2
      <4> QED BY <4>1, UnitFacts
    <3> QED BY <3>1, <3>2
  <2>3. CASE ~(i <= Len(u)) /\ j <= Len(u) 
    <3>1. w[j].seq # m BY <1>7, <1>9, <2>3
    <3>2. w[i].seq = m
      <4>1. w[i] = Unit(m, i - Len(u) - 1) BY <1>10, <2>3
      <4> QED BY <4>1, UnitFacts
    <3> QED BY <3>1, <3>2
  <2>4. CASE ~(i <= Len(u)) /\ ~(j <= Len(u))
    <3>1. i - Len(u) - 1 = j - Len(u) - 1 BY <1>10, <2>4, UnitFacts
    <3> QED BY <1>5, <3>1
  <2> QED BY <2>1, <2>2, <2>3, <2>4
<1>12. ASSUME NEW i \in 1 .. Len(w) PROVE Placed(w, i, r)
  <2>1. CASE i <= Len(u)
    <3> DEFINE h == u[i].seq
               p == u[i].part
               l == Span(r, h)
    <3>1. i \in 1 .. Len(u) /\ w[i] = u[i] BY <1>9, <2>1
    <3>2. /\ h \in 1 .. Len(r) /\ p \in Nat /\ p < l /\ l \in Nat /\ i + l - p <= Len(u) + 1
          /\ \A j \in 1 .. Len(u) : i - p <= j /\ j < i - p + l => u[j] = Unit(h, p + j - i)
      <4>1. /\ u[i].seq \in 1 .. Len(r) /\ u[i].part \in Nat
            /\ u[i].part < Span(r, u[i].seq) /\ Span(r, u[i].seq) \in Nat
            /\ i + Span(r, u[i].seq) - u[i].part <= Len(u) + 1
        BY ONLY <1>6, <1>60, <3>1, PlacedFacts, SMTT(30)
      <4>2. \A j \in 1 .. Len(u) :
              i - u[i].part <= j /\ j < i - u[i].part + Span(r, u[i].seq) =>
                u[j] = Unit(u[i].seq, u[i].part + j - i)
        BY ONLY <1>6, <1>60, <3>1, PlacedFacts, SMTT(30)
      <4> QED BY <4>1, <4>2
    <3>3. w[i].seq = h /\ w[i].part = p BY <3>1
    <3> HIDE DEF h, p, l
    <3>4. i + l - p <= Len(w) + 1
      <4>1. /\ i \in Nat /\ p \in Nat /\ l \in Nat /\ i + l - p <= Len(u) + 1
            /\ Len(u) \in Nat /\ Len(w) \in Nat /\ Len(u) <= Len(w)
        BY <1>5, <1>80, <3>2
      <4> QED BY ONLY <4>1
    <3>5. ASSUME NEW j \in 1 .. Len(w), i - p <= j, j < i - p + l
          PROVE  w[j] = Unit(h, p + j - i)
      <4>1. j <= Len(u) BY <1>5, <3>2, <3>5, SMTT(30)
      <4> QED BY <1>9, <3>2, <3>5, <4>1
    <3> QED BY <3>2, <3>3, <3>4, <3>5 DEF Placed, l
  <2>2. CASE ~(i <= Len(u))
    <3>1. i - Len(u) \in 1 .. n /\ w[i] = Unit(m, i - Len(u) - 1) BY <1>10, <2>2
    <3> DEFINE p == i - Len(u) - 1
    <3>2. w[i].seq = m /\ w[i].part = p BY <3>1, UnitFacts
    <3>3. p \in Nat /\ p < n /\ i - p = Len(u) + 1 BY <1>3, <1>5, <3>1
    <3> HIDE DEF p
    <3>4. i + n - p <= Len(w) + 1 BY <1>3, <1>4, <1>5, <1>8, <3>3
    <3>5. ASSUME NEW j \in 1 .. Len(w), i - p <= j, j < i - p + n
          PROVE  w[j] = Unit(m, p + j - i)
      <4>1. ~(j <= Len(u)) BY <1>5, <3>3, <3>5
      <4>2. w[j] = Unit(m, j - Len(u) - 1) BY <1>10, <4>1
      <4>3. j - Len(u) - 1 = p + j - i BY <1>5, <3>3
      <4> QED BY <4>2, <4>3
    <3> QED BY <1>3, <3>2, <3>3, <3>4, <3>5 DEF Placed
  <2> QED BY <2>1, <2>2
<1>13. Shape(w, r) BY <1>8, <1>11, <1>12 DEF Shape
<1>14. Heads(w) = Heads(u) \cup {m}
  <2>1. ASSUME NEW h \in Heads(w) PROVE h \in Heads(u) \cup {m}
    <3>1. PICK i \in 1 .. Len(w) : h \in Nat /\ w[i] = Unit(h, 0) BY <2>1 DEF Heads
    <3>2. CASE i <= Len(u) BY <1>9, <3>1, <3>2 DEF Heads
    <3>3. CASE ~(i <= Len(u)) BY <1>10, <3>1, <3>3, UnitFacts
    <3> QED BY <3>2, <3>3
  <2>2. ASSUME NEW h \in Heads(u) PROVE h \in Heads(w)
    <3>1. PICK i \in 1 .. Len(u) : h \in Nat /\ u[i] = Unit(h, 0) BY <2>2 DEF Heads
    <3>2. i \in 1 .. Len(w) /\ i <= Len(u) BY <1>3, <1>4, <1>5, <1>8
    <3> QED BY <1>9, <3>1, <3>2 DEF Heads
  <2>3. m \in Heads(w)
    <3>1. Len(u) + 1 \in 1 .. Len(w) /\ ~(Len(u) + 1 <= Len(u)) /\ Len(u) + 1 - Len(u) - 1 = 0
      BY <1>3, <1>4, <1>5, <1>8
    <3>2. w[Len(u) + 1] = Unit(m, 0) BY <1>10, <3>1
    <3> QED BY <1>3, <3>1, <3>2 DEF Heads
  <2> QED BY <2>1, <2>2, <2>3
<1>15. ASSUME NEW i \in 1 .. Len(w) PROVE (i <= Len(u) /\ w[i] = u[i]) \/ w[i].seq = m
  BY <1>9, <1>10, UnitFacts
<1>16. IF u = <<>> THEN w[1].part = 0 ELSE w[1] = u[1]
  <2>1. 1 \in 1 .. Len(w) BY <1>3, <1>4, <1>5, <1>8
  <2>2. CASE u = <<>>
    <3>0. Len(u) = 0 BY <1>5, <2>2
    <3>1. ~(1 <= Len(u)) /\ 1 - Len(u) - 1 = 0 BY <3>0
    <3>2. w[1] = Unit(m, 0) BY <1>10, <2>1, <3>1
    <3> QED BY <2>2, <3>2, UnitFacts
  <2>3. CASE u # <<>>
    <3>1. 1 <= Len(u) BY <1>5, <2>3
    <3> QED BY <1>9, <2>1, <2>3, <3>1
  <2> QED BY <2>2, <2>3
<1> QED BY <1>13, <1>14, <1>15, <1>16 DEF m, v, w, r, Joined

-----------------------------------------------------------------------------
\* Parked messages.

\* The set of the entries of a queue.
LEMMA ToSetFacts ==
  ASSUME NEW S, NEW q \in Seq(S)
  PROVE  /\ ToSet(q) = {q[i] : i \in 1 .. Len(q)} /\ ToSet(q) \subseteq S
         /\ \A m : m \in ToSet(q) <=> \E i \in 1 .. Len(q) : q[i] = m
<1>1. DOMAIN q = 1 .. Len(q) OBVIOUS
<1>2. \A i \in 1 .. Len(q) : q[i] \in S BY EmptyLen
<1> QED BY <1>1, <1>2 DEF ToSet

\* A queue without its entry i.
LEMMA RemoveAtFacts ==
  ASSUME NEW q \in Seq(Nat), Inj(q), NEW k \in 1 .. Len(q)
  PROVE  /\ RemoveAt(q, k) \in Seq(Nat) /\ Inj(RemoveAt(q, k))
         /\ ToSet(RemoveAt(q, k)) = ToSet(q) \ {q[k]}
<1>1. Len(q) \in Nat /\ k \in Nat /\ \A i \in 1 .. Len(q) : q[i] \in Nat BY EmptyLen
<1> DEFINE t == SubSeq(q, 1, k - 1)
           u == Without(q, k)
           r == t \o u
<1>2. /\ t \in Seq(Nat) /\ Len(t) = k - 1 /\ \A i \in 1 .. k - 1 : t[i] = q[i]
  <2>1. \A i \in 1 .. k - 1 : q[i] \in Nat BY <1>1
  <2> QED BY <1>1, <2>1, SubSeqProperties
<1>3. k \in 0 .. Len(q) BY <1>1
<1>4. u \in Seq(Nat) /\ Len(u) = Len(q) - k /\ \A i \in 1 .. Len(q) - k : u[i] = q[i + k]
  BY <1>3, WithoutFacts
<1>5. RemoveAt(q, k) = r BY DEF RemoveAt, Without
<1> HIDE DEF t, u
<1>6. /\ r \in Seq(Nat) /\ Len(r) = Len(t) + Len(u)
      /\ \A i \in 1 .. Len(t) + Len(u) : r[i] = IF i <= Len(t) THEN t[i] ELSE u[i - Len(t)]
  BY <1>2, <1>4, ConcatProperties
<1> HIDE DEF r
<1>7. Len(r) = Len(q) - 1 BY <1>1, <1>2, <1>4, <1>6
<1>8. ASSUME NEW i \in 1 .. Len(r) PROVE r[i] = IF i < k THEN q[i] ELSE q[i + 1]
  <2>1. i \in 1 .. Len(t) + Len(u) BY <1>6
  <2>2. CASE i < k
    <3>1. i <= Len(t) /\ i \in 1 .. k - 1 BY <1>1, <1>2, <2>2
    <3> QED BY <1>2, <1>6, <2>1, <2>2, <3>1
  <2>3. CASE ~(i < k)
    <3>1. ~(i <= Len(t)) /\ i - Len(t) \in 1 .. Len(q) - k /\ (i - Len(t)) + k = i + 1
      BY <1>1, <1>2, <1>7, <2>3
    <3>2. u[i - Len(t)] = q[i + 1] BY <1>4, <3>1
    <3> QED BY <1>6, <2>1, <2>3, <3>1, <3>2
  <2> QED BY <2>2, <2>3
<1>9. Inj(r)
  <2> SUFFICES ASSUME NEW i \in 1 .. Len(r), NEW j \in 1 .. Len(r), r[i] = r[j] PROVE i = j
    BY DEF Inj
  <2>1. \A l \in 1 .. Len(r) : l \in 1 .. Len(q) /\ l + 1 \in 1 .. Len(q) BY <1>1, <1>7
  <2>2. CASE i < k /\ j < k
    <3>1. q[i] = q[j] BY <1>8, <2>2
    <3> QED BY <2>1, <3>1 DEF Inj
  <2>3. CASE i < k /\ ~(j < k)
    <3>1. q[i] = q[j + 1] BY <1>8, <2>3
    <3>2. i = j + 1 BY <2>1, <3>1 DEF Inj
    <3> QED BY <1>1, <2>3, <3>2
  <2>4. CASE ~(i < k) /\ j < k
    <3>1. q[i + 1] = q[j] BY <1>8, <2>4
    <3>2. i + 1 = j BY <2>1, <3>1 DEF Inj
    <3> QED BY <1>1, <2>4, <3>2
  <2>5. CASE ~(i < k) /\ ~(j < k)
    <3>1. q[i + 1] = q[j + 1] BY <1>8, <2>5
    <3>2. i + 1 = j + 1 BY <2>1, <3>1 DEF Inj
    <3> QED BY <3>2
  <2> QED BY <2>2, <2>3, <2>4, <2>5
<1>10. ToSet(r) = ToSet(q) \ {q[k]}
  <2>1. ASSUME NEW i \in 1 .. Len(r) PROVE \E j \in 1 .. Len(q) : j # k /\ r[i] = q[j]
    <3>1. i \in 1 .. Len(q) /\ i + 1 \in 1 .. Len(q) BY <1>1, <1>7, SMTT(30)
    <3>2. CASE i < k BY <1>1, <1>8, <3>1, <3>2
    <3>3. CASE ~(i < k)
      <4>1. i + 1 # k BY <1>1, <3>3
      <4> QED BY <1>8, <3>1, <3>3, <4>1
    <3> QED BY <3>2, <3>3
  <2>2. ASSUME NEW j \in 1 .. Len(q), j # k PROVE \E i \in 1 .. Len(r) : r[i] = q[j]
    <3>1. CASE j < k
      <4>1. j \in 1 .. Len(r) BY <1>1, <1>7, <3>1
      <4> QED BY <1>8, <3>1, <4>1
    <3>2. CASE ~(j < k)
      <4>1. j - 1 \in 1 .. Len(r) /\ ~(j - 1 < k) /\ (j - 1) + 1 = j BY <1>1, <1>7, <2>2, <3>2
      <4>2. r[j - 1] = q[j] BY <1>8, <4>1
      <4> QED BY <4>1, <4>2
    <3> QED BY <3>1, <3>2
  <2>3. \A m : m \in ToSet(r) <=> \E i \in 1 .. Len(r) : r[i] = m BY <1>6, ToSetFacts
  <2>4. \A m : m \in ToSet(q) <=> \E i \in 1 .. Len(q) : q[i] = m BY ToSetFacts
  <2>5. \A j \in 1 .. Len(q) : q[j] = q[k] => j = k BY DEF Inj
  <2>6. ASSUME NEW m \in ToSet(r) PROVE m \in ToSet(q) \ {q[k]}
    <3>1. PICK i \in 1 .. Len(r) : r[i] = m BY <2>3, <2>6
    <3>2. PICK j \in 1 .. Len(q) : j # k /\ r[i] = q[j] BY <2>1
    <3> QED BY <2>4, <2>5, <3>1, <3>2
  <2>7. ASSUME NEW m \in ToSet(q) \ {q[k]} PROVE m \in ToSet(r)
    <3>1. PICK j \in 1 .. Len(q) : q[j] = m BY <2>4, <2>7
    <3>2. PICK i \in 1 .. Len(r) : r[i] = q[j] BY <2>2, <2>7, <3>1
    <3> QED BY <2>3, <3>1, <3>2
  <2> QED BY <2>6, <2>7
<1> QED BY <1>5, <1>6, <1>9, <1>10

\* A queue with one more entry.
LEMMA PushFacts ==
  ASSUME NEW q \in Seq(Nat), Inj(q), NEW m \in Nat, m \notin ToSet(q)
  PROVE  Append(q, m) \in Seq(Nat) /\ Inj(Append(q, m)) /\ ToSet(Append(q, m)) = ToSet(q) \cup {m}
<1> DEFINE r == Append(q, m)
<1>1. /\ r \in Seq(Nat) /\ Len(r) = Len(q) + 1 /\ Len(q) \in Nat
      /\ \A i \in 1 .. Len(q) : r[i] = q[i]
      /\ r[Len(q) + 1] = m
  BY AppendProperties, EmptyLen
<1> HIDE DEF r
<1>2. \A x : x \in ToSet(r) <=> \E i \in 1 .. Len(r) : r[i] = x BY <1>1, ToSetFacts
<1>3. \A x : x \in ToSet(q) <=> \E i \in 1 .. Len(q) : q[i] = x BY ToSetFacts
<1>4. \A i \in 1 .. Len(r) : i \in 1 .. Len(q) \/ i = Len(q) + 1 BY <1>1
<1>5. \A i \in 1 .. Len(q) : i \in 1 .. Len(r) BY <1>1
<1>6. Len(q) + 1 \in 1 .. Len(r) BY <1>1
<1>7. Inj(r) BY <1>1, <1>3, <1>4 DEF Inj
<1>8. ToSet(r) = ToSet(q) \cup {m}
  <2>1. ASSUME NEW x \in ToSet(r) PROVE x \in ToSet(q) \cup {m}
    <3>1. PICK i \in 1 .. Len(r) : r[i] = x BY <1>2, <2>1
    <3> QED BY <1>1, <1>3, <1>4, <3>1
  <2>2. ASSUME NEW x \in ToSet(q) PROVE x \in ToSet(r)
    <3>1. PICK i \in 1 .. Len(q) : q[i] = x BY <1>3, <2>2
    <3> QED BY <1>1, <1>2, <1>5, <3>1
  <2>3. m \in ToSet(r) BY <1>1, <1>2, <1>6
  <2> QED BY <2>1, <2>2, <2>3
<1> QED BY <1>1, <1>7, <1>8 DEF r

\* A queue with entry k replaced.
LEMMA ReplaceFacts ==
  ASSUME NEW q \in Seq(Nat), Inj(q), NEW k \in 1 .. Len(q), NEW m \in Nat, m \notin ToSet(q)
  PROVE  LET r == [q EXCEPT ![k] = m]
         IN  r \in Seq(Nat) /\ Inj(r) /\ ToSet(r) = (ToSet(q) \ {q[k]}) \cup {m}
<1> DEFINE r == [q EXCEPT ![k] = m]
<1>1. Len(q) \in Nat /\ DOMAIN q = 1 .. Len(q) /\ \A i \in 1 .. Len(q) : q[i] \in Nat BY EmptyLen
<1>2. r \in [1 .. Len(q) -> Nat] BY <1>1
<1>3. r \in Seq(Nat) /\ Len(r) = Len(q) BY <1>1, <1>2, IsASeq
<1>4. \A i \in 1 .. Len(q) : r[i] = IF i = k THEN m ELSE q[i] BY <1>1
<1> HIDE DEF r
<1>5. \A x : x \in ToSet(r) <=> \E i \in 1 .. Len(r) : r[i] = x BY <1>3, ToSetFacts
<1>6. \A x : x \in ToSet(q) <=> \E i \in 1 .. Len(q) : q[i] = x BY ToSetFacts
<1>7. Inj(r) BY <1>3, <1>4, <1>6 DEF Inj
<1>8. ToSet(r) = (ToSet(q) \ {q[k]}) \cup {m}
  <2>1. ASSUME NEW x \in ToSet(r) PROVE x \in (ToSet(q) \ {q[k]}) \cup {m}
    <3>1. PICK i \in 1 .. Len(q) : r[i] = x BY <1>3, <1>5, <2>1
    <3>2. i # k => q[i] # q[k] BY DEF Inj
    <3> QED BY <1>4, <1>6, <3>1, <3>2
  <2>2. ASSUME NEW x \in ToSet(q), x # q[k] PROVE x \in ToSet(r)
    <3>1. PICK i \in 1 .. Len(q) : q[i] = x BY <1>6, <2>2
    <3> QED BY <1>3, <1>4, <1>5, <2>2, <3>1
  <2>3. m \in ToSet(r) BY <1>3, <1>4, <1>5
  <2> QED BY <2>1, <2>2, <2>3
<1> QED BY <1>3, <1>7, <1>8 DEF r

\* The queue of one stream changes.
LEMMA ParkedUpdate ==
  ASSUME TypeInv, ParkInv, NEW s \in Streams, NEW r \in Seq(Nat), Inj(r),
         \A m \in ToSet(r) : m \in 1 .. Len(sent) /\ sent[m].stream = s,
         pending_messages' = [pending_messages EXCEPT ![s] = r], sent' = sent
  PROVE  /\ ParkInv' /\ pending_messages' \in [Streams -> Seq(Nat)]
         /\ Parked' = (Parked \ ToSet(pending_messages[s])) \cup ToSet(r)
         /\ ToSet(pending_messages[s]) \subseteq Parked
<1>1. /\ pending_messages \in [Streams -> Seq(Nat)]
      /\ pending_messages' \in [Streams -> Seq(Nat)]
      /\ pending_messages'[s] = r
      /\ \A t \in Streams : t # s => pending_messages'[t] = pending_messages[t]
  BY DEF TypeInv
<1>2. ParkInv' BY <1>1 DEF ParkInv
<1>3. ASSUME NEW t \in Streams, t # s
      PROVE  ToSet(pending_messages[t]) \cap ToSet(pending_messages[s]) = {}
  BY <1>3 DEF ParkInv
<1>4. Parked = UNION {ToSet(pending_messages[t]) : t \in Streams} BY DEF Parked
<1>5. Parked' = UNION {ToSet(pending_messages'[t]) : t \in Streams} BY DEF Parked
<1>6. Parked' = (Parked \ ToSet(pending_messages[s])) \cup ToSet(r)
  <2>1. ASSUME NEW m \in Parked' PROVE m \in (Parked \ ToSet(pending_messages[s])) \cup ToSet(r)
    <3>1. PICK t \in Streams : m \in ToSet(pending_messages'[t]) BY <1>5, <2>1
    <3> QED BY <1>1, <1>3, <1>4, <3>1
  <2>2. ASSUME NEW m \in Parked, m \notin ToSet(pending_messages[s]) PROVE m \in Parked'
    <3>1. PICK t \in Streams : m \in ToSet(pending_messages[t]) BY <1>4, <2>2
    <3>2. m \in ToSet(pending_messages'[t]) BY <1>1, <2>2, <3>1
    <3> QED BY <1>5, <3>2
  <2>3. ToSet(r) \subseteq Parked' BY <1>1, <1>5
  <2> QED BY <2>1, <2>2, <2>3
<1> QED BY <1>1, <1>2, <1>4, <1>6

\* Taking a message out of the parking place takes that message only.
LEMMA ReleaseEffect ==
  ASSUME TypeInv, ParkInv, NEW s \in Streams, NEW k \in 1 .. Len(pending_messages[s]),
         release(s, k), sent' = sent
  PROVE  /\ ParkInv' /\ pending_messages' \in [Streams -> Seq(Nat)]
         /\ Parked' = Parked \ {pending_messages[s][k]} /\ pending_messages[s][k] \in Parked
         /\ pending_messages[s][k] \in 1 .. Len(sent) /\ pending_messages[s][k] \in Nat
<1> DEFINE q == pending_messages[s]
           r == RemoveAt(q, k)
<1>1. q \in Seq(Nat) /\ Inj(q) BY DEF TypeInv, ParkInv
<1>2. /\ r \in Seq(Nat) /\ Inj(r) /\ ToSet(r) = ToSet(q) \ {q[k]} BY <1>1, RemoveAtFacts
<1>3. q[k] \in ToSet(q) /\ q[k] \in Nat BY <1>1, ToSetFacts
<1>4. \A m \in ToSet(q) : m \in 1 .. Len(sent) /\ sent[m].stream = s BY DEF ParkInv
<1>5. pending_messages' = [pending_messages EXCEPT ![s] = r] BY DEF release
<1> HIDE DEF r
<1>6. /\ ParkInv' /\ pending_messages' \in [Streams -> Seq(Nat)]
      /\ Parked' = (Parked \ ToSet(q)) \cup ToSet(r) /\ ToSet(q) \subseteq Parked
  BY <1>2, <1>4, <1>5, ParkedUpdate
<1> QED BY <1>2, <1>3, <1>4, <1>6

\* clear_pending_stream takes the parked messages of its stream, and no others.
LEMMA ClearEffect ==
  ASSUME TypeInv, ParkInv, NEW s \in Streams, clear_pending_stream(s), sent' = sent
  PROVE  /\ ParkInv' /\ pending_messages' \in [Streams -> Seq(Nat)]
         /\ Parked' = Parked \ ToSet(pending_messages[s])
         /\ ToSet(pending_messages[s]) \subseteq Parked
<1>1. <<>> \in Seq(Nat) /\ Len(<<>>) = 0 OBVIOUS
<1>2. Inj(<<>>) BY <1>1 DEF Inj
<1>3. ToSet(<<>>) = {} BY DEF ToSet
<1>4. pending_messages' = [pending_messages EXCEPT ![s] = <<>>] BY DEF clear_pending_stream
<1>5. PICK e \in Seq(Nat) : e = <<>> BY <1>1
<1>6. /\ ParkInv' /\ pending_messages' \in [Streams -> Seq(Nat)]
      /\ Parked' = (Parked \ ToSet(pending_messages[s])) \cup ToSet(e)
      /\ ToSet(pending_messages[s]) \subseteq Parked
  BY <1>2, <1>3, <1>4, <1>5, ParkedUpdate
<1> QED BY <1>3, <1>5, <1>6

-----------------------------------------------------------------------------
\* What the steps do to the streams.

Buffers == bufs \in [Streams -> Seq(UnitType)] /\ wire \in [Streams -> Seq(UnitType)]

\* Stream s loses k units at its front.
Cut(s, k) == /\ sent' = sent
             /\ k \in 0 .. Len(Unread(s)) /\ Unread(s)' = Without(Unread(s), k)
             /\ \A t \in Streams : t # s => Unread(t)' = Unread(t)

\* What is unread is what is buffered, followed by what is in transit.
LEMMA UnreadFacts ==
  ASSUME Buffers, NEW s \in Streams
  PROVE  /\ bufs[s] \in Seq(UnitType) /\ wire[s] \in Seq(UnitType) /\ Unread(s) \in Seq(UnitType)
         /\ Len(Unread(s)) = Len(bufs[s]) + Len(wire[s])
         /\ Len(bufs[s]) \in Nat /\ Len(wire[s]) \in Nat
         /\ \A i \in 1 .. Len(bufs[s]) : i \in 1 .. Len(Unread(s)) /\ Unread(s)[i] = bufs[s][i]
         /\ \A i \in 1 .. Len(wire[s]) : Len(bufs[s]) + i \in 1 .. Len(Unread(s))
                                         /\ Unread(s)[Len(bufs[s]) + i] = wire[s][i]
<1>1. bufs[s] \in Seq(UnitType) /\ wire[s] \in Seq(UnitType) BY DEF Buffers
<1>2. PICK a \in Seq(UnitType), b \in Seq(UnitType) : a = bufs[s] /\ b = wire[s] BY <1>1
<1> DEFINE u == a \o b
<1>3. Unread(s) = u BY <1>2 DEF Unread
<1>4. Len(a) \in Nat /\ Len(b) \in Nat BY EmptyLen
<1>5. /\ u \in Seq(UnitType) /\ Len(u) = Len(a) + Len(b)
      /\ \A i \in 1 .. Len(a) + Len(b) : u[i] = IF i <= Len(a) THEN a[i] ELSE b[i - Len(a)]
  BY ConcatProperties
<1> HIDE DEF u
<1>6. ASSUME NEW i \in 1 .. Len(a) PROVE i \in 1 .. Len(u) /\ u[i] = a[i]
  <2>1. i \in 1 .. Len(a) + Len(b) /\ i <= Len(a) BY <1>4
  <2> QED BY <1>5, <2>1
<1>7. ASSUME NEW i \in 1 .. Len(b) PROVE Len(a) + i \in 1 .. Len(u) /\ u[Len(a) + i] = b[i]
  <2>1. /\ Len(a) + i \in 1 .. Len(a) + Len(b) /\ ~(Len(a) + i <= Len(a))
        /\ Len(a) + i - Len(a) = i
    BY <1>4
  <2> QED BY <1>5, <2>1
<1> QED BY <1>1, <1>2, <1>3, <1>4, <1>5, <1>6, <1>7

\* The messages in transit on a stream are those whose first byte is unread.
LEMMA HeadsOf ==
  ASSUME NEW q \in Seq(UnitType)
  PROVE  {u.seq : u \in {x \in ToSet(q) : x.part = 0}} = Heads(q)
<1>1. \A u : u \in ToSet(q) <=> \E i \in 1 .. Len(q) : q[i] = u BY ToSetFacts
<1>2. \A i \in 1 .. Len(q) : /\ q[i].seq \in Nat
                             /\ q[i].part = 0 <=> q[i] = Unit(q[i].seq, 0)
  <2> TAKE i \in 1 .. Len(q)
  <2>1. q[i] \in UnitType BY EmptyLen
  <2> QED BY <2>1 DEF UnitType, Unit
<1> DEFINE A == {u.seq : u \in {x \in ToSet(q) : x.part = 0}}
<1>3. ASSUME NEW m \in A PROVE m \in Heads(q)
  <2>1. PICK u \in ToSet(q) : u.part = 0 /\ m = u.seq BY <1>3
  <2>2. PICK i \in 1 .. Len(q) : q[i] = u BY <1>1, <2>1
  <2>3. m \in Nat /\ q[i] = Unit(m, 0) BY <1>2, <2>1, <2>2
  <2> QED BY <2>3 DEF Heads
<1>4. ASSUME NEW m \in Heads(q) PROVE m \in A
  <2>1. PICK i \in 1 .. Len(q) : q[i] = Unit(m, 0) BY <1>4 DEF Heads
  <2>2. q[i] \in ToSet(q) /\ q[i].seq = m /\ q[i].part = 0 BY <1>1, <2>1, UnitFacts
  <2> QED BY <2>2
<1> QED BY <1>3, <1>4

\* A message is in transit when it begins in the unread bytes of some stream.
LEMMA TransitIs ==
  ASSUME Buffers
  PROVE  \A m : m \in InTransit <=> \E s \in Streams : m \in Heads(Unread(s))
<1>1. \A s \in Streams : {u.seq : u \in {x \in ToSet(Unread(s)) : x.part = 0}} = Heads(Unread(s))
  BY UnreadFacts, HeadsOf
<1> QED BY <1>1 DEF InTransit

\* The same of the next state.
LEMMA TransitIsNext ==
  ASSUME Buffers'
  PROVE  \A m : m \in InTransit' <=> \E s \in Streams : m \in Heads(Unread(s)')
<1>1. ASSUME NEW s \in Streams PROVE Unread(s)' \in Seq(UnitType)
  <2>1. bufs'[s] \in Seq(UnitType) /\ wire'[s] \in Seq(UnitType) BY DEF Buffers
  <2>2. PICK a \in Seq(UnitType), b \in Seq(UnitType) : a = bufs'[s] /\ b = wire'[s] BY <2>1
  <2>3. a \o b \in Seq(UnitType) BY ConcatProperties
  <2> QED BY <2>2, <2>3 DEF Unread
<1>2. \A s \in Streams : {u.seq : u \in {x \in ToSet(Unread(s)') : x.part = 0}} = Heads(Unread(s)')
  BY <1>1, HeadsOf
<1> QED BY <1>2 DEF InTransit

\* A step that moves no bytes leaves the unread bytes alone.
LEMMA QuietEffect ==
  ASSUME TypeInv, StreamInv, UNCHANGED <<sent, bufs, wire>>
  PROVE  /\ StreamInv' /\ Buffers' /\ InTransit' = InTransit
         /\ \A s \in Streams : Unread(s)' = Unread(s)
<1>1. \A s \in Streams : Unread(s)' = Unread(s) BY DEF Unread
<1>2. Buffers' BY DEF TypeInv, Buffers
<1>3. InTransit' = InTransit BY DEF InTransit, Unread
<1>4. StreamInv' BY <1>1 DEF StreamInv
<1> QED BY <1>1, <1>2, <1>3, <1>4

\* A step that removes the front of one stream keeps the shape of all of them, and the
\* messages it ends are those it removed a byte of.
LEMMA CutEffect ==
  ASSUME TypeInv, StreamInv, Buffers', NEW s \in Streams, NEW k, Cut(s, k)
  PROVE  /\ StreamInv' /\ InTransit' \subseteq InTransit
         /\ \A m \in InTransit : m \in InTransit' \/ \E i \in 1 .. k : Unread(s)[i].seq = m
         /\ \A m \in InTransit' : \A i \in 1 .. k : Unread(s)[i].seq # m
         /\ \A t \in Streams : \A i \in 1 .. Len(Unread(t)') :
              \E j \in 1 .. Len(Unread(t)) : Unread(t)'[i] = Unread(t)[j]
<1> DEFINE u == Unread(s)
           v == Without(u, k)
<1>1. Buffers /\ sent \in Seq(Msg) /\ sent' = sent BY DEF TypeInv, Buffers, Cut
<1>2. Shape(u, sent) /\ \A i \in 1 .. Len(u) : sent[u[i].seq].stream = s BY DEF StreamInv
<1>3. u \in Seq(UnitType) BY <1>2 DEF Shape
<1>4. /\ k \in 0 .. Len(u) /\ Unread(s)' = v BY DEF Cut
<1>5. \A t \in Streams : t # s => Unread(t)' = Unread(t) BY DEF Cut
<1>6. Shape(v, sent) BY <1>1, <1>2, <1>4, ShapeWithout
<1>7. /\ Heads(v) \subseteq Heads(u)
      /\ \A m \in Heads(u) : m \in Heads(v) \/ \E i \in 1 .. k : u[i].seq = m
      /\ \A m \in Heads(v) : \A i \in 1 .. k : u[i].seq # m
  BY <1>1, <1>2, <1>4, HeadsWithout
<1>80. Len(u) \in Nat BY <1>3, EmptyLen
<1>81. Len(v) = Len(u) - k /\ \A i \in 1 .. Len(u) - k : v[i] = u[i + k]
  BY <1>3, <1>4, WithoutFacts
<1>8. Len(u) \in Nat /\ Len(v) = Len(u) - k /\ \A i \in 1 .. Len(u) - k : v[i] = u[i + k]
  BY <1>80, <1>81
<1>9. \A m : m \in InTransit <=> \E t \in Streams : m \in Heads(Unread(t)) BY <1>1, TransitIs
<1>10. \A m : m \in InTransit' <=> \E t \in Streams : m \in Heads(Unread(t)') BY TransitIsNext
<1> HIDE DEF u, v
<1>11. ASSUME NEW i \in 1 .. Len(v) PROVE i + k \in 1 .. Len(u) /\ v[i] = u[i + k]
  <2>1. i \in 1 .. Len(u) - k /\ i + k \in 1 .. Len(u) BY <1>4, <1>8
  <2> QED BY <1>8, <2>1
<1>12. StreamInv'
  <2> SUFFICES ASSUME NEW t \in Streams
               PROVE  /\ Shape(Unread(t)', sent)
                      /\ \A i \in 1 .. Len(Unread(t)') : sent[Unread(t)'[i].seq].stream = t
    BY <1>1 DEF StreamInv
  <2>1. CASE t = s
    <3>1. Unread(t)' = v BY <1>4, <2>1
    <3>2. ASSUME NEW i \in 1 .. Len(v) PROVE sent[v[i].seq].stream = t
      <4>1. i + k \in 1 .. Len(u) /\ v[i] = u[i + k] BY <1>11
      <4> QED BY <1>2, <2>1, <4>1
    <3> QED BY <1>6, <3>1, <3>2
  <2>2. CASE t # s BY <1>5, <2>2 DEF StreamInv
  <2> QED BY <2>1, <2>2
<1>13. InTransit' \subseteq InTransit
  <2> SUFFICES ASSUME NEW m \in InTransit' PROVE m \in InTransit OBVIOUS
  <2>1. PICK t \in Streams : m \in Heads(Unread(t)') BY <1>10
  <2>2. m \in Heads(Unread(t)) BY <1>4, <1>5, <1>7, <2>1 DEF u
  <2> QED BY <1>9, <2>2
<1>14. ASSUME NEW m \in InTransit PROVE m \in InTransit' \/ \E i \in 1 .. k : u[i].seq = m
  <2>1. PICK t \in Streams : m \in Heads(Unread(t)) BY <1>9
  <2>2. CASE t = s
    <3>1. m \in Heads(u) BY <2>1, <2>2 DEF u
    <3> QED BY <1>4, <1>7, <1>10, <3>1
  <2>3. CASE t # s BY <1>5, <1>10, <2>1, <2>3
  <2> QED BY <2>2, <2>3
<1>15. ASSUME NEW m \in InTransit', NEW i \in 1 .. k, u[i].seq = m PROVE FALSE
  <2>1. PICK t \in Streams : m \in Heads(Unread(t)') BY <1>10
  <2>2. CASE t = s BY <1>4, <1>7, <1>15, <2>1, <2>2
  <2>3. CASE t # s
    <3>1. m \in Heads(Unread(t)) BY <1>5, <2>1, <2>3
    <3>2. PICK j \in 1 .. Len(Unread(t)) : Unread(t)[j] = Unit(m, 0) BY <3>1 DEF Heads
    <3>3. sent[m].stream = t BY <3>2, UnitFacts DEF StreamInv
    <3>4. i \in 1 .. Len(u) BY <1>4, <1>8
    <3> QED BY <1>2, <1>15, <2>3, <3>3, <3>4
  <2> QED BY <2>2, <2>3
<1>16. ASSUME NEW t \in Streams, NEW i \in 1 .. Len(Unread(t)')
       PROVE  \E j \in 1 .. Len(Unread(t)) : Unread(t)'[i] = Unread(t)[j]
  <2>1. CASE t = s
    <3>1. Unread(t)' = v /\ Unread(t) = u BY <1>4, <2>1 DEF u
    <3> QED BY <1>11, <3>1
  <2>2. CASE t # s BY <1>5, <2>2
  <2> QED BY <2>1, <2>2
<1> QED BY <1>12, <1>13, <1>14, <1>15, <1>16 DEF u

\* A reader consumes n units of its stream.
LEMMA ReadCuts ==
  ASSUME TypeInv, NEW s \in Streams, NEW n \in Nat, n <= Len(bufs[s]),
         bufs' = [bufs EXCEPT ![s] = SubSeq(@, n + 1, Len(@))], UNCHANGED <<sent, wire>>
  PROVE  Cut(s, n) /\ Buffers'
<1>1. Buffers BY DEF TypeInv, Buffers
<1>3. /\ bufs[s] \in Seq(UnitType) /\ wire[s] \in Seq(UnitType) /\ Len(bufs[s]) \in Nat
      /\ Len(wire[s]) \in Nat /\ Len(Unread(s)) = Len(bufs[s]) + Len(wire[s])
  BY <1>1, UnreadFacts
<1>4. PICK a \in Seq(UnitType), b \in Seq(UnitType) : a = bufs[s] /\ b = wire[s] BY <1>3
<1>5. n \in 0 .. Len(a) BY <1>3, <1>4
<1>6. Without(a, n) \in Seq(UnitType) BY <1>5, WithoutFacts
<1>7. Without(a, n) \o b = Without(a \o b, n) BY <1>5, WithoutConcat
<1>8. bufs' = [bufs EXCEPT ![s] = Without(a, n)] BY <1>4 DEF Without
<1>9. /\ bufs'[s] = Without(a, n) /\ bufs' \in [Streams -> Seq(UnitType)] /\ wire' = wire
      /\ \A t \in Streams : t # s => bufs'[t] = bufs[t]
  BY <1>1, <1>6, <1>8 DEF Buffers
<1>10. Unread(s)' = Without(Unread(s), n) BY <1>4, <1>7, <1>9 DEF Unread
<1>11. \A t \in Streams : t # s => Unread(t)' = Unread(t) BY <1>9 DEF Unread
<1>12. n \in 0 .. Len(Unread(s))
  <2>1. \A x, y \in Nat : n <= x => n \in 0 .. x + y OBVIOUS
  <2> QED BY <1>3, <2>1
<1>13. Buffers' BY <1>1, <1>9 DEF Buffers
<1>14. Cut(s, n) BY <1>10, <1>11, <1>12 DEF Cut
<1> QED BY <1>13, <1>14

\* A frame is buffered.
LEMMA CarryEffect ==
  ASSUME TypeInv, StreamInv, NEW s \in Streams, NEW n \in Nat, n <= Len(wire[s]),
         bufs' = [bufs EXCEPT ![s] = @ \o SubSeq(wire[s], 1, n)],
         wire' = [wire EXCEPT ![s] = SubSeq(@, n + 1, Len(@))], sent' = sent
  PROVE  /\ StreamInv' /\ Buffers' /\ InTransit' = InTransit
         /\ \A t \in Streams : Unread(t)' = Unread(t)
<1>1. Buffers BY DEF TypeInv, Buffers
<1>2. /\ bufs[s] \in Seq(UnitType) /\ wire[s] \in Seq(UnitType) /\ Len(wire[s]) \in Nat
  BY <1>1, UnreadFacts
<1>3. PICK a \in Seq(UnitType), b \in Seq(UnitType) : a = bufs[s] /\ b = wire[s] BY <1>2
<1>4. n \in 0 .. Len(b) BY <1>2, <1>3
<1>5. Without(b, n) \in Seq(UnitType) BY <1>4, WithoutFacts
<1>6. SubSeq(b, 1, n) \in Seq(UnitType)
  <2>1. \A i \in 1 .. n : b[i] \in UnitType BY <1>4, EmptyLen
  <2> QED BY <2>1, SubSeqProperties
<1>7. a \o SubSeq(b, 1, n) \in Seq(UnitType) BY <1>6, ConcatProperties
<1>8. (a \o SubSeq(b, 1, n)) \o Without(b, n) = a \o b BY <1>4, CarryConcat
<1>9. /\ bufs' = [bufs EXCEPT ![s] = a \o SubSeq(b, 1, n)]
      /\ wire' = [wire EXCEPT ![s] = Without(b, n)]
  BY <1>3 DEF Without
<1>10. /\ bufs'[s] = a \o SubSeq(b, 1, n) /\ bufs' \in [Streams -> Seq(UnitType)]
       /\ \A t \in Streams : t # s => bufs'[t] = bufs[t]
  BY <1>1, <1>7, <1>9 DEF Buffers
<1>11. /\ wire'[s] = Without(b, n) /\ wire' \in [Streams -> Seq(UnitType)]
       /\ \A t \in Streams : t # s => wire'[t] = wire[t]
  BY <1>1, <1>5, <1>9 DEF Buffers
<1>12. Unread(s)' = Unread(s) BY <1>3, <1>8, <1>10, <1>11 DEF Unread
<1>13. \A t \in Streams : t # s => Unread(t)' = Unread(t) BY <1>10, <1>11 DEF Unread
<1>14. \A t \in Streams : Unread(t)' = Unread(t) BY <1>12, <1>13
<1>15. Buffers' BY <1>10, <1>11 DEF Buffers
<1>16. StreamInv' BY <1>14 DEF StreamInv
<1>17. InTransit' = InTransit
  <2>1. \A m : m \in InTransit <=> \E t \in Streams : m \in Heads(Unread(t)) BY <1>1, TransitIs
  <2>2. \A m : m \in InTransit' <=> \E t \in Streams : m \in Heads(Unread(t)')
    BY <1>15, TransitIsNext
  <2>3. \A m : m \in InTransit' <=> m \in InTransit BY <1>14, <2>1, <2>2
  <2> QED BY <2>3
<1> QED BY <1>14, <1>15, <1>16, <1>17

\* A buffer is dropped with the frame that was to be added to it.
LEMMA DropCuts ==
  ASSUME TypeInv, NEW s \in Streams, NEW n \in Nat, n <= Len(wire[s]),
         bufs' = [bufs EXCEPT ![s] = <<>>],
         wire' = [wire EXCEPT ![s] = SubSeq(@, n + 1, Len(@))], sent' = sent
  PROVE  Cut(s, Len(bufs[s]) + n) /\ Buffers'
<1>1. Buffers BY DEF TypeInv, Buffers
<1>2. /\ bufs[s] \in Seq(UnitType) /\ wire[s] \in Seq(UnitType) /\ Len(wire[s]) \in Nat
      /\ Len(bufs[s]) \in Nat /\ Len(Unread(s)) = Len(bufs[s]) + Len(wire[s])
  BY <1>1, UnreadFacts
<1>3. PICK a \in Seq(UnitType), b \in Seq(UnitType) : a = bufs[s] /\ b = wire[s] BY <1>2
<1>4. n \in 0 .. Len(b) BY <1>2, <1>3
<1>5. Without(b, n) \in Seq(UnitType) BY <1>4, WithoutFacts
<1>6. <<>> \o Without(b, n) = Without(a \o b, Len(a) + n) BY <1>4, DropConcat
<1>7. wire' = [wire EXCEPT ![s] = Without(b, n)] BY <1>3 DEF Without
<1>8. <<>> \in Seq(UnitType) OBVIOUS
<1>9. /\ bufs'[s] = <<>> /\ bufs' \in [Streams -> Seq(UnitType)]
      /\ \A t \in Streams : t # s => bufs'[t] = bufs[t]
  BY <1>1, <1>8 DEF Buffers
<1>10. /\ wire'[s] = Without(b, n) /\ wire' \in [Streams -> Seq(UnitType)]
       /\ \A t \in Streams : t # s => wire'[t] = wire[t]
  BY <1>1, <1>5, <1>7 DEF Buffers
<1>11. Unread(s)' = Without(Unread(s), Len(bufs[s]) + n) BY <1>3, <1>6, <1>9, <1>10 DEF Unread
<1>12. \A t \in Streams : t # s => Unread(t)' = Unread(t) BY <1>9, <1>10 DEF Unread
<1>13. Len(bufs[s]) + n \in 0 .. Len(Unread(s))
  <2>1. \A x, y \in Nat : n <= y => x + n \in 0 .. x + y OBVIOUS
  <2> QED BY <1>2, <2>1
<1>14. Buffers' BY <1>9, <1>10 DEF Buffers
<1> QED BY <1>11, <1>12, <1>13, <1>14 DEF Cut

\* A stream is reset.
LEMMA ResetCuts ==
  ASSUME TypeInv, NEW s \in Streams, bufs' = [bufs EXCEPT ![s] = <<>>],
         wire' = [wire EXCEPT ![s] = <<>>], sent' = sent
  PROVE  Cut(s, Len(Unread(s))) /\ Buffers'
<1>1. Buffers BY DEF TypeInv, Buffers
<1>2. Unread(s) \in Seq(UnitType) BY <1>1, UnreadFacts
<1>3. PICK u \in Seq(UnitType) : u = Unread(s) BY <1>2
<1>4. Len(u) \in Nat /\ Len(u) \in 0 .. Len(u) BY EmptyLen
<1>5. Without(u, Len(u)) \in Seq(UnitType) /\ Len(Without(u, Len(u))) = Len(u) - Len(u)
  BY <1>4, WithoutFacts
<1>6. Without(u, Len(u)) = <<>>
  <2>1. Len(Without(u, Len(u))) = 0 BY <1>4, <1>5
  <2> QED BY <1>5, <2>1, EmptyLen
<1>7. <<>> \in Seq(UnitType) /\ <<>> \o <<>> = <<>> OBVIOUS
<1>8. /\ bufs'[s] = <<>> /\ bufs' \in [Streams -> Seq(UnitType)]
      /\ \A t \in Streams : t # s => bufs'[t] = bufs[t]
  BY <1>1, <1>7 DEF Buffers
<1>9. /\ wire'[s] = <<>> /\ wire' \in [Streams -> Seq(UnitType)]
      /\ \A t \in Streams : t # s => wire'[t] = wire[t]
  BY <1>1, <1>7 DEF Buffers
<1>10. Unread(s)' = <<>> BY <1>7, <1>8, <1>9 DEF Unread
<1>11. \A t \in Streams : t # s => Unread(t)' = Unread(t) BY <1>8, <1>9 DEF Unread
<1>12. Buffers' BY <1>8, <1>9 DEF Buffers
<1> QED BY <1>3, <1>4, <1>6, <1>10, <1>11, <1>12 DEF Cut

\* The device sends a message.
LEMMA GrowEffect ==
  ASSUME TypeInv, StreamInv, NEW s \in Streams, NEW x \in Msg, x.stream = s,
         sent' = Append(sent, x), bufs' = bufs,
         wire' = [wire EXCEPT ![s] = @ \o MessageUnits(Len(sent) + 1, x.len)]
  PROVE  /\ StreamInv' /\ Buffers' /\ InTransit' = InTransit \cup {Len(sent) + 1}
         /\ sent' \in Seq(Msg) /\ Len(sent') = Len(sent) + 1 /\ Len(sent) \in Nat
         /\ \A m \in 1 .. Len(sent) : sent'[m] = sent[m]
         /\ \A t \in Streams : \A i \in 1 .. Len(Unread(t)') :
              \/ \E j \in 1 .. Len(Unread(t)) : Unread(t)'[i] = Unread(t)[j]
              \/ Unread(t)'[i].seq = Len(sent) + 1
         /\ \A t \in Streams :
              Unread(t)' # Unread(t) =>
                 /\ Unread(t)' # <<>>
                 /\ IF Unread(t) = <<>> THEN Unread(t)'[1].part = 0
                    ELSE Unread(t)'[1] = Unread(t)[1]
<1> DEFINE m == Len(sent) + 1
           v == MessageUnits(m, x.len)
<1>1. Buffers /\ sent \in Seq(Msg) BY DEF TypeInv, Buffers
<1>2. /\ bufs[s] \in Seq(UnitType) /\ wire[s] \in Seq(UnitType) BY <1>1, UnreadFacts
<1>3. PICK a \in Seq(UnitType), b \in Seq(UnitType) : a = bufs[s] /\ b = wire[s] BY <1>2
<1>4. /\ sent' \in Seq(Msg) /\ Len(sent') = Len(sent) + 1 /\ Len(sent) \in Nat
      /\ \A l \in 1 .. Len(sent) : sent'[l] = sent[l]
      /\ sent'[m] = x
  BY <1>1, AppendProperties, EmptyLen
<1>5. x.len \in Nat BY DEF Msg
<1>60. m \in Nat BY <1>4
<1> HIDE DEF m
<1>6. v \in Seq(UnitType) BY <1>5, <1>60, MessageUnitsFacts
<1> USE DEF m
<1>7. PICK c \in Seq(UnitType) : c = v BY <1>6
<1>8. b \o c \in Seq(UnitType) BY ConcatProperties
<1>9. (a \o b) \o c = a \o (b \o c)
  BY ONLY a \in Seq(UnitType), b \in Seq(UnitType), c \in Seq(UnitType), ConcatAssoc
<1>10. /\ wire'[s] = b \o c /\ wire' \in [Streams -> Seq(UnitType)]
       /\ \A t \in Streams : t # s => wire'[t] = wire[t]
  BY <1>1, <1>3, <1>7, <1>8 DEF Buffers
<1>11. Unread(s) = a \o b /\ Unread(s)' = (a \o b) \o c BY <1>3, <1>9, <1>10 DEF Unread
<1>12. \A t \in Streams : t # s => Unread(t)' = Unread(t) BY <1>10 DEF Unread
<1>13. Buffers' BY <1>1, <1>10 DEF Buffers
<1>14. PICK u : u = Unread(s) OBVIOUS
<1>15. Shape(u, sent) /\ \A i \in 1 .. Len(u) : sent[u[i].seq].stream = s BY <1>14 DEF StreamInv
<1> DEFINE w == u \o v
<1>16. Unread(s)' = w BY <1>7, <1>11, <1>14
<1>17. /\ Shape(w, sent') /\ Heads(w) = Heads(u) \cup {m}
       /\ \A i \in 1 .. Len(w) : (i <= Len(u) /\ w[i] = u[i]) \/ w[i].seq = m
       /\ IF u = <<>> THEN w[1].part = 0 ELSE w[1] = u[1]
  <2>1. w = Joined(u, m, x.len) BY DEF Joined
  <2> HIDE DEF w, v
  <2>2. PICK sq \in Seq(Msg) : sq = sent BY <1>1
  <2>3. Shape(u, sq) BY <1>15, <2>2
  <2> DEFINE y == Joined(u, Len(sq) + 1, x.len)
  <2>4. /\ Shape(y, Append(sq, x)) /\ Heads(y) = Heads(u) \cup {Len(sq) + 1}
        /\ \A i \in 1 .. Len(y) : (i <= Len(u) /\ y[i] = u[i]) \/ y[i].seq = Len(sq) + 1
        /\ IF u = <<>> THEN y[1].part = 0 ELSE y[1] = u[1]
    BY ONLY sq \in Seq(Msg), x \in Msg, <2>3, ShapeAppend
  <2>5. y = w BY <2>1, <2>2
  <2> HIDE DEF y
  <2> QED BY <2>2, <2>4, <2>5
<1> HIDE DEF w, v
<1>18. \A i \in 1 .. Len(u) : u[i].seq \in 1 .. Len(sent) BY <1>1, <1>15, PlacedFacts
<1>180. Len(u) \in Nat BY <1>15, EmptyLen DEF Shape
<1>19. ASSUME NEW t \in Streams
       PROVE  /\ Shape(Unread(t)', sent')
              /\ \A i \in 1 .. Len(Unread(t)') : sent'[Unread(t)'[i].seq].stream = t
  <2>1. CASE t = s
    <3>1. ASSUME NEW i \in 1 .. Len(w) PROVE sent'[w[i].seq].stream = s
      <4>1. CASE w[i].seq = m BY <1>4, <4>1
      <4>2. CASE i <= Len(u) /\ w[i] = u[i]
        <5>1. i \in 1 .. Len(u) BY <1>180, <4>2
        <5> QED BY <1>4, <1>15, <1>18, <4>2, <5>1
      <4> QED BY <1>17, <4>1, <4>2
    <3> QED BY <1>16, <1>17, <2>1, <3>1
  <2>2. CASE t # s
    <3>1. PICK z : z = Unread(t) OBVIOUS
    <3>2. Shape(z, sent) /\ \A i \in 1 .. Len(z) : sent[z[i].seq].stream = t BY <3>1 DEF StreamInv
    <3>3. Unread(t)' = z BY <1>12, <2>2, <3>1
    <3>4. Shape(z, sent') BY <1>1, <3>2, ShapeGrows
    <3>5. \A i \in 1 .. Len(z) : z[i].seq \in 1 .. Len(sent) BY <1>1, <3>2, PlacedFacts
    <3> QED BY <1>4, <3>2, <3>3, <3>4, <3>5
  <2> QED BY <2>1, <2>2
<1>20. StreamInv' BY <1>19 DEF StreamInv
<1>21. InTransit' = InTransit \cup {m}
  <2>1. \A l : l \in InTransit <=> \E t \in Streams : l \in Heads(Unread(t)) BY <1>1, TransitIs
  <2>2. \A l : l \in InTransit' <=> \E t \in Streams : l \in Heads(Unread(t)')
    BY <1>13, TransitIsNext
  <2>3. Heads(Unread(s)') = Heads(Unread(s)) \cup {m} BY <1>14, <1>16, <1>17
  <2>4. \A l : l \in InTransit' <=> l \in InTransit \/ l = m
    <3> TAKE l
    <3>1. ASSUME l \in InTransit' PROVE l \in InTransit \/ l = m
      <4>1. PICK t \in Streams : l \in Heads(Unread(t)') BY <2>2, <3>1
      <4>2. l \in Heads(Unread(t)) \/ l = m BY <1>12, <2>3, <4>1
      <4> QED BY <2>1, <4>2
    <3>2. ASSUME l \in InTransit PROVE l \in InTransit'
      <4>1. PICK t \in Streams : l \in Heads(Unread(t)) BY <2>1, <3>2
      <4>2. l \in Heads(Unread(t)') BY <1>12, <2>3, <4>1
      <4> QED BY <2>2, <4>2
    <3>3. m \in InTransit' BY <2>2, <2>3
    <3> QED BY <3>1, <3>2, <3>3
  <2> QED BY <2>4
<1>22. ASSUME NEW t \in Streams, NEW i \in 1 .. Len(Unread(t)')
       PROVE  \/ \E j \in 1 .. Len(Unread(t)) : Unread(t)'[i] = Unread(t)[j]
              \/ Unread(t)'[i].seq = m
  <2>1. CASE t = s
    <3>1. Unread(t)' = w /\ Unread(t) = u BY <1>14, <1>16, <2>1
    <3>2. i <= Len(u) => i \in 1 .. Len(u) BY <1>180
    <3> QED BY <1>17, <3>1, <3>2
  <2>2. CASE t # s BY <1>12, <2>2
  <2> QED BY <2>1, <2>2
<1>23. ASSUME NEW t \in Streams, Unread(t)' # Unread(t)
       PROVE  /\ Unread(t)' # <<>>
              /\ IF Unread(t) = <<>> THEN Unread(t)'[1].part = 0 ELSE Unread(t)'[1] = Unread(t)[1]
  <2>1. t = s BY <1>12, <1>23
  <2>2. Unread(t)' = w /\ Unread(t) = u BY <1>14, <1>16, <2>1
  <2>3. PICK i \in 1 .. Len(w) : w[i] = Unit(m, 0) BY <1>17 DEF Heads
  <2>4. w # <<>>
    <3>1. ASSUME w = <<>> PROVE FALSE
      <4>1. Len(w) = 0 BY <3>1
      <4> QED BY <2>3, <4>1
    <3> QED BY <3>1
  <2> QED BY <1>17, <2>2, <2>4
<1> QED BY <1>4, <1>13, <1>20, <1>21, <1>22, <1>23

\* The header a reader finds: it is one when it starts at a message's first unit.
LEMMA HeaderFacts ==
  ASSUME TypeInv, StreamInv, NEW s \in Streams, HasHeader(s)
  PROVE  LET units == SubSeq(bufs[s], 1, HeaderLen)
             seq == units[1].seq
         IN  /\ Unread(s) # <<>> /\ units[1] = Unread(s)[1] /\ bufs[s] # <<>>
             /\ HeaderLen \in Nat /\ HeaderLen <= Len(bufs[s])
             /\ seq \in 1 .. Len(sent) /\ seq \in Nat
             /\ (units = SubSeq(MessageUnits(seq, 0), 1, HeaderLen)) <=> Unread(s)[1].part = 0
<1>1. Buffers /\ sent \in Seq(Msg) BY DEF TypeInv, Buffers
<1>2. PICK u : u = Unread(s) OBVIOUS
<1>3. Shape(u, sent) BY <1>2 DEF StreamInv
<1>4. PICK b \in Seq(UnitType) : b = bufs[s] BY <1>1, UnreadFacts
<1>50. /\ Len(b) \in Nat /\ Len(b) >= HeaderLen /\ HeaderLen \in Nat /\ HeaderLen >= 1
  BY <1>4, EmptyLen, SizeAssumption DEF HasHeader
<1>51. \A i \in 1 .. Len(b) : i \in 1 .. Len(u) /\ u[i] = b[i] BY <1>1, <1>2, <1>4, UnreadFacts
<1>5. /\ Len(b) \in Nat /\ Len(b) >= HeaderLen /\ HeaderLen \in Nat /\ HeaderLen >= 1
      /\ \A i \in 1 .. Len(b) : i \in 1 .. Len(u) /\ u[i] = b[i]
  BY <1>50, <1>51
<1> DEFINE units == SubSeq(b, 1, HeaderLen)
           m == u[1].seq
<1>6. /\ units \in Seq(UnitType) /\ Len(units) = HeaderLen
      /\ \A i \in 1 .. HeaderLen : units[i] = u[i]
  <2>1. \A i \in 1 .. HeaderLen : b[i] \in UnitType BY <1>5, EmptyLen
  <2>2. /\ units \in Seq(UnitType)
        /\ Len(units) = IF 1 <= HeaderLen THEN HeaderLen - 1 + 1 ELSE 0
        /\ \A i \in 1 .. HeaderLen - 1 + 1 : units[i] = b[1 + i - 1]
    BY <1>5, <2>1, SubSeqProperties
  <2> HIDE DEF units
  <2>3. ASSUME NEW i \in 1 .. HeaderLen PROVE units[i] = u[i]
    <3>1. i \in 1 .. HeaderLen - 1 + 1 /\ 1 + i - 1 = i /\ i \in 1 .. Len(b) BY <1>5, <2>3
    <3> QED BY <1>5, <2>2, <3>1
  <2> QED BY <1>5, <2>2, <2>3
<1> HIDE DEF units
<1>7. 1 \in 1 .. Len(u) /\ 1 \in 1 .. HeaderLen /\ 1 \in 1 .. Len(b) BY <1>5
<1>8. /\ m \in 1 .. Len(sent) /\ m \in Nat /\ Len(u) \in Nat /\ u[1] = Unit(m, u[1].part)
      /\ u[1].part \in Nat /\ Span(sent, m) \in Nat
  BY <1>1, <1>3, <1>7, PlacedFacts
<1>9. u # <<>> /\ b # <<>>
  <2>1. Len(u) # 0 /\ Len(b) # 0 BY <1>5, <1>7, <1>8
  <2>2. u \in Seq(UnitType) BY <1>3 DEF Shape
  <2> QED BY <2>1, <2>2, EmptyLen
<1> HIDE DEF m
<1> DEFINE h == SubSeq(MessageUnits(m, 0), 1, HeaderLen)
<1>10. h \in Seq(UnitType) /\ Len(h) = HeaderLen /\ \A i \in 1 .. HeaderLen : h[i] = Unit(m, i - 1)
  <2>1. PICK c \in Seq(UnitType) : c = MessageUnits(m, 0) BY <1>8, MessageUnitsFacts
  <2>2. Len(c) = HeaderLen /\ \A i \in 1 .. HeaderLen : c[i] = Unit(m, i - 1)
    <3>1. Len(c) = HeaderLen + 0 /\ \A i \in 1 .. HeaderLen + 0 : c[i] = Unit(m, i - 1)
      BY <1>8, <2>1, MessageUnitsFacts, ZenonT(60)
    <3>2. HeaderLen + 0 = HeaderLen BY <1>5
    <3> QED BY <3>1, <3>2
  <2>3. SubSeq(c, 1, HeaderLen) = c BY <2>2, SubSeqFull
  <2> QED BY <2>1, <2>2, <2>3
<1> HIDE DEF h
<1>11. ASSUME u[1].part = 0 PROVE units = h
  <2>1. m = u[1].seq BY DEF m
  <2>2. HeaderLen \in 1 .. Span(sent, u[1].seq) - u[1].part
    <3>1. Span(sent, m) >= HeaderLen BY <1>1, <1>8, SpanFacts
    <3> QED BY <1>5, <1>8, <1>11, <2>1, <3>1
  <2>3. \A j \in 1 .. HeaderLen : u[j] = Unit(u[1].seq, u[1].part + j - 1)
    BY <1>1, <1>3, <1>9, <2>2, ReadFront
  <2>4. ASSUME NEW j \in 1 .. HeaderLen PROVE units[j] = h[j]
    <3>1. 0 + j - 1 = j - 1 BY <1>5
    <3> QED BY <1>6, <1>10, <1>11, <2>1, <2>3, <3>1
  <2> QED BY <1>6, <1>10, <2>4, SameElements
<1>12. ASSUME units = h PROVE u[1].part = 0
  <2>1. u[1] = Unit(m, 1 - 1) BY <1>6, <1>7, <1>10, <1>12
  <2> QED BY <2>1, UnitFacts
<1>13. units[1] = u[1] BY <1>6, <1>7
<1>14. /\ u # <<>> /\ units[1] = u[1] /\ b # <<>>
       /\ HeaderLen \in Nat /\ HeaderLen <= Len(b)
       /\ m \in 1 .. Len(sent) /\ m \in Nat
       /\ units = h <=> u[1].part = 0
  BY <1>5, <1>8, <1>9, <1>11, <1>12, <1>13
<1>15. units[1].seq = m BY <1>13 DEF m
<1> QED BY <1>2, <1>4, <1>14, <1>15 DEF units, h

-----------------------------------------------------------------------------
\* Where the operation under way stands.

\* The stream recv_any selects is one of the connection's.
LEMMA SelectedStream ==
  ASSUME TypeInv, Selectable \cup UnfinishedClosed # {}
  PROVE  Min(IF Selectable # {} THEN Selectable ELSE UnfinishedClosed) \in Streams
<1> DEFINE S == IF Selectable # {} THEN Selectable ELSE UnfinishedClosed
<1>1. Selectable \subseteq Streams /\ UnfinishedClosed \subseteq Streams
  BY DEF TypeInv, Selectable, UnfinishedClosed
<1>2. S \in SUBSET Nat /\ S # {} /\ S \subseteq Streams BY <1>1
<1> HIDE DEF S
<1>3. Min(S) \in S BY <1>2, MinIn
<1> QED BY <1>2, <1>3 DEF S

\* Every step keeps the await, the operation and the markers consistent.
LEMMA ControlStep ==
  ASSUME Inv, [Next]_vars
  PROVE  ControlInv'
<1> USE DEF ControlInv, Return, NoMessage, NoStream
<1>0. TypeInv /\ ControlInv BY DEF Inv
<1>1. CASE UNCHANGED vars BY <1>0, <1>1 DEF vars, call, markers, framer
<1>2. ASSUME NEW what \in {"send", "call"}, NEW s \in Streams \cup {NoStream},
             what = "call" => s \in Streams, StartSend(what, s)
      PROVE  ControlInv'
  BY <1>0, <1>2 DEF StartSend, Reusable, framer
<1>3. CASE EncodeFails BY <1>0, <1>3 DEF EncodeFails, markers, framer, call
<1>4. CASE RecvAny BY <1>0, <1>4 DEF RecvAny, Reusable, markers, framer
<1>5. CASE Refused BY <1>0, <1>5 DEF Refused, vars, call, markers, framer
<1>6. ASSUME NEW s \in Streams, RecvParked(s) PROVE ControlInv'
  BY <1>0, <1>6 DEF RecvParked, Reusable, ReturnMessage, markers, framer
<1>7. ASSUME NEW s \in Streams, RecvFresh(s) PROVE ControlInv'
  BY <1>0, <1>7 DEF RecvFresh, Reusable, markers, framer
<1>8. CASE SendUnit BY <1>0, <1>8 DEF SendUnit, markers, framer
<1>9. CASE SendDone BY <1>0, <1>9 DEF SendDone, framer
<1>10. CASE ReplyWasParked BY <1>0, <1>10 DEF ReplyWasParked, ReturnMessage, framer
<1>11. CASE AwaitReply BY <1>0, <1>11 DEF AwaitReply, framer
<1>12. CASE AnyFound
  <2>1. target' \in Streams BY <1>0, <1>12, SelectedStream DEF AnyFound
  <2> QED BY <1>0, <1>12, <2>1 DEF AnyFound, markers, framer
<1>13. CASE AnyOversize BY <1>0, <1>13 DEF AnyOversize, Fail, markers, framer
<1>14. CASE ReadHeader
  <2>1. header' # NoMessage
    <3>1. PICK s \in Streams : s = target BY <1>0, <1>14 DEF ReadHeader
    <3>2. SubSeq(bufs[s], 1, HeaderLen)[1].seq \in 1 .. Len(sent)
      BY <1>0, <1>14, <3>1, HeaderFacts DEF ReadHeader, Inv
    <3> QED BY <1>14, <3>1, <3>2 DEF ReadHeader
  <2> QED BY <1>0, <1>14, <2>1 DEF ReadHeader, framer
<1>15. CASE ReadHeaderFails BY <1>0, <1>15 DEF ReadHeaderFails, Fail
<1>16. CASE ReadChunk BY <1>0, <1>16 DEF ReadChunk, markers
<1>17. CASE DecodeFails BY <1>0, <1>17 DEF DecodeFails, MessageRead, EndBody, Fail, framer
<1>18. CASE Deliver BY <1>0, <1>18 DEF Deliver, Decoded, MessageRead, EndBody, ReturnMessage, framer
<1>19. CASE Park
  BY <1>0, <1>19 DEF Park, Decoded, MessageRead, EndBody, NextMessage, framer
<1>20. CASE ParkReplace
  BY <1>0, <1>20 DEF ParkReplace, Decoded, MessageRead, EndBody, NextMessage, framer
<1>21. CASE ParkFails
  BY <1>0, <1>21 DEF ParkFails, Decoded, MessageRead, EndBody, Fail, framer
<1>22. CASE ReadEnded BY <1>0, <1>22 DEF ReadEnded, Fail, markers, framer
<1>23. ASSUME NEW s, NEW id, NEW n, NEW k, DeviceSends(s, id, n, k) PROVE ControlInv'
  BY <1>0, <1>23 DEF DeviceSends, markers, framer, call
<1>24. ASSUME NEW s, NEW n, ReceiveFrame(s, n) PROVE ControlInv'
  BY <1>0, <1>24 DEF ReceiveFrame, markers, call
<1>25. ASSUME NEW s, NEW n, ReceiveOverBudget(s, n) PROVE ControlInv'
  BY <1>0, <1>25 DEF ReceiveOverBudget, Fail, markers, Carry, Waiting
<1>26. ASSUME NEW s, ReceiveEnd(s) PROVE ControlInv'
  BY <1>0, <1>26 DEF ReceiveEnd, markers, call
<1>27. ASSUME NEW s, ReceiveReset(s) PROVE ControlInv'
  BY <1>0, <1>27 DEF ReceiveReset, markers, call
<1>28. ASSUME NEW fatal, FrameError(fatal) PROVE ControlInv'
  BY <1>0, <1>28 DEF FrameError, Fail, markers, Waiting
<1>29. CASE Cancel BY <1>0, <1>29 DEF Cancel, Waiting, markers, framer
<1> QED
  BY <1>1, <1>2, <1>3, <1>4, <1>5, <1>6, <1>7, <1>8, <1>9, <1>10, <1>11, <1>12, <1>13, <1>14,
     <1>15, <1>16, <1>17, <1>18, <1>19, <1>20, <1>21, <1>22, <1>23, <1>24, <1>25, <1>26, <1>27,
     <1>28, <1>29
     DEF Next, Start, Request, Read, Sends, Receive, Disturb

-----------------------------------------------------------------------------
\* The streams.

\* Which steps touch a stream.
LEMMA StreamCases ==
  ASSUME [Next]_vars
  PROVE  \/ UNCHANGED <<sent, bufs, wire>>
         \/ ReadHeader \/ ReadHeaderFails \/ ReadChunk \/ Sends
         \/ \E s \in Streams : ReceiveReset(s) \/ Receive(s)
<1>1. CASE UNCHANGED vars BY <1>1 DEF vars, framer, device
<1>2. CASE Start
  BY <1>2 DEF Start, StartSend, EncodeFails, RecvAny, Refused, RecvParked, RecvFresh, framer, device, vars
<1>3. CASE Request
  BY <1>3 DEF Request, SendUnit, SendDone, ReplyWasParked, AwaitReply, framer, device
<1>4. CASE Read
  BY <1>4 DEF Read, AnyFound, AnyOversize, DecodeFails, Deliver, Park, ParkReplace, ParkFails, EndBody,
              ReadEnded, framer, device
<1>5. CASE Disturb BY <1>5 DEF Disturb, ReceiveEnd, FrameError, framer, device
<1>6. CASE Cancel BY <1>6 DEF Cancel, framer, device
<1> QED BY <1>1, <1>2, <1>3, <1>4, <1>5, <1>6 DEF Next

\* How much of the body is read next.
LEMMA ChunkFacts ==
  ASSUME TypeInv, left > 0
  PROVE  NextChunk \in 1 .. left
<1>1. Chunk \in Nat /\ Chunk >= 1 /\ left \in Nat BY SizeAssumption DEF Chunk, TypeInv
<1> DEFINE S == {left, Chunk}
<1>2. S \in SUBSET Nat /\ S # {} BY <1>1
<1>3. left \in S /\ \A x \in S : x = left \/ x = Chunk OBVIOUS
<1> HIDE DEF S
<1>4. Min(S) \in S /\ \A y \in S : Min(S) <= y BY <1>2, MinIn
<1>5. PICK m : m = Min(S) OBVIOUS
<1>6. (m = left \/ m = Chunk) /\ m <= left BY <1>3, <1>4, <1>5
<1>7. m \in 1 .. left
  <2>1. left >= 1 BY <1>1
  <2>2. m \in Nat /\ m >= 1 BY <1>1, <1>6, <2>1
  <2> QED BY <1>1, <1>6, <2>2
<1> QED BY <1>5, <1>7 DEF S, NextChunk

\* What the three reads consume.
LEMMA ReadsCut ==
  ASSUME TypeInv, StreamInv, NEW s \in Streams, s = target,
         ReadHeader \/ ReadHeaderFails \/ ReadChunk
  PROVE  /\ Buffers'
         /\ ReadHeader \/ ReadHeaderFails => HasHeader(s) /\ Cut(s, HeaderLen)
         /\ ReadChunk => NextChunk \in 1 .. left /\ NextChunk <= Len(bufs[s]) /\ Cut(s, NextChunk)
<1>1. CASE ReadHeader \/ ReadHeaderFails
  <2>1. HasHeader(s) BY <1>1 DEF ReadHeader, ReadHeaderFails
  <2>2. HeaderLen \in Nat /\ HeaderLen <= Len(bufs[s]) BY <2>1, HeaderFacts
  <2>3. /\ bufs' = [bufs EXCEPT ![s] = SubSeq(@, HeaderLen + 1, Len(@))] /\ UNCHANGED <<sent, wire>>
    BY <1>1 DEF ReadHeader, ReadHeaderFails, device
  <2>4. Cut(s, HeaderLen) /\ Buffers' BY <2>2, <2>3, ReadCuts
  <2>5. ~ReadChunk
    <3>1. pc = "header" BY <1>1 DEF ReadHeader, ReadHeaderFails
    <3> QED BY <3>1 DEF ReadChunk
  <2> QED BY <2>1, <2>4, <2>5
<1>2. CASE ReadChunk
  <2>1. NextChunk \in 1 .. left BY <1>2, ChunkFacts DEF ReadChunk
  <2>2. PICK n \in 1 .. left : n = NextChunk BY <2>1
  <2>3. n \in Nat /\ n <= Len(bufs[s])
    <3>1. left \in Nat BY DEF TypeInv
    <3>2. n \in Nat BY <3>1
    <3>3. Len(bufs[s]) >= n BY <1>2, <2>2 DEF ReadChunk
    <3>4. Len(bufs[s]) \in Nat BY EmptyLen DEF TypeInv
    <3> QED BY <3>2, <3>3, <3>4
  <2>4. /\ bufs' = [bufs EXCEPT ![s] = SubSeq(@, n + 1, Len(@))] /\ UNCHANGED <<sent, wire>>
    BY <1>2, <2>2 DEF ReadChunk, device
  <2>5. Cut(s, n) /\ Buffers' BY <2>3, <2>4, ReadCuts
  <2>6. ~(ReadHeader \/ ReadHeaderFails)
    <3>1. pc = "body" BY <1>2 DEF ReadChunk
    <3> QED BY <3>1 DEF ReadHeader, ReadHeaderFails
  <2> QED BY <2>1, <2>2, <2>3, <2>5, <2>6
<1> QED BY <1>1, <1>2

\* What a frame, a refused frame and a reset do.
LEMMA FramesCut ==
  ASSUME TypeInv, StreamInv, NEW s \in Streams, NEW n \in 1 .. Frame
  PROVE  /\ ReceiveFrame(s, n) => /\ StreamInv' /\ Buffers' /\ InTransit' = InTransit /\ sent' = sent
                                  /\ \A t \in Streams : Unread(t)' = Unread(t)
         /\ ReceiveOverBudget(s, n) => Buffers' /\ Cut(s, Len(bufs[s]) + n)
<1>1. Frame \in Nat /\ n \in Nat BY SizeAssumption
<1>2. ASSUME Carry(s, n) PROVE n <= Len(wire[s]) /\ wire' = [wire EXCEPT ![s] = SubSeq(@, n + 1, Len(@))]
  BY <1>2 DEF Carry
<1>3. ASSUME ReceiveFrame(s, n)
      PROVE  /\ StreamInv' /\ Buffers' /\ InTransit' = InTransit /\ sent' = sent
             /\ \A t \in Streams : Unread(t)' = Unread(t)
  <2>1. bufs' = [bufs EXCEPT ![s] = @ \o SubSeq(wire[s], 1, n)] /\ sent' = sent BY <1>3 DEF ReceiveFrame
  <2>2. Carry(s, n) BY <1>3 DEF ReceiveFrame
  <2> QED BY <1>1, <1>2, <2>1, <2>2, CarryEffect
<1>4. ASSUME ReceiveOverBudget(s, n) PROVE Buffers' /\ Cut(s, Len(bufs[s]) + n)
  <2>1. bufs' = [bufs EXCEPT ![s] = <<>>] /\ sent' = sent BY <1>4 DEF ReceiveOverBudget
  <2>2. Carry(s, n) BY <1>4 DEF ReceiveOverBudget
  <2> QED BY <1>1, <1>2, <2>1, <2>2, DropCuts
<1> QED BY <1>3, <1>4

\* Every step keeps the shape of every stream.
LEMMA StreamStep ==
  ASSUME Inv, [Next]_vars
  PROVE  StreamInv' /\ Buffers' /\ sent' \in Seq(Msg)
<1>0. TypeInv /\ StreamInv /\ ControlInv BY DEF Inv
<1>1. CASE UNCHANGED <<sent, bufs, wire>> BY <1>0, <1>1, QuietEffect DEF TypeInv
<1>2. CASE ReadHeader \/ ReadHeaderFails \/ ReadChunk
  <2>1. PICK s \in Streams : s = target
    BY <1>0, <1>2 DEF ControlInv, ReadHeader, ReadHeaderFails, ReadChunk
  <2>2. Buffers' /\ \E k : Cut(s, k) BY <1>0, <1>2, <2>1, ReadsCut
  <2>3. PICK k : Cut(s, k) BY <2>2
  <2>4. StreamInv' BY <1>0, <2>2, <2>3, CutEffect
  <2> QED BY <1>0, <2>2, <2>3, <2>4 DEF Cut, TypeInv
<1>3. CASE Sends
  <2>1. PICK s \in Streams, id \in DeviceIds, n \in Bodies, k \in Kinds : DeviceSends(s, id, n, k)
    BY <1>3 DEF Sends
  <2>2. PICK x : x = [stream |-> s, id |-> id, len |-> n, kind |-> k] OBVIOUS
  <2>3. x \in Msg /\ x.stream = s /\ x.len = n BY <2>2, SizeAssumption DEF Msg
  <2>4. /\ sent' = Append(sent, x) /\ bufs' = bufs
        /\ wire' = [wire EXCEPT ![s] = @ \o MessageUnits(Len(sent) + 1, x.len)]
    BY <2>1, <2>2, <2>3 DEF DeviceSends, framer
  <2> QED BY <1>0, <2>3, <2>4, GrowEffect
<1>4. ASSUME NEW s \in Streams, ReceiveReset(s) PROVE StreamInv' /\ Buffers' /\ sent' \in Seq(Msg)
  <2>1. bufs' = [bufs EXCEPT ![s] = <<>>] /\ wire' = [wire EXCEPT ![s] = <<>>] /\ sent' = sent
    BY <1>4 DEF ReceiveReset
  <2>2. Buffers' /\ \E k : Cut(s, k) BY <1>0, <2>1, ResetCuts
  <2>3. PICK k : Cut(s, k) BY <2>2
  <2> QED BY <1>0, <2>1, <2>2, <2>3, CutEffect DEF TypeInv
<1>5. ASSUME NEW s \in Streams, Receive(s) PROVE StreamInv' /\ Buffers' /\ sent' \in Seq(Msg)
  <2>1. PICK n \in 1 .. Frame : ReceiveFrame(s, n) \/ ReceiveOverBudget(s, n) BY <1>5 DEF Receive
  <2>2. CASE ReceiveFrame(s, n) BY <1>0, <2>2, FramesCut DEF TypeInv
  <2>3. CASE ReceiveOverBudget(s, n)
    <3>1. Buffers' /\ \E k : Cut(s, k) BY <1>0, <2>3, FramesCut
    <3>2. PICK k : Cut(s, k) BY <3>1
    <3>3. StreamInv' BY <1>0, <3>1, <3>2, CutEffect
    <3> QED BY <1>0, <3>1, <3>2, <3>3 DEF Cut, TypeInv
  <2> QED BY <2>1, <2>2, <2>3
<1> QED BY <1>1, <1>2, <1>3, <1>4, <1>5, StreamCases

-----------------------------------------------------------------------------
\* The parked messages.

\* A failing operation clears the queue of the stream it reads, and nothing else.
LEMMA FailEffect ==
  ASSUME TypeInv, ControlInv, ParkInv, NEW X, Fail(X), sent' = sent
  PROVE  /\ ParkInv' /\ pending_messages' \in [Streams -> Seq(Nat)]
         /\ pc' = "idle" /\ op' = "none" /\ header' = NoMessage /\ BeingRead' = {}
         /\ \E Q \in SUBSET Parked :
              Parked' = Parked \ Q /\ lost' = lost \cup X \cup BeingRead \cup Q
<1>1. /\ pc' = "idle" /\ op' = "none" /\ header' = NoMessage /\ BeingRead' = {}
  BY DEF Fail, Return, BeingRead, NoMessage
<1>2. CASE pc \in {"header", "body"}
  <2>1. PICK s \in Streams : s = target BY <1>2 DEF ControlInv
  <2>2. /\ clear_pending_stream(s)
        /\ lost' = lost \cup X \cup BeingRead \cup ToSet(pending_messages[s])
    BY <1>2, <2>1 DEF Fail
  <2>3. /\ ParkInv' /\ pending_messages' \in [Streams -> Seq(Nat)]
        /\ Parked' = Parked \ ToSet(pending_messages[s])
        /\ ToSet(pending_messages[s]) \subseteq Parked
    BY <2>2, ClearEffect
  <2> QED BY <1>1, <2>2, <2>3
<1>3. CASE pc \notin {"header", "body"}
  <2>1. pending_messages' = pending_messages /\ lost' = lost \cup X BY <1>3 DEF Fail, parked
  <2>2. BeingRead = {} BY <1>3 DEF BeingRead, ControlInv
  <2>3. ParkInv' BY <2>1 DEF ParkInv
  <2>4. Parked' = Parked \ {} /\ lost' = lost \cup X \cup BeingRead \cup {}
    BY <2>1, <2>2 DEF Parked
  <2>5. pending_messages' \in [Streams -> Seq(Nat)] BY <2>1 DEF TypeInv
  <2>6. {} \in SUBSET Parked OBVIOUS
  <2> QED BY <1>1, <2>3, <2>4, <2>5, <2>6
<1> QED BY <1>2, <1>3

\* The entry recv_reply_on_stream finds.
LEMMA PositionFacts ==
  ASSUME TypeInv, NEW s \in Streams, NEW id, Position(s, id) # {}
  PROVE  /\ Min(Position(s, id)) \in 1 .. Len(pending_messages[s])
         /\ sent[pending_messages[s][Min(Position(s, id))]].id = id
<1>1. pending_messages[s] \in Seq(Nat) BY DEF TypeInv
<1>2. DOMAIN pending_messages[s] = 1 .. Len(pending_messages[s]) BY <1>1
<1>3. Position(s, id) \in SUBSET Nat BY <1>2 DEF Position
<1>4. Min(Position(s, id)) \in Position(s, id) BY <1>3, MinIn
<1> QED BY <1>2, <1>4 DEF Position

\* Which steps touch the parked messages.
LEMMA ParkCases ==
  ASSUME [Next]_vars
  PROVE  \/ pending_messages' = pending_messages /\ (sent' = sent \/ Sends)
         \/ sent' = sent /\ \E X : Fail(X)
         \/ ReplyWasParked \/ Park \/ ParkReplace
         \/ \E s \in Streams : RecvParked(s)
<1>1. CASE UNCHANGED vars BY <1>1 DEF vars, parked, device
<1>2. CASE Start
  <2>1. ASSUME NEW s \in {ClientServer, ServerClient} PROVE s \in Streams BY StreamAssumption
  <2> QED
    BY <1>2, <2>1 DEF Start, StartSend, EncodeFails, RecvAny, Refused, RecvFresh, parked, device, vars
<1>3. CASE Request BY <1>3 DEF Request, SendUnit, SendDone, AwaitReply, parked, device
<1>4. CASE Read
  BY <1>4 DEF Read, AnyFound, AnyOversize, ReadHeader, ReadHeaderFails, ReadChunk, DecodeFails, Deliver,
              ParkFails, EndBody, ReadEnded, parked, device
<1>5. CASE Sends BY <1>5 DEF Sends, DeviceSends, parked
<1>6. CASE \E s \in Streams : Receive(s)
  BY <1>6 DEF Receive, ReceiveFrame, ReceiveOverBudget, parked
<1>7. CASE Disturb BY <1>7 DEF Disturb, ReceiveEnd, ReceiveReset, FrameError, parked, device
<1>8. CASE Cancel BY <1>8 DEF Cancel, parked, device
<1> QED BY <1>1, <1>2, <1>3, <1>4, <1>5, <1>6, <1>7, <1>8 DEF Next

\* The message that was read is in no other place.
LEMMA ReadIsApart ==
  ASSUME Inv, MessageRead
  PROVE  /\ target \in Streams /\ header \in 1 .. Len(sent) /\ header \in Nat
         /\ sent[header].stream = target /\ BeingRead = {header}
         /\ header \notin Parked \cup Taken \cup lost \cup InTransit
<1>1. pc = "body" BY DEF MessageRead
<1>2. target \in Streams /\ header # NoMessage BY <1>1 DEF Inv, ControlInv
<1>3. header \in 1 .. Len(sent) /\ sent[header].stream = target BY <1>1 DEF Inv, BodyInv
<1>4. BeingRead = {header} BY <1>2 DEF BeingRead
<1>5. header \in Nat BY DEF Inv, TypeInv
<1>6. Apart(InTransit, BeingRead, Parked, Taken, lost) BY DEF Inv, PlaceInv
<1>7. header \notin Parked \cup Taken \cup lost \cup InTransit BY <1>4, <1>6 DEF Apart
<1> QED BY <1>2, <1>3, <1>4, <1>5, <1>7

\* A message is parked at the end of its stream's queue, or in the place of an older one.
LEMMA ParkEffect ==
  ASSUME Inv, Park \/ ParkReplace
  PROVE  /\ ParkInv' /\ pending_messages' \in [Streams -> Seq(Nat)]
         /\ \E Q \in SUBSET Parked : /\ Parked' = (Parked \ Q) \cup {header}
                                     /\ lost' = lost \cup Q
<1>0. TypeInv /\ ParkInv BY DEF Inv
<1>1. MessageRead BY DEF Park, ParkReplace, Decoded
<1>2. /\ target \in Streams /\ header \in 1 .. Len(sent) /\ header \in Nat
      /\ sent[header].stream = target /\ header \notin Parked
  BY <1>1, ReadIsApart
<1>3. PICK s \in Streams : s = target BY <1>2
<1>4. PICK h \in Nat : h = header BY <1>2
<1>5. PICK q \in Seq(Nat) : q = pending_messages[s] BY <1>0 DEF TypeInv
<1>6. /\ Inj(q) /\ \A m \in ToSet(q) : m \in 1 .. Len(sent) /\ sent[m].stream = s
  BY <1>0, <1>5 DEF ParkInv
<1>7. ToSet(q) \subseteq Parked BY <1>5 DEF Parked
<1>8. h \notin ToSet(q) BY <1>2, <1>4, <1>7
<1>9. sent' = sent BY DEF Park, ParkReplace, EndBody, device
<1>10. CASE Park
  <2>1. pending_messages' = [pending_messages EXCEPT ![s] = Append(q, h)] /\ lost' = lost
    BY <1>3, <1>4, <1>5, <1>10 DEF Park
  <2>2. Append(q, h) \in Seq(Nat) /\ Inj(Append(q, h)) /\ ToSet(Append(q, h)) = ToSet(q) \cup {h}
    BY <1>6, <1>8, PushFacts
  <2>3. PICK r \in Seq(Nat) : r = Append(q, h) BY <2>2
  <2>4. \A m \in ToSet(r) : m \in 1 .. Len(sent) /\ sent[m].stream = s
    BY <1>2, <1>3, <1>4, <1>6, <2>2, <2>3
  <2>5. /\ ParkInv' /\ pending_messages' \in [Streams -> Seq(Nat)]
        /\ Parked' = (Parked \ ToSet(pending_messages[s])) \cup ToSet(r)
    BY <1>0, <1>9, <2>1, <2>2, <2>3, <2>4, ParkedUpdate
  <2>6. ToSet(r) = ToSet(q) \cup {h} BY <2>2, <2>3
  <2>7. Parked' = (Parked \ {}) \cup {header} BY <1>4, <1>5, <1>7, <2>5, <2>6
  <2>8. {} \in SUBSET Parked /\ lost' = lost \cup {} BY <2>1
  <2> QED BY <2>5, <2>7, <2>8
<1>11. CASE ParkReplace
  <2>1. Same # {} /\ Same = Position(s, sent[h].id)
    BY <1>3, <1>4, <1>11 DEF ParkReplace, Same
  <2>2. PICK i : i = Min(Same) OBVIOUS
  <2>3. i \in 1 .. Len(q) BY <1>0, <1>5, <2>1, <2>2, PositionFacts
  <2>4. /\ pending_messages' = [pending_messages EXCEPT ![s][i] = h]
        /\ lost' = lost \cup {q[i]}
    BY <1>3, <1>4, <1>5, <1>11, <2>2 DEF ParkReplace
  <2> DEFINE e == [q EXCEPT ![i] = h]
  <2>50. e \in Seq(Nat) /\ Inj(e) /\ ToSet(e) = (ToSet(q) \ {q[i]}) \cup {h}
    BY ONLY q \in Seq(Nat), h \in Nat, <1>6, <1>8, <2>3, ReplaceFacts, Zenon
  <2>5. PICK r : r = e OBVIOUS
  <2>6. r \in Seq(Nat) /\ Inj(r) /\ ToSet(r) = (ToSet(q) \ {q[i]}) \cup {h}
    BY ONLY <2>50, <2>5
  <2>7. pending_messages' = [pending_messages EXCEPT ![s] = r] BY <1>5, <2>4, <2>5
  <2>8. \A m \in ToSet(r) : m \in 1 .. Len(sent) /\ sent[m].stream = s
    BY <1>2, <1>3, <1>4, <1>6, <2>6
  <2>9. /\ ParkInv' /\ pending_messages' \in [Streams -> Seq(Nat)]
        /\ Parked' = (Parked \ ToSet(pending_messages[s])) \cup ToSet(r)
    BY <1>0, <1>9, <2>6, <2>7, <2>8, ParkedUpdate
  <2>10. q[i] \in ToSet(q) BY <2>3, ToSetFacts
  <2>11. \A t \in Streams : t # s => ToSet(pending_messages[t]) \cap ToSet(q) = {}
    BY <1>0, <1>6 DEF ParkInv
  <2>12. Parked' = (Parked \ {q[i]}) \cup {header}
    BY <1>4, <1>5, <1>7, <2>6, <2>9, <2>10
  <2> QED BY <1>7, <2>4, <2>9, <2>10, <2>12
<1> QED BY <1>10, <1>11

\* Every step keeps what is parked: no message twice, each on its own stream.
LEMMA ParkStep ==
  ASSUME Inv, [Next]_vars
  PROVE  ParkInv' /\ pending_messages' \in [Streams -> Seq(Nat)]
<1>0. TypeInv /\ ParkInv /\ ControlInv BY DEF Inv
<1>1. CASE pending_messages' = pending_messages /\ sent' = sent
  BY <1>0, <1>1 DEF ParkInv, TypeInv
<1>2. CASE pending_messages' = pending_messages /\ Sends
  <2>1. PICK x : sent' = Append(sent, x) BY <1>2 DEF Sends, DeviceSends
  <2>2. sent' \in Seq(Msg) BY StreamStep
  <2>3. sent \in Seq(Msg) BY <1>0 DEF TypeInv
  <2>4. Len(sent') = Len(sent) + 1 /\ Len(sent) \in Nat /\ \A m \in 1 .. Len(sent) : sent'[m] = sent[m]
    BY <2>1, <2>3, EmptyLen
  <2>5. \A m \in 1 .. Len(sent) : m \in 1 .. Len(sent') BY <2>4
  <2> QED BY <1>0, <1>2, <2>4, <2>5 DEF ParkInv, TypeInv
<1>3. CASE sent' = sent /\ \E X : Fail(X) BY <1>0, <1>3, FailEffect
<1>4. CASE ReplyWasParked
  <2>1. PICK s \in Streams : s = target BY <1>0, <1>4 DEF ReplyWasParked, ControlInv
  <2>2. PICK i : i = Min(Position(s, reply_id)) OBVIOUS
  <2>3. i \in 1 .. Len(pending_messages[s]) BY <1>0, <1>4, <2>1, <2>2, PositionFacts DEF ReplyWasParked
  <2>4. release(s, i) /\ sent' = sent BY <1>4, <2>1, <2>2 DEF ReplyWasParked, device
  <2> QED BY <1>0, <2>3, <2>4, ReleaseEffect
<1>5. CASE Park \/ ParkReplace BY <1>5, ParkEffect
<1>6. ASSUME NEW s \in Streams, RecvParked(s) PROVE ParkInv' /\ pending_messages' \in [Streams -> Seq(Nat)]
  <2>1. release(s, 1) /\ sent' = sent BY <1>6 DEF RecvParked, device
  <2>2. 1 \in 1 .. Len(pending_messages[s])
    <3>1. pending_messages[s] \in Seq(Nat) /\ pending_messages[s] # <<>> BY <1>0, <1>6 DEF TypeInv, RecvParked
    <3> QED BY <3>1, EmptyLen
  <2> QED BY <1>0, <2>1, <2>2, ReleaseEffect
<1> QED BY <1>1, <1>2, <1>3, <1>4, <1>5, <1>6, ParkCases

-----------------------------------------------------------------------------
\* Requests, replies and types.

\* Which steps return a message.
LEMMA ReturnCases ==
  ASSUME [Next]_vars
  PROVE  \/ returned' = returned
         \/ Deliver /\ ReturnMessage(header)
         \/ ReplyWasParked
         \/ \E s \in Streams : RecvParked(s)
<1>1. CASE UNCHANGED vars BY <1>1 DEF vars, history
<1>2. CASE Start
  <2>1. ASSUME NEW s \in {ClientServer, ServerClient} PROVE s \in Streams BY StreamAssumption
  <2> QED
    BY <1>2, <2>1 DEF Start, StartSend, EncodeFails, RecvAny, Refused, RecvFresh, history, vars
<1>3. CASE Request BY <1>3 DEF Request, SendUnit, SendDone, AwaitReply, history
<1>4. CASE Read
  BY <1>4 DEF Read, AnyFound, AnyOversize, ReadHeader, ReadHeaderFails, ReadChunk, DecodeFails, Deliver,
              Park, ParkReplace, NextMessage, ParkFails, ReadEnded, history
<1>5. CASE Sends BY <1>5 DEF Sends, DeviceSends, history
<1>6. CASE \E s \in Streams : Receive(s)
  BY <1>6 DEF Receive, ReceiveFrame, ReceiveOverBudget, history
<1>7. CASE Disturb BY <1>7 DEF Disturb, ReceiveEnd, ReceiveReset, FrameError, history
<1>8. CASE Cancel BY <1>8 DEF Cancel, history
<1> QED BY <1>1, <1>2, <1>3, <1>4, <1>5, <1>6, <1>7, <1>8 DEF Next

\* The message a step returns: a call's has the identifier the call waits for.
LEMMA ReturnEffect ==
  ASSUME Inv, [Next]_vars, returned' # returned
  PROVE  \E m \in 1 .. Len(sent) :
            /\ m \in Nat /\ ReturnMessage(m) /\ sent' = sent /\ msg_id' = msg_id
            /\ op \in {"none", "call", "recv", "any"}
            /\ op = "call" => sent[m].id = reply_id
<1>0. TypeInv /\ ParkInv /\ ControlInv BY DEF Inv
<1>1. CASE Deliver /\ ReturnMessage(header)
  <2>1. MessageRead /\ Matches /\ sent' = sent /\ msg_id' = msg_id
    BY <1>1 DEF Deliver, Decoded, EndBody, device
  <2>2. header \in 1 .. Len(sent) /\ header \in Nat BY <2>1, ReadIsApart
  <2>3. pc = "body" BY <2>1 DEF MessageRead
  <2>4. op \in {"none", "call", "recv", "any"} BY <1>0, <2>3 DEF ControlInv
  <2>5. op = "call" => sent[header].id = reply_id BY <2>1 DEF Matches
  <2> QED BY <1>1, <2>1, <2>2, <2>4, <2>5
<1>2. CASE ReplyWasParked
  <2>1. PICK s \in Streams : s = target BY <1>0, <1>2 DEF ReplyWasParked, ControlInv
  <2>2. PICK i : i = Min(Position(s, reply_id)) OBVIOUS
  <2>3. i \in 1 .. Len(pending_messages[s]) /\ sent[pending_messages[s][i]].id = reply_id
    BY <1>0, <1>2, <2>1, <2>2, PositionFacts DEF ReplyWasParked
  <2>4. /\ release(s, i) /\ sent' = sent /\ msg_id' = msg_id /\ op = "call"
        /\ ReturnMessage(pending_messages[s][i])
    BY <1>2, <2>1, <2>2 DEF ReplyWasParked, device
  <2>5. pending_messages[s][i] \in 1 .. Len(sent) /\ pending_messages[s][i] \in Nat
    BY <1>0, <2>3, <2>4, ReleaseEffect
  <2> QED BY <2>3, <2>4, <2>5
<1>3. ASSUME NEW s \in Streams, RecvParked(s)
      PROVE  \E m \in 1 .. Len(sent) :
                /\ m \in Nat /\ ReturnMessage(m) /\ sent' = sent /\ msg_id' = msg_id
                /\ op \in {"none", "call", "recv", "any"}
                /\ op = "call" => sent[m].id = reply_id
  <2>1. /\ release(s, 1) /\ sent' = sent /\ msg_id' = msg_id /\ pc = "idle"
        /\ ReturnMessage(pending_messages[s][1])
    BY <1>3 DEF RecvParked, device
  <2>2. 1 \in 1 .. Len(pending_messages[s])
    <3>1. pending_messages[s] \in Seq(Nat) /\ pending_messages[s] # <<>> BY <1>0, <1>3 DEF TypeInv, RecvParked
    <3> QED BY <3>1, EmptyLen
  <2>3. pending_messages[s][1] \in 1 .. Len(sent) /\ pending_messages[s][1] \in Nat
    BY <1>0, <2>1, <2>2, ReleaseEffect
  <2>4. op = "none" BY <1>0, <2>1 DEF ControlInv
  <2> QED BY <2>1, <2>3, <2>4
<1> QED BY <1>1, <1>2, <1>3, ReturnCases

\* What the steps do to the message identifiers.
LEMMA IdStep ==
  ASSUME Inv, [Next]_vars
  PROVE  /\ msg_id' \in Nat \ {0} /\ msg_id' >= msg_id
         /\ op' = "call" => reply_id' < msg_id' /\ ((op = "call" /\ reply_id' = reply_id) \/ reply_id' = msg_id)
<1>0. TypeInv /\ ControlInv /\ ReplyInv BY DEF Inv
<1>1. msg_id \in Nat \ {0} BY <1>0 DEF TypeInv
<1>2. op = "call" => reply_id < msg_id BY <1>0 DEF ReplyInv
<1>3. CASE UNCHANGED <<msg_id, op, reply_id>> BY <1>1, <1>2, <1>3
<1>4. CASE msg_id' = msg_id /\ op' # "call" BY <1>1, <1>4
<1>5. ASSUME NEW what, NEW s, StartSend(what, s)
      PROVE  msg_id' = msg_id + 1 /\ reply_id' = msg_id
  BY <1>5 DEF StartSend
<1>6. CASE EncodeFails
  <2>1. msg_id' = msg_id + 1 /\ op' = op /\ reply_id' = reply_id BY <1>6 DEF EncodeFails, call
  <2>2. op # "call" BY <1>0, <1>6 DEF EncodeFails, ControlInv
  <2> QED BY <1>1, <2>1, <2>2
<1> DEFINE Starts == \E what \in {"send", "call"}, s \in Streams \cup {NoStream} : StartSend(what, s)
<1>7. CASE Starts BY <1>1, <1>5, <1>7
<1>8. UNCHANGED <<msg_id, op, reply_id>> \/ (msg_id' = msg_id /\ op' # "call") \/ EncodeFails \/ Starts
  <2>0. ASSUME NEW s \in {ClientServer, ServerClient}, StartSend("call", s) PROVE Starts
    BY <2>0, StreamAssumption
  <2>00. ASSUME StartSend("send", NoStream) PROVE Starts BY <2>00
  <2> HIDE DEF Starts
  <2>1. CASE UNCHANGED vars BY <2>1 DEF vars, call
  <2>2. CASE Start
    BY <2>0, <2>00, <2>2 DEF Start, RecvAny, Refused, RecvParked, RecvFresh, ReturnMessage, Return, call, vars
  <2>3. CASE Request
    BY <2>3 DEF Request, SendUnit, SendDone, ReplyWasParked, AwaitReply, ReturnMessage, Return
  <2>4. CASE Read
    BY <2>4 DEF Read, AnyFound, AnyOversize, ReadHeader, ReadHeaderFails, ReadChunk, DecodeFails, Deliver,
                Park, ParkReplace, NextMessage, ParkFails, ReadEnded, EndBody, Fail, ReturnMessage, Return
  <2>5. CASE Sends BY <2>5 DEF Sends, DeviceSends, call
  <2>6. CASE \E s \in Streams : Receive(s)
    BY <2>6 DEF Receive, ReceiveFrame, ReceiveOverBudget, Fail, Return, call
  <2>7. CASE Disturb BY <2>7 DEF Disturb, ReceiveEnd, ReceiveReset, FrameError, Fail, Return, call
  <2>8. CASE Cancel BY <2>8 DEF Cancel, Return
  <2> QED BY <2>1, <2>2, <2>3, <2>4, <2>5, <2>6, <2>7, <2>8 DEF Next
<1> QED BY <1>3, <1>4, <1>6, <1>7, <1>8

\* Messages are sent once.
LEMMA SentGrows ==
  ASSUME Inv, [Next]_vars
  PROVE  /\ Len(sent) \in Nat /\ Len(sent') \in Nat /\ Len(sent) <= Len(sent')
         /\ \A m \in 1 .. Len(sent) : m \in 1 .. Len(sent') /\ sent'[m] = sent[m]
<1>1. sent \in Seq(Msg) BY DEF Inv, TypeInv
<1>2. CASE sent' = sent BY <1>1, <1>2, EmptyLen
<1>3. CASE Sends
  <2>1. PICK x : sent' = Append(sent, x) BY <1>3 DEF Sends, DeviceSends
  <2> QED BY <1>1, <2>1, EmptyLen
<1>4. sent' = sent \/ Sends
  <2>1. CASE ReadHeader \/ ReadHeaderFails \/ ReadChunk
    BY <2>1 DEF ReadHeader, ReadHeaderFails, ReadChunk, device
  <2>2. CASE \E s \in Streams : ReceiveReset(s) \/ Receive(s)
    BY <2>2 DEF ReceiveReset, Receive, ReceiveFrame, ReceiveOverBudget
  <2> QED BY <2>1, <2>2, StreamCases
<1> QED BY <1>2, <1>3, <1>4

\* Every step keeps the IDs of calls apart, and a reply with the call it answers.
LEMMA ReplyStep ==
  ASSUME Inv, [Next]_vars
  PROVE  ReplyInv'
<1>0. TypeInv /\ ReplyInv /\ PlaceInv BY DEF Inv
<1>1. /\ msg_id \in Nat \ {0} /\ msg_id' \in Nat \ {0} /\ msg_id' >= msg_id
      /\ op' = "call" => reply_id' < msg_id' /\ ((op = "call" /\ reply_id' = reply_id) \/ reply_id' = msg_id)
  BY <1>0, IdStep DEF TypeInv
<1>2. \A r \in returned : r.seq \in 1 .. Len(sent) /\ r.id \in Nat
  <2>1. \A r \in returned : r.seq \in Taken BY DEF Taken
  <2>2. Taken \subseteq 1 .. Len(sent) BY <1>0 DEF PlaceInv, Everywhere
  <2> QED BY <1>0, <2>1, <2>2 DEF TypeInv
<1>3. \A m \in 1 .. Len(sent) : sent'[m] = sent[m] BY SentGrows
<1>4. ASSUME NEW r \in returned, r.op = "call"
      PROVE  /\ sent'[r.seq].id = r.id /\ r.id < msg_id' /\ (op' = "call" => r.id # reply_id')
             /\ r.id < msg_id
             /\ \A q \in returned : q.op = "call" /\ q.id = r.id => q = r
  <2>1. /\ sent[r.seq].id = r.id /\ r.id < msg_id /\ (op = "call" => r.id # reply_id)
        /\ \A q \in returned : q.op = "call" /\ q.id = r.id => q = r
    BY <1>0, <1>4 DEF ReplyInv
  <2>2. sent'[r.seq].id = r.id BY <1>2, <1>3, <2>1
  <2>3. r.id \in Nat BY <1>2
  <2>4. r.id < msg_id' BY <1>1, <2>1, <2>3
  <2>5. r.id # msg_id BY <1>1, <2>1, <2>3
  <2>6. op' = "call" => r.id # reply_id' BY <1>1, <2>1, <2>5
  <2> QED BY <2>1, <2>2, <2>4, <2>6
<1>5. CASE returned' = returned BY <1>1, <1>4, <1>5 DEF ReplyInv
<1>6. CASE returned' # returned
  <2>1. PICK m \in 1 .. Len(sent) :
            /\ m \in Nat /\ ReturnMessage(m) /\ sent' = sent /\ msg_id' = msg_id
            /\ op = "call" => sent[m].id = reply_id
    BY <1>6, ReturnEffect
  <2>2. PICK x : x = [seq |-> m, op |-> op, id |-> reply_id] OBVIOUS
  <2>3. /\ returned' = returned \cup {x} /\ op' = "none" /\ x.seq = m /\ x.op = op /\ x.id = reply_id
    BY <2>1, <2>2 DEF ReturnMessage, Return
  <2>4. op = "call" => reply_id < msg_id /\ \A r \in returned : r.op = "call" => r.id # reply_id
    BY <1>0 DEF ReplyInv
  <2>5. ASSUME x.op = "call"
        PROVE  /\ sent'[x.seq].id = x.id /\ x.id < msg_id'
               /\ \A q \in returned : q.op = "call" => q.id # x.id
    BY <2>1, <2>3, <2>4, <2>5
  <2>6. op' # "call" BY <2>3
  <2> QED BY <1>4, <2>3, <2>5, <2>6 DEF ReplyInv
<1> QED BY <1>5, <1>6

\* A request is written from its first unit to its last.
LEMMA RequestStep ==
  ASSUME Inv, [Next]_vars
  PROVE  RequestInv' /\ request_units' \in Nat
<1>0. RequestInv /\ ControlInv BY DEF Inv
<1>1. left \in Nat /\ request_units \in Nat /\ SendLen \in Nat \ {0} BY SizeAssumption DEF Inv, TypeInv
<1>2. CASE /\ request_units' = request_units
           /\ sending_message_in_progress' = sending_message_in_progress
           /\ (pc' = "send" => pc = "send" /\ left' = left)
           /\ ("MIXED_REQUEST" \in faults' => "MIXED_REQUEST" \in faults)
  BY <1>0, <1>1, <1>2 DEF RequestInv
<1>3. ASSUME NEW what, NEW s, StartSend(what, s) PROVE RequestInv' /\ request_units' \in Nat
  <2>1. /\ ~sending_message_in_progress /\ sending_message_in_progress' /\ pc' = "send"
        /\ left' = SendLen /\ request_units' = request_units /\ faults' = faults
    BY <1>3 DEF StartSend, Reusable, device, history
  <2>2. request_units = 0 BY <1>0, <2>1 DEF RequestInv
  <2> QED BY <1>0, <1>1, <2>1, <2>2 DEF RequestInv
<1>4. CASE SendUnit
  <2>1. /\ pc = "send" /\ left > 0 /\ left' = left - 1 /\ pc' = pc
        /\ request_units' = (request_units + 1) % SendLen
        /\ sending_message_in_progress' = sending_message_in_progress
    BY <1>4 DEF SendUnit, markers
  <2>2. left <= SendLen /\ request_units = SendLen - left BY <1>0, <1>1, <2>1 DEF RequestInv
  <2>3. faults' = faults BY <1>4, <2>2 DEF SendUnit
  <2>4. PICK k : k = request_units + 1 OBVIOUS
  <2>5. k \in 1 .. SendLen /\ (k = SendLen <=> left' = 0) /\ left' \in Nat /\ left' <= SendLen
        /\ k = SendLen - left'
    BY <1>1, <2>1, <2>2, <2>4
  <2>6. k % SendLen = IF k = SendLen THEN 0 ELSE k BY <1>1, <2>5, ModSmall
  <2>7. request_units' = IF left' = 0 THEN 0 ELSE SendLen - left' BY <2>1, <2>4, <2>5, <2>6
  <2>8. request_units' \in Nat
    <3>1. request_units' = 0 \/ request_units' = k BY <2>1, <2>4, <2>6
    <3>2. k \in 1 .. SendLen BY <2>5
    <3>3. \A x \in 1 .. SendLen : x \in Nat BY <1>1
    <3>4. k \in Nat BY <3>2, <3>3
    <3> QED BY <3>1, <3>4
  <2>9. sending_message_in_progress BY <1>0, <2>1 DEF ControlInv
  <2> QED BY <1>0, <2>1, <2>3, <2>5, <2>7, <2>8, <2>9 DEF RequestInv
<1>5. CASE SendDone \/ ReplyWasParked \/ AwaitReply
  <2>1. /\ pc = "send" /\ left = 0 /\ pc' # "send" /\ request_units' = request_units
    BY <1>5 DEF SendDone, ReplyWasParked, AwaitReply, ReturnMessage, Return, device
  <2>2. request_units = 0 BY <1>0, <2>1 DEF RequestInv
  <2>3. "MIXED_REQUEST" \in faults' => "MIXED_REQUEST" \in faults
    BY <1>5 DEF SendDone, ReplyWasParked, AwaitReply, ReturnMessage, history
  <2> QED BY <1>0, <1>1, <2>1, <2>2, <2>3 DEF RequestInv
<1>6. CASE UNCHANGED vars BY <1>2, <1>6 DEF vars, markers, call, device, history
<1>7. CASE EncodeFails \/ RecvAny \/ Refused
  BY <1>2, <1>7 DEF EncodeFails, RecvAny, Refused, vars, markers, call, device, history
<1>8. ASSUME NEW s, RecvParked(s) \/ RecvFresh(s) PROVE RequestInv' /\ request_units' \in Nat
  BY <1>2, <1>8 DEF RecvParked, RecvFresh, ReturnMessage, Return, markers, device, history
<1>9. CASE AnyFound \/ AnyOversize \/ ReadHeader \/ ReadHeaderFails \/ ReadChunk \/ ReadEnded
  <2>1. CASE AnyFound BY <1>2, <2>1 DEF AnyFound, markers, device, history
  <2>2. CASE AnyOversize BY <1>2, <2>2 DEF AnyOversize, Fail, Return, markers, device
  <2>3. CASE ReadHeader BY <1>2, <2>3 DEF ReadHeader, device, history
  <2>4. CASE ReadHeaderFails BY <1>2, <2>4 DEF ReadHeaderFails, Fail, Return, device
  <2>5. CASE ReadChunk BY <1>2, <2>5 DEF ReadChunk, markers, device
  <2>6. CASE ReadEnded BY <1>2, <2>6 DEF ReadEnded, Fail, Return, markers, device
  <2> QED BY <1>9, <2>1, <2>2, <2>3, <2>4, <2>5, <2>6
<1>10. CASE DecodeFails \/ Deliver \/ Park \/ ParkReplace \/ ParkFails
  <2>1. CASE DecodeFails BY <1>2, <2>1 DEF DecodeFails, EndBody, Fail, Return, device
  <2>2. CASE Deliver BY <1>2, <2>2 DEF Deliver, EndBody, ReturnMessage, Return, device
  <2>3. CASE Park BY <1>2, <2>3 DEF Park, EndBody, NextMessage, device
  <2>4. CASE ParkReplace BY <1>2, <2>4 DEF ParkReplace, EndBody, NextMessage, device
  <2>5. CASE ParkFails BY <1>2, <2>5 DEF ParkFails, EndBody, Fail, Return, device
  <2> QED BY <1>10, <2>1, <2>2, <2>3, <2>4, <2>5
<1>11. CASE Sends BY <1>2, <1>11 DEF Sends, DeviceSends, markers, call, history
<1>12. CASE \E s \in Streams : Receive(s)
  <2>1. PICK s \in Streams, n \in 1 .. Frame : ReceiveFrame(s, n) \/ ReceiveOverBudget(s, n)
    BY <1>12 DEF Receive
  <2>2. CASE ReceiveFrame(s, n) BY <1>2, <2>2 DEF ReceiveFrame, markers, call, history
  <2>3. CASE ReceiveOverBudget(s, n) BY <1>2, <2>3 DEF ReceiveOverBudget, Fail, Return, markers
  <2> QED BY <2>1, <2>2, <2>3
<1>13. CASE Disturb
  BY <1>2, <1>13 DEF Disturb, ReceiveEnd, ReceiveReset, FrameError, Fail, Return, markers, call, device, history
<1>14. CASE Cancel BY <1>2, <1>14 DEF Cancel, Return, markers, device, history
<1> QED
  BY <1>3, <1>4, <1>5, <1>6, <1>7, <1>8, <1>9, <1>10, <1>11, <1>12, <1>13, <1>14
     DEF Next, Start, Request, Read

\* The types of the operation under way.
CallTypes == /\ reply_id \in Nat /\ left \in Nat /\ header \in Nat
             /\ target \in Streams \cup {NoStream} /\ ended \subseteq Streams

\* Every step keeps the types of the operation under way.
LEMMA CallTypesStep ==
  ASSUME Inv, [Next]_vars
  PROVE  CallTypes'
<1>0. TypeInv /\ ControlInv BY DEF Inv
<1>1. CallTypes /\ msg_id \in Nat BY <1>0 DEF TypeInv, CallTypes
<1>2. NoStream \in Streams \cup {NoStream} /\ NoMessage \in Nat BY DEF NoMessage
<1>3. CASE UNCHANGED <<reply_id, left, header, target>> /\ (ended' = ended \/ \E s \in Streams : ended' = ended \cup {s})
  BY <1>1, <1>3 DEF CallTypes
<1>4. CASE Return /\ ended' = ended BY <1>1, <1>2, <1>4 DEF CallTypes, Return
<1>5. ASSUME NEW what, NEW s \in Streams \cup {NoStream}, StartSend(what, s) PROVE CallTypes'
  BY <1>1, <1>5, SizeAssumption DEF StartSend, CallTypes, framer
<1>6. CASE SendUnit
  <2>1. left' = left - 1 /\ left > 0 /\ UNCHANGED <<reply_id, header, target, ended>>
    BY <1>6 DEF SendUnit, framer
  <2>2. left' \in Nat BY <1>1, <2>1 DEF CallTypes
  <2> QED BY <1>1, <2>1, <2>2 DEF CallTypes
<1>7. CASE AnyFound
  <2>1. target' \in Streams BY <1>0, <1>7, SelectedStream DEF AnyFound
  <2> QED BY <1>1, <1>7, <2>1 DEF AnyFound, CallTypes, framer
<1>8. CASE ReadHeader
  <2>1. PICK s \in Streams : s = target BY <1>0, <1>8 DEF ReadHeader, ControlInv
  <2>2. PICK m : m = SubSeq(bufs[s], 1, HeaderLen)[1].seq OBVIOUS
  <2>3. m \in 1 .. Len(sent) /\ m \in Nat BY <1>0, <1>8, <2>1, <2>2, HeaderFacts DEF ReadHeader, Inv
  <2>4. sent[m].len \in Nat BY <1>0, <2>3, SpanFacts DEF TypeInv
  <2>5. header' = m /\ left' = sent[m].len /\ UNCHANGED <<reply_id, target, ended>>
    BY <1>8, <2>1, <2>2 DEF ReadHeader
  <2> QED BY <1>1, <2>3, <2>4, <2>5 DEF CallTypes
<1>9. CASE ReadChunk
  <2>1. NextChunk \in 1 .. left BY <1>0, <1>9, ChunkFacts DEF ReadChunk
  <2>2. left' = left - NextChunk /\ UNCHANGED <<reply_id, header, target, ended>> BY <1>9 DEF ReadChunk
  <2>3. left' \in Nat BY <1>1, <2>1, <2>2 DEF CallTypes
  <2> QED BY <1>1, <2>2, <2>3 DEF CallTypes
<1>10. CASE Start
  <2>1. \A s \in {ClientServer, ServerClient} : s \in Streams BY StreamAssumption
  <2>2. ASSUME NEW s \in Streams, RecvFresh(s) PROVE CallTypes' BY <1>1, <2>2 DEF RecvFresh, CallTypes, framer
  <2>3. ASSUME NEW s \in Streams, RecvParked(s) PROVE CallTypes'
    BY <1>4, <2>3 DEF RecvParked, ReturnMessage, framer
  <2>4. CASE EncodeFails \/ RecvAny \/ Refused
    BY <1>3, <2>4 DEF EncodeFails, RecvAny, Refused, vars, framer, call
  <2> QED BY <1>5, <1>10, <2>1, <2>2, <2>3, <2>4 DEF Start
<1>11. CASE SendDone \/ ReplyWasParked \/ AwaitReply
  BY <1>3, <1>4, <1>11 DEF SendDone, ReplyWasParked, AwaitReply, ReturnMessage, framer
<1>12. CASE AnyOversize \/ ReadHeaderFails \/ DecodeFails \/ Deliver \/ ParkFails \/ ReadEnded
  BY <1>4, <1>12 DEF AnyOversize, ReadHeaderFails, DecodeFails, Deliver, ParkFails, ReadEnded, EndBody, Fail,
     ReturnMessage, framer
<1>13. CASE Park \/ ParkReplace
  BY <1>1, <1>2, <1>13 DEF Park, ParkReplace, EndBody, NextMessage, framer, CallTypes
<1>14. CASE Sends BY <1>3, <1>14 DEF Sends, DeviceSends, framer, call
<1>15. CASE \E s \in Streams : Receive(s)
  BY <1>3, <1>4, <1>15 DEF Receive, ReceiveFrame, ReceiveOverBudget, Fail, call
<1>16. CASE Disturb BY <1>3, <1>4, <1>16 DEF Disturb, ReceiveEnd, ReceiveReset, FrameError, Fail, call
<1>17. CASE Cancel BY <1>4, <1>17 DEF Cancel, framer
<1>18. CASE UNCHANGED vars BY <1>3, <1>18 DEF vars, framer, call
<1> QED
  BY <1>6, <1>7, <1>8, <1>9, <1>10, <1>11, <1>12, <1>13, <1>14, <1>15, <1>16, <1>17, <1>18
     DEF Next, Request, Read

\* Every step keeps the types.
LEMMA TypeStep ==
  ASSUME Inv, [Next]_vars
  PROVE  TypeInv'
<1>1. /\ CallTypes' /\ Buffers' /\ sent' \in Seq(Msg) /\ request_units' \in Nat /\ msg_id' \in Nat \ {0}
      /\ pending_messages' \in [Streams -> Seq(Nat)]
  BY CallTypesStep, StreamStep, ParkStep, RequestStep, IdStep
<1>2. returned' \subseteq [seq : Nat, op : {"none", "call", "recv", "any"}, id : Nat]
  <2>1. /\ returned \subseteq [seq : Nat, op : {"none", "call", "recv", "any"}, id : Nat]
        /\ reply_id \in Nat
    BY DEF Inv, TypeInv
  <2>2. CASE returned' = returned BY <2>1, <2>2
  <2>3. CASE returned' # returned
    <3>1. PICK m \in 1 .. Len(sent) :
             m \in Nat /\ ReturnMessage(m) /\ op \in {"none", "call", "recv", "any"}
      BY <2>3, ReturnEffect
    <3>2. returned' = returned \cup {[seq |-> m, op |-> op, id |-> reply_id]} BY <3>1 DEF ReturnMessage
    <3> QED BY <2>1, <3>1, <3>2
  <2> QED BY <2>2, <2>3
<1> QED BY <1>1, <1>2 DEF TypeInv, CallTypes, Buffers

-----------------------------------------------------------------------------
\* The message that is being read.

\* A reader that stands inside message m reads units of m only, up to its end at most.
LEMMA FrontRead ==
  ASSUME TypeInv, StreamInv, NEW s \in Streams, Unread(s) # <<>>, NEW m, NEW p,
         Unread(s)[1] = Unit(m, p), NEW k \in 1 .. Span(sent, m) - p, Cut(s, k)
  PROVE  /\ m \in 1 .. Len(sent) /\ m \in Nat /\ p \in Nat /\ sent[m].stream = s
         /\ sent[m].len \in Nat /\ Span(sent, m) \in Nat
         /\ Unread(s)' = <<>> => p + k = Span(sent, m)
         /\ Unread(s)' # <<>> => IF p + k = Span(sent, m) THEN Unread(s)'[1].part = 0
                                 ELSE Unread(s)'[1] = Unit(m, p + k)
         /\ \A j \in 1 .. k : Unread(s)[j].seq = m
<1>1. PICK sq \in Seq(Msg) : sq = sent BY DEF TypeInv
<1>2. PICK u : u = Unread(s) OBVIOUS
<1>3. Shape(u, sq) /\ u # <<>> BY <1>1, <1>2 DEF StreamInv
<1>4. u[1].seq = m /\ u[1].part = p BY <1>2, UnitFacts
<1>5. u \in Seq(UnitType) BY <1>3 DEF Shape
<1>6. 1 \in 1 .. Len(u) /\ Len(u) \in Nat BY <1>3, <1>5, EmptyLen
<1>7. /\ m \in Nat /\ p \in Nat /\ m \in 1 .. Len(sq) /\ Span(sq, m) \in Nat
      /\ 1 + Span(sq, m) - p <= Len(u) + 1
  BY <1>3, <1>4, <1>6, PlacedFacts
<1>8. k \in 1 .. Span(sq, u[1].seq) - u[1].part BY <1>1, <1>4
<1>9. /\ \A j \in 1 .. k : u[j] = Unit(u[1].seq, u[1].part + j - 1)
      /\ Without(u, k) # <<>> =>
              IF u[1].part + k = Span(sq, u[1].seq) THEN Without(u, k)[1].part = 0
              ELSE Without(u, k)[1] = Unit(u[1].seq, u[1].part + k)
  BY <1>3, <1>8, ReadFront
<1>10. k \in 0 .. Len(u) /\ Unread(s)' = Without(u, k) BY <1>2 DEF Cut
<1>11. Len(Without(u, k)) = Len(u) - k BY <1>5, <1>10, WithoutFacts
<1>12. Without(u, k) = <<>> => p + k = Span(sq, m)
  <2>1. ASSUME Without(u, k) = <<>> PROVE p + k = Span(sq, m)
    <3>1. Len(Without(u, k)) = 0 BY <2>1
    <3>2. Len(u) = k BY <1>6, <1>10, <1>11, <3>1
    <3> QED BY <1>1, <1>6, <1>7, <3>2, SMTT(30)
  <2> QED BY <2>1
<1>13. \A j \in 1 .. k : u[j].seq = m BY <1>4, <1>9, UnitFacts
<1>14. sent[m].len \in Nat BY <1>1, <1>7, SpanFacts
<1>15. sent[m].stream = s BY <1>2, <1>4, <1>6 DEF StreamInv
<1> QED BY <1>1, <1>2, <1>4, <1>7, <1>9, <1>10, <1>12, <1>13, <1>14, <1>15

\* The reader enters a message at its first unit.
LEMMA EnterMessage ==
  ASSUME Inv, ReadHeader, NEW s \in Streams, s = target
  PROVE  \E m : /\ Unread(s) # <<>> /\ Unread(s)[1] = Unit(m, 0) /\ Cut(s, HeaderLen) /\ Buffers'
                /\ m \in 1 .. Len(sent) /\ HeaderLen \in 1 .. Span(sent, m) - 0
                /\ header' = m /\ left' = sent[m].len /\ pc' = "body" /\ UNCHANGED <<target, sent, ended>>
<1>0. TypeInv /\ StreamInv BY DEF Inv
<1>1. HasHeader(s) /\ Cut(s, HeaderLen) /\ Buffers' BY <1>0, ReadsCut
<1>2. PICK m : m = SubSeq(bufs[s], 1, HeaderLen)[1].seq OBVIOUS
<1>3. /\ Unread(s) # <<>> /\ SubSeq(bufs[s], 1, HeaderLen)[1] = Unread(s)[1]
      /\ m \in 1 .. Len(sent)
      /\ (SubSeq(bufs[s], 1, HeaderLen) = SubSeq(MessageUnits(m, 0), 1, HeaderLen)) <=> Unread(s)[1].part = 0
  BY <1>0, <1>1, <1>2, HeaderFacts
<1>4. SubSeq(bufs[s], 1, HeaderLen) = SubSeq(MessageUnits(m, 0), 1, HeaderLen)
  BY <1>2 DEF ReadHeader
<1>5. Unread(s)[1].part = 0 /\ Unread(s)[1].seq = m BY <1>2, <1>3, <1>4
<1>6. Unread(s)[1] = Unit(m, 0)
  <2>1. Unread(s) \in Seq(UnitType) BY <1>0 DEF StreamInv, Shape
  <2>2. Unread(s)[1] \in UnitType BY <1>3, <2>1, EmptyLen
  <2> QED BY <1>5, <2>2 DEF UnitType, Unit
<1>7. sent \in Seq(Msg) BY <1>0 DEF TypeInv
<1>8. HeaderLen \in 1 .. Span(sent, m) - 0
  <2>1. Span(sent, m) \in Nat /\ Span(sent, m) >= HeaderLen /\ HeaderLen \in Nat /\ HeaderLen >= 1
    BY <1>3, <1>7, SpanFacts
  <2> QED BY <2>1
<1>9. header' = m /\ left' = sent[m].len /\ pc' = "body" /\ UNCHANGED <<target, sent, ended>>
  BY <1>2 DEF ReadHeader, device
<1> QED BY <1>1, <1>3, <1>6, <1>8, <1>9

\* And it goes on where it stopped.
LEMMA ContinueMessage ==
  ASSUME Inv, ReadChunk, NEW s \in Streams, s = target
  PROVE  \E p, k : /\ Unread(s) # <<>> /\ Unread(s)[1] = Unit(header, p) /\ bufs[s][1] = Unread(s)[1]
                   /\ Cut(s, k) /\ Buffers'
                   /\ k \in 1 .. left /\ left' = left - k /\ header \in 1 .. Len(sent)
                   /\ p = Span(sent, header) - left /\ k \in 1 .. Span(sent, header) - p
<1>0. TypeInv /\ StreamInv /\ BodyInv BY DEF Inv
<1>1. PICK k : k = NextChunk OBVIOUS
<1>2. k \in 1 .. left /\ k <= Len(bufs[s]) /\ Cut(s, k) /\ Buffers' BY <1>0, <1>1, ReadsCut
<1>3. left \in Nat /\ left > 0 /\ pc = "body" BY <1>0 DEF ReadChunk, TypeInv
<1>40. bufs[s] \in Seq(UnitType) /\ Len(bufs[s]) \in Nat BY <1>0, EmptyLen DEF TypeInv
<1>41. 1 \in 1 .. Len(bufs[s]) BY <1>2, <1>3, <1>40
<1>42. Buffers BY <1>0 DEF TypeInv, Buffers
<1>43. /\ 1 \in 1 .. Len(Unread(s)) /\ Unread(s)[1] = bufs[s][1] /\ Unread(s) \in Seq(UnitType)
  BY <1>41, <1>42, UnreadFacts
<1>4. Unread(s) # <<>> /\ bufs[s][1] = Unread(s)[1]
  <2>1. Len(Unread(s)) \in Nat /\ Len(Unread(s)) # 0 BY <1>43, EmptyLen
  <2> QED BY <1>43, <2>1, EmptyLen
<1>5. PICK p : p = Span(sent, header) - left OBVIOUS
<1>6. header \in 1 .. Len(sent) /\ left <= sent[header].len /\ Unread(s)[1] = Unit(header, p)
  <2>1. left # 0 BY <1>3
  <2> QED BY <1>0, <1>3, <1>4, <1>5, <2>1 DEF BodyInv
<1>7. Span(sent, header) \in Nat BY <1>0, <1>6, SpanFacts DEF TypeInv
<1>8. k \in 1 .. Span(sent, header) - p BY <1>2, <1>3, <1>5, <1>7
<1>9. left' = left - k BY <1>1 DEF ReadChunk
<1> QED BY <1>2, <1>4, <1>5, <1>6, <1>8, <1>9

\* Which steps lead into a message or stay inside it.
LEMMA BodyCases ==
  ASSUME [Next]_vars, pc' = "body"
  PROVE  \/ ReadHeader \/ ReadChunk
         \/ /\ UNCHANGED <<pc, header, left, target>> /\ ended \subseteq ended'
            /\ \/ UNCHANGED <<sent, bufs, wire>> \/ Sends
               \/ \E s \in Streams : ReceiveReset(s) \/ \E n \in 1 .. Frame : ReceiveFrame(s, n)
<1>1. CASE UNCHANGED vars BY <1>1 DEF vars, call, framer, device
<1>2. CASE Start
  BY <1>2 DEF Start, StartSend, EncodeFails, RecvAny, Refused, RecvParked, RecvFresh, ReturnMessage, Return,
              call, framer, device, vars
<1>3. CASE Request
  BY <1>3 DEF Request, SendUnit, SendDone, ReplyWasParked, AwaitReply, ReturnMessage, Return, framer, device
<1>4. CASE Read
  BY <1>4 DEF Read, AnyFound, AnyOversize, ReadHeaderFails, DecodeFails, Deliver, Park, ParkReplace,
              ParkFails, EndBody, NextMessage, ReadEnded, Fail, ReturnMessage, Return
<1>5. CASE Sends BY <1>5 DEF Sends, DeviceSends, call, framer
<1>6. CASE \E s \in Streams : Receive(s)
  <2>1. PICK s \in Streams, n \in 1 .. Frame : ReceiveFrame(s, n) \/ ReceiveOverBudget(s, n)
    BY <1>6 DEF Receive
  <2>2. ~ReceiveOverBudget(s, n) BY DEF ReceiveOverBudget, Fail, Return
  <2>3. UNCHANGED <<pc, header, left, target, ended>> BY <2>1, <2>2 DEF ReceiveFrame, call
  <2> QED BY <2>1, <2>2, <2>3
<1>7. CASE Disturb
  <2>1. ASSUME NEW s \in Streams, ReceiveEnd(s)
        PROVE  UNCHANGED <<pc, header, left, target, sent, bufs, wire>> /\ ended \subseteq ended'
    BY <2>1 DEF ReceiveEnd, call, device
  <2>2. ASSUME NEW s \in Streams, ReceiveReset(s)
        PROVE  UNCHANGED <<pc, header, left, target>> /\ ended \subseteq ended'
    BY <2>2 DEF ReceiveReset, call
  <2>3. ASSUME NEW fatal, FrameError(fatal) PROVE FALSE BY <2>3 DEF FrameError, Fail, Return
  <2> QED BY <1>7, <2>1, <2>2, <2>3 DEF Disturb
<1>8. CASE Cancel BY <1>8 DEF Cancel, Return
<1> QED BY <1>1, <1>2, <1>3, <1>4, <1>5, <1>6, <1>7, <1>8 DEF Next

\* The device's next message comes after the units of a stream that are there.
LEMMA SendsAfter ==
  ASSUME Inv, Sends
  PROVE  /\ InTransit' = InTransit \cup {Len(sent) + 1} /\ Len(sent') = Len(sent) + 1
         /\ \A t \in Streams : \A i \in 1 .. Len(Unread(t)') :
              \/ \E j \in 1 .. Len(Unread(t)) : Unread(t)'[i] = Unread(t)[j]
              \/ Unread(t)'[i].seq = Len(sent) + 1
         /\ \A t \in Streams :
              \/ Unread(t)' = Unread(t)
              \/ /\ t \notin ended /\ Unread(t)' # <<>>
                 /\ IF Unread(t) = <<>> THEN Unread(t)'[1].part = 0
                    ELSE Unread(t)'[1] = Unread(t)[1]
<1>0. TypeInv /\ StreamInv BY DEF Inv
<1>1. PICK s \in Streams, id \in DeviceIds, n \in Bodies, k \in Kinds : DeviceSends(s, id, n, k)
  BY DEF Sends
<1>2. PICK x : x = [stream |-> s, id |-> id, len |-> n, kind |-> k] OBVIOUS
<1>3. x \in Msg /\ x.stream = s /\ x.len = n BY <1>2, SizeAssumption DEF Msg
<1>4. /\ sent' = Append(sent, x) /\ bufs' = bufs /\ s \notin ended
      /\ wire' = [wire EXCEPT ![s] = @ \o MessageUnits(Len(sent) + 1, x.len)]
  BY <1>1, <1>2, <1>3 DEF DeviceSends, framer
<1>5. /\ InTransit' = InTransit \cup {Len(sent) + 1} /\ Len(sent') = Len(sent) + 1
      /\ \A t \in Streams : \A i \in 1 .. Len(Unread(t)') :
              \/ \E j \in 1 .. Len(Unread(t)) : Unread(t)'[i] = Unread(t)[j]
              \/ Unread(t)'[i].seq = Len(sent) + 1
      /\ \A t \in Streams :
              Unread(t)' # Unread(t) =>
                 /\ Unread(t)' # <<>>
                 /\ IF Unread(t) = <<>> THEN Unread(t)'[1].part = 0
                    ELSE Unread(t)'[1] = Unread(t)[1]
  BY <1>0, <1>3, <1>4, GrowEffect
<1>6. \A t \in Streams : t # s => Unread(t)' = Unread(t)
  <2>1. wire \in [Streams -> Seq(UnitType)] BY <1>0 DEF TypeInv
  <2>2. \A t \in Streams : t # s => wire'[t] = wire[t] BY <1>4, <2>1
  <2> QED BY <1>4, <2>2 DEF Unread
<1> QED BY <1>4, <1>5, <1>6

\* Every step leaves a reader inside a body at the byte it expects.
LEMMA BodyStep ==
  ASSUME Inv, [Next]_vars
  PROVE  BodyInv'
<1>0. TypeInv /\ StreamInv /\ ControlInv /\ BodyInv BY DEF Inv
<1> SUFFICES ASSUME pc' = "body" PROVE BodyInv' BY DEF BodyInv
<1>1. CASE ReadHeader
  <2>1. PICK s \in Streams : s = target BY <1>0, <1>1 DEF ControlInv, ReadHeader
  <2>2. PICK m : /\ Unread(s) # <<>> /\ Unread(s)[1] = Unit(m, 0) /\ Cut(s, HeaderLen) /\ Buffers'
                 /\ m \in 1 .. Len(sent) /\ HeaderLen \in 1 .. Span(sent, m) - 0
                 /\ header' = m /\ left' = sent[m].len /\ UNCHANGED <<target, sent, ended>>
    BY <1>1, <2>1, EnterMessage
  <2>3. /\ sent[m].stream = s /\ sent[m].len \in Nat
        /\ Unread(s)' = <<>> => 0 + HeaderLen = Span(sent, m)
        /\ Unread(s)' # <<>> => IF 0 + HeaderLen = Span(sent, m) THEN Unread(s)'[1].part = 0
                                 ELSE Unread(s)'[1] = Unit(m, 0 + HeaderLen)
    BY <1>0, <2>2, FrontRead
  <2>4. HeaderLen \in Nat BY SizeAssumption
  <2>5. 0 + HeaderLen = Span(sent, m) <=> left' = 0 BY <2>2, <2>3, <2>4 DEF Span
  <2>6. 0 + HeaderLen = Span(sent, m) - left' BY <2>2, <2>3, <2>4 DEF Span
  <2>7. left' <= sent[m].len BY <2>2, <2>3
  <2>8. Unread(target)' = Unread(s)' BY <2>1, <2>2 DEF Unread
  <2>9. Span(sent, header)' = Span(sent, m) BY <2>2 DEF Span
  <2> QED BY <2>1, <2>2, <2>3, <2>5, <2>6, <2>7, <2>8, <2>9 DEF BodyInv
<1>2. CASE ReadChunk
  <2>1. PICK s \in Streams : s = target BY <1>0, <1>2 DEF ControlInv, ReadChunk
  <2>2. PICK p, k : /\ Unread(s) # <<>> /\ Unread(s)[1] = Unit(header, p) /\ Cut(s, k) /\ Buffers'
                   /\ k \in 1 .. left /\ left' = left - k /\ header \in 1 .. Len(sent)
                   /\ p = Span(sent, header) - left /\ k \in 1 .. Span(sent, header) - p
    BY <1>2, <2>1, ContinueMessage
  <2>3. UNCHANGED <<header, target, sent, ended>> /\ pc = "body" BY <1>2 DEF ReadChunk, device
  <2>4. PICK m : m = header OBVIOUS
  <2>5. /\ sent[m].stream = s /\ sent[m].len \in Nat /\ Span(sent, m) \in Nat /\ p \in Nat
        /\ Unread(s)' = <<>> => p + k = Span(sent, m)
        /\ Unread(s)' # <<>> => IF p + k = Span(sent, m) THEN Unread(s)'[1].part = 0
                                ELSE Unread(s)'[1] = Unit(m, p + k)
    <3>1. /\ TypeInv /\ StreamInv /\ Unread(s) # <<>> /\ Unread(s)[1] = Unit(m, p)
          /\ k \in 1 .. Span(sent, m) - p /\ Cut(s, k)
      BY <1>0, <2>2, <2>4
    <3> QED BY ONLY <3>1, s \in Streams, FrontRead
  <2>6. left \in Nat /\ left <= sent[m].len BY <1>0, <2>3, <2>4 DEF TypeInv, BodyInv
  <2>7. p + k = Span(sent, m) <=> left' = 0
    <3>1. \A a, b \in Nat : \A c \in 1 .. b : (a - b) + c = a <=> b - c = 0 OBVIOUS
    <3>2. p = Span(sent, m) - left BY <2>2, <2>4
    <3> QED BY <2>2, <2>5, <2>6, <3>1, <3>2, SMTT(30)
  <2>8. p + k = Span(sent, m) - left' BY <2>2, <2>4, <2>5, <2>6
  <2>9. left' <= sent[m].len BY <2>2, <2>5, <2>6, SMTT(30)
  <2>10. Unread(target)' = Unread(s)' BY <2>1, <2>3 DEF Unread
  <2>11. Span(sent, header)' = Span(sent, m) BY <2>3, <2>4 DEF Span
  <2> QED BY <2>1, <2>2, <2>3, <2>4, <2>5, <2>7, <2>8, <2>9, <2>10, <2>11 DEF BodyInv
<1>3. ASSUME UNCHANGED <<pc, header, left, target>>, ended \subseteq ended',
             \/ UNCHANGED <<sent, bufs, wire>> \/ Sends
             \/ \E s \in Streams : ReceiveReset(s) \/ \E n \in 1 .. Frame : ReceiveFrame(s, n)
      PROVE  BodyInv'
  <2>1. PICK s \in Streams : s = target BY <1>0, <1>3 DEF ControlInv
  <2>2. /\ header \in 1 .. Len(sent) /\ left <= sent[header].len /\ sent[header].stream = s
        /\ Unread(s) = <<>> => left = 0 \/ s \in ended
        /\ Unread(s) # <<>> =>
            IF left = 0 THEN Unread(s)[1].part = 0
            ELSE Unread(s)[1] = Unit(header, Span(sent, header) - left)
    BY <1>0, <1>3, <2>1 DEF BodyInv
  <2>3. header \in 1 .. Len(sent') /\ sent'[header] = sent[header] BY <2>2, SentGrows
  <2>4. Span(sent', header) = Span(sent, header) BY <2>3 DEF Span
  <2>5. \/ Unread(s)' = Unread(s)
        \/ Unread(s)' = <<>> /\ s \in ended'
        \/ /\ s \notin ended /\ Unread(s)' # <<>>
           /\ IF Unread(s) = <<>> THEN Unread(s)'[1].part = 0 ELSE Unread(s)'[1] = Unread(s)[1]
    <3>1. CASE UNCHANGED <<sent, bufs, wire>> BY <3>1 DEF Unread
    <3>2. CASE Sends BY <3>2, SendsAfter
    <3>3. ASSUME NEW t \in Streams, NEW n \in 1 .. Frame, ReceiveFrame(t, n) PROVE Unread(s)' = Unread(s)
      BY <1>0, <3>3, FramesCut
    <3>4. ASSUME NEW t \in Streams, ReceiveReset(t)
          PROVE  Unread(s)' = Unread(s) \/ (Unread(s)' = <<>> /\ s \in ended')
      <4>1. /\ bufs' = [bufs EXCEPT ![t] = <<>>] /\ wire' = [wire EXCEPT ![t] = <<>>] /\ t \in ended'
        BY <3>4 DEF ReceiveReset
      <4>2. bufs \in [Streams -> Seq(UnitType)] /\ wire \in [Streams -> Seq(UnitType)] BY <1>0 DEF TypeInv
      <4>3. CASE t = s
        <5>1. bufs'[s] = <<>> /\ wire'[s] = <<>> BY <4>1, <4>2, <4>3
        <5>2. <<>> \o <<>> = <<>> OBVIOUS
        <5> QED BY <4>1, <4>3, <5>1, <5>2 DEF Unread
      <4>4. CASE t # s
        <5>1. bufs'[s] = bufs[s] /\ wire'[s] = wire[s] BY <4>1, <4>2, <4>4
        <5>2. Unread(s)' = Unread(s) BY <5>1 DEF Unread
        <5> QED BY <5>2
      <4> QED BY <4>3, <4>4
    <3> QED BY <1>3, <3>1, <3>2, <3>3, <3>4
  <2>6. /\ Unread(s)' = <<>> => left = 0 \/ s \in ended'
        /\ Unread(s)' # <<>> =>
            IF left = 0 THEN Unread(s)'[1].part = 0
            ELSE Unread(s)'[1] = Unit(header, Span(sent, header) - left)
    BY <1>3, <2>2, <2>5
  <2>7. Unread(target)' = Unread(s)' BY <1>3, <2>1 DEF Unread
  <2>8. Span(sent, header)' = Span(sent, header) BY <1>3, <2>4
  <2> QED BY <1>3, <2>1, <2>2, <2>3, <2>6, <2>7, <2>8 DEF BodyInv
<1> QED BY <1>1, <1>2, <1>3, BodyCases

-----------------------------------------------------------------------------
\* The boundaries of the streams.

\* The marker goes down when a whole message was read.
LEMMA MarkerCases ==
  ASSUME [Next]_vars, message_read_in_progress, ~message_read_in_progress'
  PROVE  MessageRead
<1>1. ~UNCHANGED vars BY DEF vars, markers
<1>2. ~Start
  BY DEF Start, StartSend, EncodeFails, RecvAny, Refused, RecvParked, RecvFresh, markers, vars
<1>3. ~Request BY DEF Request, SendUnit, SendDone, ReplyWasParked, AwaitReply, markers
<1>4. CASE Read
  BY <1>4 DEF Read, AnyFound, AnyOversize, ReadHeader, ReadHeaderFails, ReadChunk, DecodeFails, Deliver, Park,
              ParkReplace, ParkFails, Decoded, ReadEnded, markers
<1>5. ~Sends BY DEF Sends, DeviceSends, markers
<1>6. ~\E s \in Streams : Receive(s) BY DEF Receive, ReceiveFrame, ReceiveOverBudget, markers
<1>7. ~Disturb BY DEF Disturb, ReceiveEnd, ReceiveReset, FrameError, markers
<1>8. ~Cancel BY DEF Cancel, markers
<1> QED BY <1>1, <1>2, <1>3, <1>4, <1>5, <1>6, <1>7, <1>8 DEF Next

\* Which steps record a fault.
LEMMA FaultCases ==
  ASSUME [Next]_vars
  PROVE  /\ overflowed \subseteq overflowed'
         /\ "SPLICED" \in faults' => "SPLICED" \in faults \/ ReadHeaderFails \/ ReadChunk
<1>1. CASE UNCHANGED vars BY <1>1 DEF vars, history
<1>2. CASE Start
  BY <1>2 DEF Start, StartSend, EncodeFails, RecvAny, Refused, RecvParked, RecvFresh, ReturnMessage, history, vars
<1>3. CASE Request
  BY <1>3 DEF Request, SendUnit, SendDone, ReplyWasParked, AwaitReply, ReturnMessage, history
<1>4. CASE Read
  <2>1. CASE ReadHeaderFails \/ ReadChunk BY <2>1 DEF ReadHeaderFails, ReadChunk
  <2>2. CASE ~(ReadHeaderFails \/ ReadChunk)
    BY <1>4, <2>2 DEF Read, AnyFound, AnyOversize, ReadHeader, DecodeFails, Deliver, Park, ParkReplace,
              ParkFails, ReadEnded, NextMessage, ReturnMessage, history
  <2> QED BY <2>1, <2>2
<1>5. CASE Sends BY <1>5 DEF Sends, DeviceSends, history
<1>6. CASE \E s \in Streams : Receive(s)
  BY <1>6 DEF Receive, ReceiveFrame, ReceiveOverBudget, history
<1>7. CASE Disturb BY <1>7 DEF Disturb, ReceiveEnd, ReceiveReset, FrameError, history
<1>8. CASE Cancel BY <1>8 DEF Cancel, history
<1> QED BY <1>1, <1>2, <1>3, <1>4, <1>5, <1>6, <1>7, <1>8 DEF Next

\* A stream that must be at a boundary after a step was at one before it, and a step that
\* reads does not read it.
LEMMA AlignedBefore ==
  ASSUME Inv, [Next]_vars, NEW s \in Streams, s \notin overflowed',
         ~message_read_in_progress' \/ (pc' = "body" /\ s # target')
  PROVE  /\ Aligned(Unread(s))
         /\ ReadHeader \/ ReadHeaderFails \/ ReadChunk => s # target
<1>0. ControlInv /\ AlignInv /\ BodyInv BY DEF Inv
<1>1. ControlInv' BY ControlStep
<1>2. s \notin overflowed BY FaultCases
<1>3. ~message_read_in_progress \/ (pc = "body" /\ s # target) => Aligned(Unread(s))
  BY <1>0, <1>2 DEF AlignInv
<1>4. CASE ReadHeader
  <2>1. pc = "header" /\ message_read_in_progress' /\ target' = target BY <1>4 DEF ReadHeader
  <2>2. ~message_read_in_progress BY <1>0, <2>1 DEF ControlInv
  <2> QED BY <1>3, <2>1, <2>2
<1>5. CASE ReadHeaderFails
  <2>1. message_read_in_progress' /\ pc' = "idle" BY <1>5 DEF ReadHeaderFails, Fail, Return
  <2> QED BY <2>1
<1>6. CASE ReadChunk
  <2>1. /\ pc = "body" /\ message_read_in_progress' = message_read_in_progress /\ target' = target
    BY <1>6 DEF ReadChunk, markers
  <2>2. message_read_in_progress BY <1>0, <2>1 DEF ControlInv
  <2> QED BY <1>3, <2>1, <2>2
<1>7. CASE ~(ReadHeader \/ ReadHeaderFails \/ ReadChunk)
  <2>1. CASE pc' = "body"
    <3>1. pc = "body" /\ target' = target BY <1>7, <2>1, BodyCases
    <3>2. message_read_in_progress' BY <1>1, <2>1 DEF ControlInv
    <3> QED BY <1>3, <1>7, <3>1, <3>2
  <2>2. CASE pc' # "body" /\ ~message_read_in_progress BY <1>3, <1>7, <2>2
  <2>3. CASE pc' # "body" /\ message_read_in_progress
    <3>1. MessageRead BY <2>3, MarkerCases
    <3>2. pc = "body" /\ left = 0 BY <3>1 DEF MessageRead
    <3>3. CASE s # target BY <1>3, <1>7, <3>2, <3>3
    <3>4. CASE s = target
      <4>1. Aligned(Unread(s)) BY <1>0, <3>2, <3>4 DEF BodyInv, Aligned
      <4> QED BY <1>7, <4>1
    <3> QED BY <3>3, <3>4
  <2> QED BY <2>1, <2>2, <2>3
<1> QED BY <1>4, <1>5, <1>6, <1>7

\* Every step leaves the streams at a boundary, unless the marker is up.
LEMMA AlignStep ==
  ASSUME Inv, [Next]_vars
  PROVE  AlignInv'
<1>0. TypeInv /\ StreamInv /\ ControlInv /\ AlignInv BY DEF Inv
<1>1. ASSUME NEW s \in Streams \ overflowed',
             ~message_read_in_progress' \/ (pc' = "body" /\ s # target')
      PROVE  Aligned(Unread(s)')
  <2>1. /\ Aligned(Unread(s)) /\ s \in Streams
        /\ ReadHeader \/ ReadHeaderFails \/ ReadChunk => s # target
    BY <1>1, AlignedBefore
  <2>2. CASE Unread(s)' = Unread(s) BY <2>1, <2>2
  <2>3. CASE Unread(s)' = <<>> BY <2>3 DEF Aligned
  <2>4. CASE UNCHANGED <<sent, bufs, wire>>
    <3>1. Unread(s)' = Unread(s) BY <2>4 DEF Unread
    <3> QED BY <2>2, <3>1
  <2>5. CASE ReadHeader \/ ReadHeaderFails \/ ReadChunk
    <3>1. PICK t \in Streams : t = target
      BY <1>0, <2>5 DEF ControlInv, ReadHeader, ReadHeaderFails, ReadChunk
    <3>2. PICK k : Cut(t, k) BY <1>0, <2>5, <3>1, ReadsCut
    <3>3. s # t BY <2>1, <2>5, <3>1
    <3>4. Unread(s)' = Unread(s) BY <2>1, <3>2, <3>3 DEF Cut
    <3> QED BY <2>2, <3>4
  <2>6. CASE Sends
    <3>1. Unread(s)' = Unread(s) \/ IF Unread(s) = <<>> THEN Unread(s)'[1].part = 0
                                    ELSE Unread(s)'[1] = Unread(s)[1]
      BY <2>1, <2>6, SendsAfter
    <3> QED BY <2>1, <2>2, <3>1 DEF Aligned
  <2>7. ASSUME NEW t \in Streams, ReceiveReset(t) PROVE Aligned(Unread(s)')
    <3>1. /\ bufs' = [bufs EXCEPT ![t] = <<>>] /\ wire' = [wire EXCEPT ![t] = <<>>]
      BY <2>7 DEF ReceiveReset
    <3>2. bufs \in [Streams -> Seq(UnitType)] /\ wire \in [Streams -> Seq(UnitType)] BY <1>0 DEF TypeInv
    <3>3. CASE t = s
      <4>1. bufs'[s] = <<>> /\ wire'[s] = <<>> BY <2>1, <3>1, <3>2, <3>3
      <4>2. <<>> \o <<>> = <<>> OBVIOUS
      <4>3. Unread(s)' = <<>> BY <4>1, <4>2 DEF Unread
      <4> QED BY <2>3, <4>3
    <3>4. CASE t # s
      <4>1. bufs'[s] = bufs[s] /\ wire'[s] = wire[s] BY <2>1, <3>1, <3>2, <3>4
      <4>2. Unread(s)' = Unread(s) BY <4>1 DEF Unread
      <4> QED BY <2>2, <4>2
    <3> QED BY <3>3, <3>4
  <2>8. ASSUME NEW t \in Streams, Receive(t) PROVE Aligned(Unread(s)')
    <3>1. PICK n \in 1 .. Frame : ReceiveFrame(t, n) \/ ReceiveOverBudget(t, n) BY <2>8 DEF Receive
    <3>2. CASE ReceiveFrame(t, n)
      <4>1. Unread(s)' = Unread(s) BY <1>0, <2>1, <3>2, FramesCut
      <4> QED BY <2>2, <4>1
    <3>3. CASE ReceiveOverBudget(t, n)
      <4>1. t \in overflowed' BY <3>3 DEF ReceiveOverBudget
      <4>2. PICK k : Cut(t, k) BY <1>0, <3>3, FramesCut
      <4>3. s # t BY <1>1, <4>1
      <4>4. Unread(s)' = Unread(s) BY <2>1, <4>2, <4>3 DEF Cut
      <4> QED BY <2>2, <4>4
    <3> QED BY <3>1, <3>2, <3>3
  <2> QED BY <2>4, <2>5, <2>6, <2>7, <2>8, StreamCases
<1>2. "SPLICED" \in faults' => overflowed' # {}
  <2>1. /\ overflowed \subseteq overflowed'
        /\ "SPLICED" \in faults' => "SPLICED" \in faults \/ ReadHeaderFails \/ ReadChunk
    BY FaultCases
  <2>2. "SPLICED" \in faults => overflowed # {} BY <1>0 DEF AlignInv
  <2>3. ASSUME ReadChunk PROVE faults' = faults
    <3>1. PICK s \in Streams : s = target BY <1>0, <2>3 DEF ControlInv, ReadChunk
    <3>2. header \in 1 .. Len(sent) /\ bufs[s][1] = Unit(header, Span(sent, header) - left)
      BY <2>3, <3>1, ContinueMessage
    <3>20. sent[header].len \in Nat /\ HeaderLen \in Nat /\ left \in Nat BY <1>0, <3>2, SpanFacts DEF TypeInv
    <3>30. Span(sent, header) - left = HeaderLen + sent[header].len - left BY <3>20 DEF Span
    <3>3. bufs[s][1] = Unit(header, HeaderLen + sent[header].len - left) BY <3>2, <3>30, Zenon
    <3>4. bufs[target][1] = Unit(header, HeaderLen + sent[header].len - left) BY <3>1, <3>3, Zenon
    <3>5. faults' = faults \cup (IF bufs[target][1] # Unit(header, HeaderLen + sent[header].len - left)
                                 THEN {"SPLICED"} ELSE {})
      BY <2>3 DEF ReadChunk
    <3> QED BY <3>4, <3>5
  <2>4. ASSUME ReadHeaderFails, "SPLICED" \notin faults, "SPLICED" \in faults' PROVE overflowed # {}
    <3>1. PICK s \in Streams : s = target BY <1>0, <2>4 DEF ControlInv, ReadHeaderFails
    <3>2. HasHeader(s) BY <2>4, <3>1 DEF ReadHeaderFails
    <3>3. PICK m : m = SubSeq(bufs[s], 1, HeaderLen)[1].seq OBVIOUS
    <3>4. /\ Unread(s) # <<>>
          /\ (SubSeq(bufs[s], 1, HeaderLen) = SubSeq(MessageUnits(m, 0), 1, HeaderLen)) <=> Unread(s)[1].part = 0
      BY <1>0, <3>2, <3>3, HeaderFacts
    <3>5. ~(SubSeq(bufs[s], 1, HeaderLen) = SubSeq(MessageUnits(m, 0), 1, HeaderLen))
      BY <2>4, <3>1, <3>3 DEF ReadHeaderFails
    <3>6. ~Aligned(Unread(s)) BY <3>4, <3>5 DEF Aligned
    <3>7. pc = "header" BY <2>4 DEF ReadHeaderFails
    <3>8. ~message_read_in_progress BY <1>0, <3>7 DEF ControlInv
    <3>9. s \in overflowed BY <1>0, <3>6, <3>8 DEF AlignInv
    <3> QED BY <3>9
  <2> QED BY <2>1, <2>2, <2>3, <2>4
<1>3. \A s \in Streams \ overflowed' :
        ~message_read_in_progress' \/ (pc' = "body" /\ s # target') => Aligned(Unread(s)')
  BY <1>1
<1> QED BY <1>2, <1>3 DEF AlignInv

-----------------------------------------------------------------------------
\* The place of every message.

\* Every unit of a stream comes from the units that were there.
Shrinks == \A t \in Streams : \A i \in 1 .. Len(Unread(t)') :
              \E j \in 1 .. Len(Unread(t)) : Unread(t)'[i] = Unread(t)[j]

\* A step that moves no message.
LEMMA StillPlaces ==
  ASSUME Inv, Shrinks, InTransit' = InTransit, Len(sent') = Len(sent),
         UNCHANGED <<pending_messages, returned, lost, message_read_in_progress>>,
         "TWICE" \in faults' => "TWICE" \in faults,
         \/ header' = header /\ (pc' = "body" => pc = "body")
         \/ header' = NoMessage /\ pc' = "idle"
  PROVE  PlaceInv'
<1>0. ControlInv /\ PlaceInv BY DEF Inv
<1>1. Parked' = Parked /\ Taken' = Taken BY DEF Parked, Taken
<1>2. BeingRead' \subseteq BeingRead BY DEF BeingRead
<1>3. pc' = "body" \/ ~message_read_in_progress' =>
        BeingRead' = BeingRead /\ (pc = "body" \/ ~message_read_in_progress)
  <2>1. CASE header' = header /\ (pc' = "body" => pc = "body") BY <2>1 DEF BeingRead
  <2>2. CASE header' = NoMessage /\ pc' = "idle"
    <3>1. ASSUME ~message_read_in_progress' PROVE BeingRead' = BeingRead
      <4>1. pc # "body" BY <1>0, <3>1 DEF ControlInv
      <4>2. header = NoMessage BY <1>0, <4>1 DEF ControlInv
      <4> QED BY <2>2, <4>2 DEF BeingRead
    <3> QED BY <2>2, <3>1
  <2> QED BY <2>1, <2>2
<1>4. Apart(InTransit', BeingRead', Parked', Taken', lost')
  BY <1>0, <1>1, <1>2 DEF PlaceInv, Apart
<1>5. Everywhere' \subseteq 1 .. Len(sent')
  BY <1>0, <1>1, <1>2 DEF PlaceInv, Everywhere
<1>6. pc' = "body" \/ ~message_read_in_progress' => 1 .. Len(sent') \subseteq Everywhere'
  BY <1>0, <1>1, <1>3 DEF PlaceInv, Everywhere
<1>7. \A s \in Streams : \A i \in 1 .. Len(Unread(s)') : Unread(s)'[i].seq \notin Parked' \cup Taken'
  BY <1>0, <1>1 DEF PlaceInv, Shrinks
<1>8. "TWICE" \notin faults' BY <1>0 DEF PlaceInv
<1> QED BY <1>4, <1>5, <1>6, <1>7, <1>8 DEF PlaceInv

\* A failing operation: what it drops is recorded as lost.
LEMMA FailPlaces ==
  ASSUME Inv, NEW X, Fail(X), sent' = sent, returned' = returned, Shrinks,
         "TWICE" \in faults' => "TWICE" \in faults,
         InTransit' \subseteq InTransit, X \cap InTransit' = {}, X \subseteq 1 .. Len(sent),
         X \cap (Parked \cup Taken) = {},
         ~message_read_in_progress' => /\ pc = "body" \/ ~message_read_in_progress
                                       /\ InTransit \subseteq InTransit' \cup X
  PROVE  PlaceInv'
<1>0. TypeInv /\ ControlInv /\ ParkInv /\ PlaceInv BY DEF Inv
<1>1. pc' = "idle" /\ BeingRead' = {} BY <1>0, FailEffect
<1>2. PICK Q \in SUBSET Parked : Parked' = Parked \ Q /\ lost' = lost \cup X \cup BeingRead \cup Q
  BY <1>0, FailEffect
<1>3. Taken' = Taken BY DEF Taken
<1>4. Apart(InTransit, BeingRead, Parked, Taken, lost) BY <1>0 DEF PlaceInv
<1>5. Apart(InTransit', BeingRead', Parked', Taken', lost')
  <2>1. /\ InTransit' \cap Parked' = {} /\ InTransit' \cap Taken' = {} /\ Parked' \cap Taken' = {}
    BY <1>2, <1>3, <1>4 DEF Apart
  <2>2. InTransit' \cap lost' = {} BY <1>2, <1>4 DEF Apart
  <2>3. Parked' \cap lost' = {} BY <1>2, <1>4 DEF Apart
  <2>4. Taken' \cap lost' = {} BY <1>2, <1>3, <1>4 DEF Apart
  <2> QED BY <1>1, <2>1, <2>2, <2>3, <2>4 DEF Apart
<1>6. Everywhere' \subseteq 1 .. Len(sent')
  <2>1. InTransit \cup BeingRead \cup Parked \cup Taken \cup lost \subseteq 1 .. Len(sent)
    BY <1>0 DEF PlaceInv, Everywhere
  <2> QED BY <1>1, <1>2, <1>3, <2>1 DEF Everywhere
<1>7. pc' = "body" \/ ~message_read_in_progress' => 1 .. Len(sent') \subseteq Everywhere'
  <2> SUFFICES ASSUME ~message_read_in_progress' PROVE 1 .. Len(sent) \subseteq Everywhere' BY <1>1
  <2>1. 1 .. Len(sent) \subseteq InTransit \cup BeingRead \cup Parked \cup Taken \cup lost
    BY <1>0 DEF PlaceInv, Everywhere
  <2> QED BY <1>1, <1>2, <1>3, <2>1 DEF Everywhere
<1>8. \A s \in Streams : \A i \in 1 .. Len(Unread(s)') : Unread(s)'[i].seq \notin Parked' \cup Taken'
  <2> SUFFICES ASSUME NEW s \in Streams, NEW i \in 1 .. Len(Unread(s)')
               PROVE  Unread(s)'[i].seq \notin Parked' \cup Taken'
    OBVIOUS
  <2>1. PICK j \in 1 .. Len(Unread(s)) : Unread(s)'[i] = Unread(s)[j] BY DEF Shrinks
  <2>2. Unread(s)[j].seq \notin Parked \cup Taken BY <1>0 DEF PlaceInv
  <2> QED BY <1>2, <1>3, <2>1, <2>2
<1>9. "TWICE" \notin faults' BY <1>0 DEF PlaceInv
<1> QED BY <1>5, <1>6, <1>7, <1>8, <1>9 DEF PlaceInv

\* Steps that leave the streams alone.
LEMMA QuietPlaces ==
  ASSUME Inv, UNCHANGED <<sent, bufs, wire>>
  PROVE  Shrinks /\ InTransit' = InTransit /\ Len(sent') = Len(sent)
<1>1. TypeInv /\ StreamInv BY DEF Inv
<1>2. InTransit' = InTransit /\ \A s \in Streams : Unread(s)' = Unread(s) BY <1>1, QuietEffect
<1>3. Shrinks BY <1>2 DEF Shrinks
<1> QED BY <1>2, <1>3

\* An operation that fails without having dropped a byte keeps every message in its place.
LEMMA QuietFails ==
  ASSUME Inv, Fail({}), UNCHANGED <<sent, bufs, wire, returned, faults>>,
         message_read_in_progress' = message_read_in_progress \/ pc = "body"
  PROVE  PlaceInv'
<1>1. Shrinks /\ InTransit' = InTransit BY QuietPlaces
<1>2. PICK X : X = {} OBVIOUS
<1>3. /\ Fail(X) /\ InTransit' \subseteq InTransit /\ X \cap InTransit' = {} /\ X \subseteq 1 .. Len(sent)
      /\ X \cap (Parked \cup Taken) = {} /\ InTransit \subseteq InTransit' \cup X
      /\ ~message_read_in_progress' => (pc = "body" \/ ~message_read_in_progress)
  BY <1>1, <1>2
<1> QED BY <1>1, <1>3, FailPlaces

\* Units dropped from the front of a stream.
LEMMA CutPlaces ==
  ASSUME Inv, Buffers', NEW s \in Streams, NEW k, Cut(s, k)
  PROVE  LET X == {Unread(s)[i].seq : i \in 1 .. k}
         IN  /\ Shrinks /\ InTransit' \subseteq InTransit /\ InTransit \subseteq InTransit' \cup X
             /\ X \cap InTransit' = {} /\ X \subseteq 1 .. Len(sent)
             /\ X \cap (Parked \cup Taken) = {}
<1>0. TypeInv /\ StreamInv /\ PlaceInv BY DEF Inv
<1> DEFINE X == {Unread(s)[i].seq : i \in 1 .. k}
<1>1. /\ InTransit' \subseteq InTransit
      /\ \A m \in InTransit : m \in InTransit' \/ \E i \in 1 .. k : Unread(s)[i].seq = m
      /\ \A m \in InTransit' : \A i \in 1 .. k : Unread(s)[i].seq # m
      /\ Shrinks
  BY <1>0, CutEffect DEF Shrinks
<1>2. Unread(s) \in Seq(UnitType) /\ Shape(Unread(s), sent) /\ sent \in Seq(Msg)
  BY <1>0 DEF StreamInv, Shape, TypeInv
<1>3. \A i \in 1 .. k : i \in 1 .. Len(Unread(s))
  <2>1. k \in 0 .. Len(Unread(s)) /\ Len(Unread(s)) \in Nat BY <1>2, EmptyLen DEF Cut
  <2> QED BY <2>1
<1>4. \A i \in 1 .. k : Unread(s)[i].seq \in 1 .. Len(sent) BY <1>2, <1>3, PlacedFacts
<1>5. \A i \in 1 .. k : Unread(s)[i].seq \notin Parked \cup Taken BY <1>0, <1>3 DEF PlaceInv
<1>6. InTransit \subseteq InTransit' \cup X BY <1>1
<1>7. X \cap InTransit' = {} BY <1>1
<1>8. X \subseteq 1 .. Len(sent) BY <1>4
<1>9. X \cap (Parked \cup Taken) = {} BY <1>5
<1> QED BY <1>1, <1>6, <1>7, <1>8, <1>9

\* The message that was read has no units left.
LEMMA ReadIsGone ==
  ASSUME Inv, MessageRead, NEW s \in Streams, NEW i \in 1 .. Len(Unread(s))
  PROVE  Unread(s)[i].seq # header
<1>0. TypeInv /\ StreamInv /\ BodyInv BY DEF Inv
<1>1. /\ target \in Streams /\ sent[header].stream = target /\ header \notin InTransit BY ReadIsApart
<1>2. pc = "body" /\ left = 0 BY DEF MessageRead
<1>3. PICK u : u = Unread(s) OBVIOUS
<1>4. Shape(u, sent) /\ sent \in Seq(Msg) /\ u \in Seq(UnitType) BY <1>0, <1>3 DEF StreamInv, TypeInv, Shape
<1>5. u[i].seq \in Heads(u) \/ (u[1].part # 0 /\ u[1].seq = u[i].seq) BY <1>3, <1>4, SeqsCovered
<1>6. ASSUME u[i].seq = header PROVE FALSE
  <2>1. CASE u[i].seq \in Heads(u)
    <3>1. Buffers BY <1>0 DEF TypeInv, Buffers
    <3>2. header \in InTransit BY <1>3, <1>6, <2>1, <3>1, TransitIs
    <3> QED BY <1>1, <3>2
  <2>2. CASE u[1].part # 0 /\ u[1].seq = u[i].seq
    <3>1. Len(u) \in Nat /\ i \in 1 .. Len(u) BY <1>3, <1>4, EmptyLen
    <3>2. 1 \in 1 .. Len(u) /\ u # <<>>
      <4>1. Len(u) # 0 /\ 1 \in 1 .. Len(u) BY <3>1
      <4> QED BY <1>4, <4>1, EmptyLen
    <3>3. sent[u[1].seq].stream = s BY <1>0, <1>3, <3>2 DEF StreamInv
    <3>4. s = target BY <1>1, <1>6, <2>2, <3>3
    <3>5. u[1].part = 0 BY <1>0, <1>2, <1>3, <3>2, <3>4 DEF BodyInv
    <3> QED BY <2>2, <3>5
  <2> QED BY <1>5, <2>1, <2>2
<1> QED BY <1>3, <1>6

\* A message is handed to the caller, from the reader or from where it was parked.
LEMMA TakePlaces ==
  ASSUME Inv, Shrinks, InTransit' = InTransit, sent' = sent, lost' = lost,
         NEW m, ReturnMessage(m), m \notin Taken, m \in BeingRead \cup Parked,
         BeingRead' = BeingRead \ {m}, Parked' = Parked \ {m},
         \A s \in Streams : \A i \in 1 .. Len(Unread(s)) : Unread(s)[i].seq # m,
         ~message_read_in_progress' => pc = "body" \/ ~message_read_in_progress
  PROVE  PlaceInv'
<1>0. PlaceInv BY DEF Inv
<1>1. pc' = "idle" BY DEF ReturnMessage, Return
<1>2. Taken' = Taken \cup {m}
  <2>1. PICK x : x = [seq |-> m, op |-> op, id |-> reply_id] OBVIOUS
  <2>2. returned' = returned \cup {x} /\ x.seq = m BY <2>1 DEF ReturnMessage
  <2>3. Taken' = {r.seq : r \in returned'} BY DEF Taken
  <2> QED BY <2>2, <2>3 DEF Taken
<1>3. faults' = faults
  <2>1. ~\E r \in returned : r.seq = m BY DEF Taken
  <2>2. faults' = faults \cup {} BY <2>1 DEF ReturnMessage
  <2> QED BY <2>2
<1>4. Apart(InTransit, BeingRead, Parked, Taken, lost) BY <1>0 DEF PlaceInv
<1>5. Apart(InTransit', BeingRead', Parked', Taken', lost') BY <1>2, <1>4 DEF Apart
<1>6. InTransit' \cup BeingRead' \cup Parked' \cup Taken' \cup lost'
        = InTransit \cup BeingRead \cup Parked \cup Taken \cup lost
  BY <1>2
<1>7. Everywhere' = Everywhere BY <1>6 DEF Everywhere
<1>8. \A s \in Streams : \A i \in 1 .. Len(Unread(s)') : Unread(s)'[i].seq \notin Parked' \cup Taken'
  <2> SUFFICES ASSUME NEW s \in Streams, NEW i \in 1 .. Len(Unread(s)')
               PROVE  Unread(s)'[i].seq \notin Parked' \cup Taken'
    OBVIOUS
  <2>1. PICK j \in 1 .. Len(Unread(s)) : Unread(s)'[i] = Unread(s)[j] BY DEF Shrinks
  <2>2. Unread(s)[j].seq \notin Parked \cup Taken BY <1>0 DEF PlaceInv
  <2> QED BY <1>2, <2>1, <2>2
<1> QED BY <1>0, <1>1, <1>3, <1>5, <1>7, <1>8 DEF PlaceInv

\* Steps of the last two kinds, and the steps that start or end an operation.
LEMMA ReturnPlaces ==
  ASSUME Inv, Deliver \/ ReplyWasParked \/ \E s \in Streams : RecvParked(s)
  PROVE  PlaceInv'
<1>0. TypeInv /\ ParkInv /\ ControlInv /\ PlaceInv BY DEF Inv
<1>1. CASE Deliver
  <2>1. MessageRead /\ UNCHANGED <<sent, bufs, wire, lost>> /\ ReturnMessage(header) /\ Parked' = Parked
    BY <1>1 DEF Deliver, Decoded, EndBody, framer, device, parked, Parked
  <2>2. PICK m : m = header OBVIOUS
  <2>3. BeingRead = {m} /\ m \notin Parked \cup Taken BY <2>1, <2>2, ReadIsApart
  <2>4. BeingRead' = {} BY <2>1 DEF ReturnMessage, Return, BeingRead
  <2>5. \A s \in Streams : \A i \in 1 .. Len(Unread(s)) : Unread(s)[i].seq # m
    BY <2>1, <2>2, ReadIsGone
  <2>6. Shrinks /\ InTransit' = InTransit BY <2>1, QuietPlaces
  <2>7. BeingRead' = BeingRead \ {m} /\ Parked' = Parked \ {m} BY <2>1, <2>3, <2>4
  <2>8. pc = "body" BY <2>1 DEF MessageRead
  <2>9. ReturnMessage(m) /\ sent' = sent /\ lost' = lost BY <2>1, <2>2
  <2>10. m \notin Taken /\ m \in BeingRead \cup Parked BY <2>3
  <2> QED BY <2>5, <2>6, <2>7, <2>8, <2>9, <2>10, TakePlaces
<1>2. ASSUME NEW s \in Streams, NEW k \in 1 .. Len(pending_messages[s]), release(s, k),
             ReturnMessage(pending_messages[s][k]), UNCHANGED <<sent, bufs, wire, lost>>, pc # "body",
             message_read_in_progress' = message_read_in_progress
      PROVE  PlaceInv'
  <2>1. PICK m : m = pending_messages[s][k] OBVIOUS
  <2>2. Parked' = Parked \ {m} /\ m \in Parked BY <1>0, <1>2, <2>1, ReleaseEffect
  <2>3. m \notin Taken BY <1>0, <2>2 DEF PlaceInv, Apart
  <2>4. BeingRead = {} /\ BeingRead' = {}
    BY <1>0, <1>2 DEF ControlInv, BeingRead, ReturnMessage, Return
  <2>5. \A t \in Streams : \A i \in 1 .. Len(Unread(t)) : Unread(t)[i].seq # m
    BY <1>0, <2>2 DEF PlaceInv
  <2>6. Shrinks /\ InTransit' = InTransit BY <1>2, QuietPlaces
  <2>7. BeingRead' = BeingRead \ {m} BY <2>4
  <2>8. ReturnMessage(m) /\ sent' = sent /\ lost' = lost BY <1>2, <2>1
  <2>9. ~message_read_in_progress' => pc = "body" \/ ~message_read_in_progress BY <1>2
  <2>10. m \in BeingRead \cup Parked BY <2>2
  <2> QED BY <2>2, <2>3, <2>5, <2>6, <2>7, <2>8, <2>9, <2>10, TakePlaces
<1>3. CASE ReplyWasParked
  <2>1. PICK s \in Streams : s = target BY <1>0, <1>3 DEF ReplyWasParked, ControlInv
  <2>2. PICK i : i = Min(Position(s, reply_id)) OBVIOUS
  <2>3. i \in 1 .. Len(pending_messages[s]) BY <1>0, <1>3, <2>1, <2>2, PositionFacts DEF ReplyWasParked
  <2>4. /\ release(s, i) /\ UNCHANGED <<sent, bufs, wire, lost>> /\ pc # "body"
        /\ ReturnMessage(pending_messages[s][i])
        /\ message_read_in_progress' = message_read_in_progress
    BY <1>3, <2>1, <2>2 DEF ReplyWasParked, device, framer
  <2> QED BY <1>2, <2>3, <2>4
<1>4. ASSUME NEW s \in Streams, RecvParked(s) PROVE PlaceInv'
  <2>1. /\ release(s, 1) /\ UNCHANGED <<sent, bufs, wire, lost>> /\ pc # "body"
        /\ ReturnMessage(pending_messages[s][1])
        /\ message_read_in_progress' = message_read_in_progress
    BY <1>4 DEF RecvParked, device, framer, markers
  <2>2. 1 \in 1 .. Len(pending_messages[s])
    <3>1. pending_messages[s] \in Seq(Nat) /\ pending_messages[s] # <<>> BY <1>0, <1>4 DEF TypeInv, RecvParked
    <3> QED BY <3>1, EmptyLen
  <2> QED BY <1>2, <2>1, <2>2
<1> QED BY <1>1, <1>3, <1>4

\* A message that was read is parked.
LEMMA ParkPlaces ==
  ASSUME Inv, Park \/ ParkReplace
  PROVE  PlaceInv'
<1>0. PlaceInv BY DEF Inv
<1>1. MessageRead /\ UNCHANGED <<sent, bufs, wire, returned, faults>> /\ BeingRead' = {}
  BY DEF Park, ParkReplace, Decoded, EndBody, NextMessage, framer, device, BeingRead, NoMessage
<1>2. PICK m : m = header OBVIOUS
<1>3. BeingRead = {m} /\ m \notin Parked \cup Taken \cup lost \cup InTransit BY <1>1, <1>2, ReadIsApart
<1>4. PICK Q \in SUBSET Parked : Parked' = (Parked \ Q) \cup {m} /\ lost' = lost \cup Q
  BY <1>2, ParkEffect
<1>5. Shrinks /\ InTransit' = InTransit BY <1>1, QuietPlaces
<1>6. Taken' = Taken BY <1>1 DEF Taken
<1>7. Apart(InTransit, BeingRead, Parked, Taken, lost) BY <1>0 DEF PlaceInv
<1>8. Apart(InTransit', BeingRead', Parked', Taken', lost')
  <2>1. InTransit' \cap Parked' = {} /\ InTransit' \cap lost' = {} BY <1>3, <1>4, <1>5, <1>7 DEF Apart
  <2>2. Parked' \cap Taken' = {} /\ Parked' \cap lost' = {} BY <1>3, <1>4, <1>6, <1>7 DEF Apart
  <2>3. Taken' \cap lost' = {} /\ InTransit' \cap Taken' = {} BY <1>4, <1>5, <1>6, <1>7 DEF Apart
  <2> QED BY <1>1, <2>1, <2>2, <2>3 DEF Apart
<1>9. InTransit' \cup BeingRead' \cup Parked' \cup Taken' \cup lost'
        = InTransit \cup BeingRead \cup Parked \cup Taken \cup lost
  BY <1>1, <1>3, <1>4, <1>5, <1>6
<1>10. Everywhere' = Everywhere BY <1>9 DEF Everywhere
<1>11. pc = "body" BY <1>1 DEF MessageRead
<1>12. \A s \in Streams : \A i \in 1 .. Len(Unread(s)') : Unread(s)'[i].seq \notin Parked' \cup Taken'
  <2> SUFFICES ASSUME NEW s \in Streams, NEW i \in 1 .. Len(Unread(s)')
               PROVE  Unread(s)'[i].seq \notin Parked' \cup Taken'
    OBVIOUS
  <2>1. PICK j \in 1 .. Len(Unread(s)) : Unread(s)'[i] = Unread(s)[j] BY <1>5 DEF Shrinks
  <2>2. Unread(s)[j].seq \notin Parked \cup Taken BY <1>0 DEF PlaceInv
  <2>3. Unread(s)[j].seq # m BY <1>1, <1>2, ReadIsGone
  <2> QED BY <1>4, <1>6, <2>1, <2>2, <2>3
<1> QED BY <1>0, <1>1, <1>8, <1>10, <1>11, <1>12 DEF PlaceInv

\* The steps that read.
LEMMA ReadPlaces ==
  ASSUME Inv, ReadHeader \/ ReadHeaderFails \/ ReadChunk
  PROVE  PlaceInv'
<1>0. TypeInv /\ StreamInv /\ ControlInv /\ PlaceInv BY DEF Inv
<1>1. PICK s \in Streams : s = target
  BY <1>0 DEF ControlInv, ReadHeader, ReadHeaderFails, ReadChunk
<1>2. Apart(InTransit, BeingRead, Parked, Taken, lost) BY <1>0 DEF PlaceInv
<1>3. CASE ReadHeader
  <2>1. PICK m : /\ Unread(s) # <<>> /\ Unread(s)[1] = Unit(m, 0) /\ Cut(s, HeaderLen) /\ Buffers'
                 /\ m \in 1 .. Len(sent) /\ HeaderLen \in 1 .. Span(sent, m) - 0
                 /\ header' = m /\ pc' = "body" /\ sent' = sent
    BY <1>1, <1>3, EnterMessage
  <2>2. \A j \in 1 .. HeaderLen : Unread(s)[j].seq = m BY <1>0, <2>1, FrontRead
  <2> DEFINE X == {Unread(s)[i].seq : i \in 1 .. HeaderLen}
  <2>3. /\ Shrinks /\ InTransit' \subseteq InTransit /\ InTransit \subseteq InTransit' \cup X
        /\ X \cap InTransit' = {}
    BY <2>1, CutPlaces
  <2>4. X = {m}
    <3>1. 1 \in 1 .. HeaderLen BY SizeAssumption
    <3> QED BY <2>2, <3>1
  <2> HIDE DEF X
  <2>5. m \in InTransit
    <3>1. Buffers BY <1>0 DEF TypeInv, Buffers
    <3>2. Unread(s) \in Seq(UnitType) BY <1>0 DEF StreamInv, Shape
    <3>3. 1 \in 1 .. Len(Unread(s)) BY <2>1, <3>2, EmptyLen
    <3>30. m \in Nat BY <1>0, <2>1, FrontRead
    <3>4. m \in Heads(Unread(s)) BY <2>1, <3>3, <3>30 DEF Heads
    <3> QED BY <3>1, <3>4, TransitIs
  <2>6. /\ InTransit' = InTransit \ {m} BY <2>3, <2>4
  <2>7. pc = "header" /\ UNCHANGED <<pending_messages, returned, lost, faults>>
    BY <1>3 DEF ReadHeader, parked, history
  <2>8. BeingRead = {} /\ ~message_read_in_progress BY <1>0, <2>7 DEF ControlInv, BeingRead
  <2>9. BeingRead' = {m}
    <3>1. m # NoMessage BY <2>1 DEF NoMessage
    <3> QED BY <2>1, <3>1 DEF BeingRead
  <2>10. Parked' = Parked /\ Taken' = Taken BY <2>7 DEF Parked, Taken
  <2>11. Apart(InTransit', BeingRead', Parked', Taken', lost')
    BY <1>2, <2>5, <2>6, <2>7, <2>9, <2>10 DEF Apart
  <2>12. InTransit' \cup BeingRead' \cup Parked' \cup Taken' \cup lost'
           = InTransit \cup BeingRead \cup Parked \cup Taken \cup lost
    BY <2>5, <2>6, <2>7, <2>8, <2>9, <2>10
  <2>13. Everywhere' = Everywhere BY <2>12 DEF Everywhere
  <2>14. ASSUME NEW t \in Streams, NEW i \in 1 .. Len(Unread(t)')
         PROVE  Unread(t)'[i].seq \notin Parked' \cup Taken'
    <3>1. PICK j \in 1 .. Len(Unread(t)) : Unread(t)'[i] = Unread(t)[j] BY <2>3 DEF Shrinks
    <3>2. Unread(t)[j].seq \notin Parked \cup Taken BY <1>0 DEF PlaceInv
    <3> QED BY <2>10, <3>1, <3>2
  <2> QED BY <1>0, <2>1, <2>7, <2>8, <2>11, <2>13, <2>14 DEF PlaceInv
<1>4. CASE ReadHeaderFails
  <2>1. Buffers' /\ HasHeader(s) /\ Cut(s, HeaderLen) BY <1>0, <1>1, <1>4, ReadsCut
  <2> DEFINE Y == {Unread(s)[i].seq : i \in 1 .. HeaderLen}
  <2>2. /\ Shrinks /\ InTransit' \subseteq InTransit /\ Y \cap InTransit' = {} /\ Y \subseteq 1 .. Len(sent)
        /\ Y \cap (Parked \cup Taken) = {}
    BY <2>1, CutPlaces
  <2>3. PICK m : m = SubSeq(bufs[s], 1, HeaderLen)[1].seq OBVIOUS
  <2>4. m = Unread(s)[1].seq BY <1>0, <2>1, <2>3, HeaderFacts
  <2>5. m \in Y
    <3>1. 1 \in 1 .. HeaderLen BY SizeAssumption
    <3> QED BY <2>4, <3>1
  <2> HIDE DEF Y
  <2>6. PICK X : X = {m} OBVIOUS
  <2>7. /\ Fail(X) /\ sent' = sent /\ returned' = returned /\ message_read_in_progress'
        /\ "TWICE" \in faults' => "TWICE" \in faults
    BY <1>1, <1>4, <2>3, <2>6 DEF ReadHeaderFails, device
  <2>8. X \cap InTransit' = {} /\ X \subseteq 1 .. Len(sent) /\ X \cap (Parked \cup Taken) = {}
    BY <2>2, <2>5, <2>6
  <2> QED BY <2>2, <2>7, <2>8, FailPlaces
<1>5. CASE ReadChunk
  <2>1. PICK p, k : /\ Unread(s) # <<>> /\ Unread(s)[1] = Unit(header, p) /\ Cut(s, k) /\ Buffers'
                    /\ k \in 1 .. left /\ header \in 1 .. Len(sent) /\ k \in 1 .. Span(sent, header) - p
    BY <1>1, <1>5, ContinueMessage
  <2>2. PICK m : m = header OBVIOUS
  <2>3. \A j \in 1 .. k : Unread(s)[j].seq = m BY <1>0, <2>1, <2>2, FrontRead
  <2> DEFINE X == {Unread(s)[i].seq : i \in 1 .. k}
  <2>4. /\ Shrinks /\ InTransit' \subseteq InTransit /\ InTransit \subseteq InTransit' \cup X
    BY <2>1, CutPlaces
  <2>5. X \subseteq {m} BY <2>3
  <2> HIDE DEF X
  <2>6. /\ pc = "body" /\ UNCHANGED <<pending_messages, returned, lost, message_read_in_progress, sent, header, pc>>
        /\ "TWICE" \in faults' => "TWICE" \in faults
    BY <1>5 DEF ReadChunk, parked, markers, device
  <2>7. m \in BeingRead BY <1>0, <2>2, <2>6 DEF ControlInv, BeingRead
  <2>8. m \notin InTransit BY <1>2, <2>7 DEF Apart
  <2>9. InTransit' = InTransit BY <2>4, <2>5, <2>8
  <2>10. Len(sent') = Len(sent) BY <2>6
  <2> QED BY <2>4, <2>6, <2>9, <2>10, StillPlaces
<1> QED BY <1>3, <1>4, <1>5

\* The messages of a buffer and of the frame that was to be added to it.
LEMMA DroppedSeqs ==
  ASSUME TypeInv, NEW s \in Streams, NEW n \in 1 .. Frame, n <= Len(wire[s])
  PROVE  SeqsOf(bufs[s] \o SubSeq(wire[s], 1, n)) = {Unread(s)[i].seq : i \in 1 .. Len(bufs[s]) + n}
<1>1. Buffers BY DEF TypeInv, Buffers
<1>2. PICK a \in Seq(UnitType), b \in Seq(UnitType) : a = bufs[s] /\ b = wire[s] BY DEF TypeInv
<1>3. Len(a) \in Nat /\ Len(b) \in Nat /\ n \in Nat /\ n <= Len(b) /\ n >= 1
  BY <1>2, EmptyLen, SizeAssumption
<1> DEFINE f == SubSeq(b, 1, n)
<1>4. f \in Seq(UnitType) /\ Len(f) = n /\ \A i \in 1 .. n : f[i] = b[i]
  <2>1. \A i \in 1 .. n : b[i] \in UnitType BY <1>3, EmptyLen
  <2>2. /\ f \in Seq(UnitType) /\ Len(f) = IF 1 <= n THEN n - 1 + 1 ELSE 0
        /\ \A i \in 1 .. n - 1 + 1 : f[i] = b[1 + i - 1]
    BY <1>3, <2>1, SubSeqProperties
  <2> HIDE DEF f
  <2>3. ASSUME NEW i \in 1 .. n PROVE f[i] = b[i]
    <3>1. i \in 1 .. n - 1 + 1 /\ 1 + i - 1 = i BY <1>3
    <3> QED BY <2>2, <3>1
  <2> QED BY <1>3, <2>2, <2>3
<1> DEFINE w == a \o f
           u == a \o b
<1> HIDE DEF f
<1>50. /\ w \in Seq(UnitType) /\ Len(w) = Len(a) + Len(f)
       /\ \A i \in 1 .. Len(a) + Len(f) : w[i] = IF i <= Len(a) THEN a[i] ELSE f[i - Len(a)]
  <2>1. f \in Seq(UnitType) BY <1>4
  <2> QED BY ONLY a \in Seq(UnitType), <2>1, ConcatProperties
<1>5. /\ w \in Seq(UnitType) /\ Len(w) = Len(a) + n
      /\ \A i \in 1 .. Len(a) + n : w[i] = IF i <= Len(a) THEN a[i] ELSE f[i - Len(a)]
  <2> HIDE DEF w
  <2> QED BY <1>4, <1>50
<1>6. \A i \in 1 .. Len(a) + Len(b) : u[i] = IF i <= Len(a) THEN a[i] ELSE b[i - Len(a)]
  BY ConcatProperties
<1> HIDE DEF w, u
<1>7. ASSUME NEW i \in 1 .. Len(a) + n PROVE w[i] = u[i]
  <2>1. i \in 1 .. Len(a) + Len(b) BY <1>3
  <2>2. ~(i <= Len(a)) => i - Len(a) \in 1 .. n BY <1>3
  <2> QED BY <1>4, <1>5, <1>6, <2>1, <2>2
<1>8. DOMAIN w = 1 .. Len(a) + n BY <1>5
<1>9. SeqsOf(w) = {u[i].seq : i \in 1 .. Len(a) + n} BY <1>7, <1>8 DEF SeqsOf
<1>10. w = bufs[s] \o SubSeq(wire[s], 1, n) /\ u = Unread(s) /\ Len(a) = Len(bufs[s])
  BY <1>2 DEF w, u, f, Unread
<1> QED BY <1>9, <1>10

\* What arrives, what is refused and what is reset.
LEMMA ArrivePlaces ==
  ASSUME Inv, NEW s \in Streams, ReceiveReset(s) \/ Receive(s)
  PROVE  PlaceInv'
<1>0. TypeInv /\ StreamInv /\ ControlInv /\ PlaceInv BY DEF Inv
<1>1. ASSUME NEW n \in 1 .. Frame, ReceiveFrame(s, n) PROVE PlaceInv'
  <2>1. /\ InTransit' = InTransit /\ sent' = sent /\ \A t \in Streams : Unread(t)' = Unread(t)
    BY <1>0, <1>1, FramesCut
  <2>2. Shrinks /\ Len(sent') = Len(sent) BY <2>1 DEF Shrinks
  <2>3. /\ UNCHANGED <<pending_messages, returned, lost, message_read_in_progress, header, pc, faults>>
    BY <1>1 DEF ReceiveFrame, parked, markers, call, history
  <2> QED BY <2>1, <2>2, <2>3, StillPlaces
<1>2. ASSUME NEW n \in 1 .. Frame, ReceiveOverBudget(s, n) PROVE PlaceInv'
  <2>1. PICK k : k = Len(bufs[s]) + n OBVIOUS
  <2>2. Buffers' /\ Cut(s, k) BY <1>0, <1>2, <2>1, FramesCut
  <2> DEFINE Y == {Unread(s)[i].seq : i \in 1 .. k}
  <2>3. /\ Shrinks /\ InTransit' \subseteq InTransit /\ InTransit \subseteq InTransit' \cup Y
        /\ Y \cap InTransit' = {} /\ Y \subseteq 1 .. Len(sent)
        /\ Y \cap (Parked \cup Taken) = {}
    BY <2>2, CutPlaces
  <2>4. SeqsOf(bufs[s] \o SubSeq(wire[s], 1, n)) = Y
    <3>1. n <= Len(wire[s]) BY <1>2 DEF ReceiveOverBudget, Carry
    <3> QED BY <1>0, <2>1, <3>1, DroppedSeqs
  <2> HIDE DEF Y
  <2>5. PICK X : X = Y OBVIOUS
  <2>6. /\ Fail(X) /\ sent' = sent /\ UNCHANGED <<returned, faults, message_read_in_progress>>
        /\ pc # "idle"
    BY <1>2, <2>4, <2>5 DEF ReceiveOverBudget, markers, Carry, Waiting
  <2>7. ~message_read_in_progress' => (pc = "body" \/ ~message_read_in_progress) BY <2>6
  <2> QED BY <2>3, <2>5, <2>6, <2>7, FailPlaces
<1>3. CASE ReceiveReset(s)
  <2>1. /\ bufs' = [bufs EXCEPT ![s] = <<>>] /\ wire' = [wire EXCEPT ![s] = <<>>] /\ sent' = sent
        /\ UNCHANGED <<pending_messages, returned, message_read_in_progress, header, pc, faults>>
        /\ lost' = lost \cup (SeqsOf(Unread(s)) \ BeingRead)
    BY <1>3 DEF ReceiveReset, parked, markers, call, Unread
  <2>2. PICK k : k = Len(Unread(s)) OBVIOUS
  <2>3. Buffers' /\ Cut(s, k) BY <1>0, <2>1, <2>2, ResetCuts
  <2> DEFINE Y == {Unread(s)[i].seq : i \in 1 .. k}
  <2>4. /\ Shrinks /\ InTransit' \subseteq InTransit /\ InTransit \subseteq InTransit' \cup Y
        /\ Y \cap InTransit' = {} /\ Y \subseteq 1 .. Len(sent)
        /\ Y \cap (Parked \cup Taken) = {}
    BY <2>3, CutPlaces
  <2>5. SeqsOf(Unread(s)) = Y
    <3>1. Unread(s) \in Seq(UnitType) BY <1>0 DEF StreamInv, Shape
    <3>2. DOMAIN Unread(s) = 1 .. k BY <2>2, <3>1
    <3> QED BY <3>2 DEF SeqsOf
  <2> HIDE DEF Y
  <2>6. Parked' = Parked /\ Taken' = Taken /\ BeingRead' = BeingRead BY <2>1 DEF Parked, Taken, BeingRead
  <2>7. lost' = lost \cup (Y \ BeingRead) BY <2>1, <2>5
  <2>8. Apart(InTransit, BeingRead, Parked, Taken, lost) BY <1>0 DEF PlaceInv
  <2>9. Apart(InTransit', BeingRead', Parked', Taken', lost') BY <2>4, <2>6, <2>7, <2>8 DEF Apart
  <2>11. Everywhere' \subseteq 1 .. Len(sent)
    <3>1. InTransit \cup BeingRead \cup Parked \cup Taken \cup lost \subseteq 1 .. Len(sent)
      BY <1>0 DEF PlaceInv, Everywhere
    <3> QED BY <2>4, <2>6, <2>7, <3>1 DEF Everywhere
  <2>12. Everywhere \subseteq Everywhere' BY <2>4, <2>6, <2>7 DEF Everywhere
  <2>13. \A t \in Streams : \A i \in 1 .. Len(Unread(t)') : Unread(t)'[i].seq \notin Parked' \cup Taken'
    BY <1>0, <2>4, <2>6, SMTT(30) DEF PlaceInv, Shrinks
  <2> QED BY <1>0, <2>1, <2>9, <2>11, <2>12, <2>13 DEF PlaceInv
<1> QED BY <1>1, <1>2, <1>3 DEF Receive

\* The device sends a message.
LEMMA SendsPlaces ==
  ASSUME Inv, Sends
  PROVE  PlaceInv' /\ InTransit' = InTransit \cup {Len(sent) + 1} /\ Len(sent') = Len(sent) + 1
<1>0. TypeInv /\ PlaceInv BY DEF Inv
<1>1. /\ InTransit' = InTransit \cup {Len(sent) + 1} /\ Len(sent') = Len(sent) + 1
      /\ \A t \in Streams : \A i \in 1 .. Len(Unread(t)') :
              \/ \E j \in 1 .. Len(Unread(t)) : Unread(t)'[i] = Unread(t)[j]
              \/ Unread(t)'[i].seq = Len(sent) + 1
  BY SendsAfter
<1>2. UNCHANGED <<pending_messages, returned, lost, message_read_in_progress, header, pc, faults>>
  BY DEF Sends, DeviceSends, parked, markers, call, history
<1>3. Parked' = Parked /\ Taken' = Taken /\ BeingRead' = BeingRead BY <1>2 DEF Parked, Taken, BeingRead
<1>4. PICK m : m = Len(sent) + 1 OBVIOUS
<1>5. Len(sent) \in Nat BY <1>0, EmptyLen DEF TypeInv
<1>6. m \notin 1 .. Len(sent) /\ 1 .. Len(sent') = 1 .. Len(sent) \cup {m} BY <1>1, <1>4, <1>5
<1>7. Everywhere \subseteq 1 .. Len(sent) BY <1>0 DEF PlaceInv
<1>8. m \notin BeingRead /\ m \notin Parked /\ m \notin Taken /\ m \notin lost
  BY <1>6, <1>7 DEF Everywhere
<1>9. Apart(InTransit, BeingRead, Parked, Taken, lost) BY <1>0 DEF PlaceInv
<1>10. Apart(InTransit', BeingRead', Parked', Taken', lost')
  BY <1>1, <1>2, <1>3, <1>4, <1>8, <1>9 DEF Apart
<1>11. Everywhere' = Everywhere \cup {m} BY <1>1, <1>2, <1>3, <1>4 DEF Everywhere
<1>12. ASSUME NEW t \in Streams, NEW i \in 1 .. Len(Unread(t)')
       PROVE  Unread(t)'[i].seq \notin Parked' \cup Taken'
  <2>1. CASE Unread(t)'[i].seq = m BY <1>3, <1>8, <2>1
  <2>2. CASE \E j \in 1 .. Len(Unread(t)) : Unread(t)'[i] = Unread(t)[j]
    <3>1. PICK j \in 1 .. Len(Unread(t)) : Unread(t)'[i] = Unread(t)[j] BY <2>2
    <3>2. Unread(t)[j].seq \notin Parked \cup Taken BY <1>0 DEF PlaceInv
    <3> QED BY <1>3, <3>1, <3>2
  <2> QED BY <1>1, <1>4, <2>1, <2>2
<1>13. Everywhere' \subseteq 1 .. Len(sent') BY <1>6, <1>7, <1>11
<1>14. pc' = "body" \/ ~message_read_in_progress' => 1 .. Len(sent') \subseteq Everywhere'
  BY <1>0, <1>2, <1>6, <1>11 DEF PlaceInv
<1>15. "TWICE" \notin faults' BY <1>0, <1>2 DEF PlaceInv
<1>16. PlaceInv' BY <1>10, <1>12, <1>13, <1>14, <1>15 DEF PlaceInv
<1> QED BY <1>1, <1>16

\* Every step moves messages from one place to one other.
LEMMA PlaceStep ==
  ASSUME Inv, [Next]_vars
  PROVE  PlaceInv'
<1>0. ControlInv BY DEF Inv
<1>1. ASSUME UNCHANGED <<sent, bufs, wire, pending_messages, returned, lost, message_read_in_progress>>,
             "TWICE" \in faults' => "TWICE" \in faults,
             \/ header' = header /\ (pc' = "body" => pc = "body")
             \/ header' = NoMessage /\ pc' = "idle"
      PROVE  PlaceInv'
  BY <1>1, QuietPlaces, StillPlaces
<1>2. CASE UNCHANGED vars
  BY <1>1, <1>2 DEF vars, parked, markers, framer, call, device, history
<1>3. ASSUME NEW what, NEW s, StartSend(what, s) PROVE PlaceInv'
  BY <1>1, <1>3 DEF StartSend, parked, framer, device, history
<1>4. CASE EncodeFails \/ RecvAny \/ Refused
  BY <1>1, <1>4 DEF EncodeFails, RecvAny, Refused, parked, markers, framer, call, device, history, vars
<1>5. ASSUME NEW s, RecvFresh(s) PROVE PlaceInv'
  BY <1>1, <1>5 DEF RecvFresh, parked, markers, framer, device, history
<1>6. CASE SendUnit BY <1>1, <1>6 DEF SendUnit, parked, markers, framer
<1>7. CASE SendDone \/ AwaitReply
  BY <1>1, <1>7 DEF SendDone, AwaitReply, Return, parked, framer, device, history
<1>8. CASE AnyFound BY <1>1, <1>8 DEF AnyFound, parked, markers, framer, device, history
<1>9. CASE Cancel BY <1>1, <1>9 DEF Cancel, Return, parked, markers, framer, device, history
<1>10. ASSUME NEW s, ReceiveEnd(s) PROVE PlaceInv'
  BY <1>1, <1>10 DEF ReceiveEnd, parked, markers, call, device, history
<1>11. CASE AnyOversize BY <1>11, QuietFails DEF AnyOversize, markers, framer, device
<1>12. CASE DecodeFails
  BY <1>12, QuietFails DEF DecodeFails, MessageRead, EndBody, framer, device
<1>13. CASE ParkFails
  BY <1>13, QuietFails DEF ParkFails, Decoded, MessageRead, EndBody, framer, device
<1>14. ASSUME NEW fatal, FrameError(fatal) PROVE PlaceInv'
  BY <1>14, QuietFails DEF FrameError, markers, device
<1>15. CASE ReadEnded BY <1>15, QuietFails DEF ReadEnded, markers, framer, device
<1>16. CASE Start
  <2>1. \A s \in {ClientServer, ServerClient} : s \in Streams BY StreamAssumption
  <2> QED BY <1>3, <1>4, <1>5, <1>16, <2>1, ReturnPlaces DEF Start
<1>17. CASE Request BY <1>6, <1>7, <1>17, ReturnPlaces DEF Request
<1>18. CASE Read
  BY <1>8, <1>11, <1>12, <1>13, <1>15, <1>18, ReadPlaces, ParkPlaces, ReturnPlaces DEF Read
<1>19. CASE Disturb BY <1>10, <1>14, <1>19, ArrivePlaces DEF Disturb
<1>20. CASE Sends BY <1>20, SendsPlaces
<1>21. CASE \E s \in Streams : Receive(s) BY <1>21, ArrivePlaces
<1> QED BY <1>2, <1>9, <1>16, <1>17, <1>18, <1>19, <1>20, <1>21 DEF Next

-----------------------------------------------------------------------------
\* The invariant.

\* The invariant holds of a new connection.
LEMMA InitInv == Init => Inv
<1> SUFFICES ASSUME Init PROVE Inv OBVIOUS
<1>1. /\ \A s \in Streams : /\ bufs[s] = <<>> /\ wire[s] = <<>> /\ pending_messages[s] = <<>>
      /\ sent = <<>> /\ returned = {} /\ lost = {} /\ faults = {} /\ pc = "idle" /\ header = NoMessage
      /\ ~message_read_in_progress /\ ~sending_message_in_progress /\ op = "none" /\ request_units = 0
  BY DEF Init
<1>2. <<>> \in Seq(UnitType) /\ <<>> \in Seq(Nat) /\ <<>> \in Seq(Msg) /\ Len(<<>>) = 0 /\ <<>> \o <<>> = <<>>
  OBVIOUS
<1>3. \A s \in Streams : Unread(s) = <<>> BY <1>1, <1>2 DEF Unread
<1>4. TypeInv
  <2>1. /\ bufs \in [Streams -> Seq(UnitType)] /\ wire \in [Streams -> Seq(UnitType)]
        /\ pending_messages \in [Streams -> Seq(Nat)]
    BY <1>2 DEF Init
  <2>2. returned \subseteq [seq : Nat, op : {"none", "call", "recv", "any"}, id : Nat] BY <1>1
  <2> QED BY <1>1, <1>2, <2>1, <2>2 DEF TypeInv, Init, NoStream, NoMessage
<1>5. ControlInv BY DEF Init, ControlInv, NoStream, NoMessage
<1>6. RequestInv BY DEF Init, RequestInv
<1>7. StreamInv
  <2>1. Shape(<<>>, sent) BY <1>2 DEF Shape, Distinct
  <2> QED BY <1>2, <1>3, <2>1 DEF StreamInv
<1>8. BodyInv BY <1>1 DEF BodyInv
<1>9. AlignInv BY <1>1, <1>3 DEF AlignInv, Aligned
<1>10. PlaceInv
  <2>1. Taken = {} /\ BeingRead = {} BY <1>1 DEF Taken, BeingRead
  <2>2. ToSet(<<>>) = {} BY DEF ToSet
  <2>3. Parked = {} BY <1>1, <2>2 DEF Parked
  <2>4. InTransit = {} BY <1>3, <2>2 DEF InTransit
  <2>5. 1 .. Len(sent) = {} BY <1>1, <1>2
  <2>6. Everywhere = {} BY <1>1, <2>1, <2>3, <2>4 DEF Everywhere
  <2>7. Apart(InTransit, BeingRead, Parked, Taken, lost) BY <1>1, <2>1, <2>3, <2>4 DEF Apart
  <2> QED BY <1>1, <2>1, <2>3, <2>5, <2>6, <2>7 DEF PlaceInv
<1>11. ParkInv
  <2>1. ToSet(<<>>) = {} BY DEF ToSet
  <2>2. Inj(<<>>) BY <1>2 DEF Inj
  <2> QED BY <1>1, <2>1, <2>2 DEF ParkInv
<1>12. ReplyInv BY <1>1 DEF ReplyInv
<1> QED BY <1>4, <1>5, <1>6, <1>7, <1>8, <1>9, <1>10, <1>11, <1>12 DEF Inv

\* Every step of the connection, of the framer and of the device keeps the invariant.
LEMMA InvStep == Inv /\ [Next]_vars => Inv'
<1> SUFFICES ASSUME Inv, [Next]_vars PROVE Inv' OBVIOUS
<1>1. TypeInv' BY TypeStep
<1>2. ControlInv' BY ControlStep
<1>3. RequestInv' BY RequestStep
<1>4. StreamInv' BY StreamStep
<1>5. BodyInv' BY BodyStep
<1>6. AlignInv' BY AlignStep
<1>7. PlaceInv' BY PlaceStep
<1>8. ParkInv' BY ParkStep
<1>9. ReplyInv' BY ReplyStep
<1>10. Inv' = (TypeInv /\ ControlInv /\ RequestInv /\ StreamInv /\ BodyInv /\ AlignInv
               /\ PlaceInv /\ ParkInv /\ ReplyInv)'
  BY DEF Inv
<1> QED BY <1>1, <1>2, <1>3, <1>4, <1>5, <1>6, <1>7, <1>8, <1>9, <1>10

\* The invariant holds in every reachable state.
LEMMA Invariance == Spec => []Inv
BY InitInv, InvStep, PTL DEF Spec

-----------------------------------------------------------------------------

\* Between two messages every stream that did not overflow is at a message boundary, what
\* is taken for a header is one unless a stream overflowed, and no request starts inside
\* another: whatever was cancelled or failed, for every size of header, body and frame
\* (read_raw_xpc_message, read_xpc_body_in_chunks and the two markers of rsd.rs).
THEOREM StreamsStayAligned == Spec => []StreamsAligned
<1>1. Inv => StreamsAligned
  <2> SUFFICES ASSUME Inv PROVE StreamsAligned OBVIOUS
  <2>1. ~message_read_in_progress => \A s \in Streams \ overflowed : Aligned(Unread(s))
    BY DEF Inv, AlignInv
  <2>2. "SPLICED" \in faults => overflowed # {} BY DEF Inv, AlignInv
  <2>3. "MIXED_REQUEST" \notin faults BY DEF Inv, RequestInv
  <2> QED BY <2>1, <2>2, <2>3 DEF StreamsAligned
<1> QED BY <1>1, Invariance, PTL

\* A call returns a message with the identifier of its own request, and no two calls
\* return messages with one identifier: also when a late reply of a cancelled call is
\* parked or arrives (recv_reply_on_stream, push_pending_message).
THEOREM RepliesAlwaysMatch == Spec => []RepliesMatch
<1>1. Inv => RepliesMatch
  <2> SUFFICES ASSUME Inv PROVE RepliesMatch OBVIOUS
  <2>1. ReplyInv BY DEF Inv
  <2> QED BY <2>1 DEF ReplyInv, RepliesMatch
<1> QED BY <1>1, Invariance, PTL

\* While the connection can be used every message the device sent is unread, being read,
\* parked, returned or lost to an error that was reported, and always in at most one of
\* these places; none is returned twice (recv_fresh_on_stream, push_pending_message,
\* clear_pending_stream).
THEOREM MessagesNeverVanish == Spec => []NothingVanishes
<1>1. Inv => NothingVanishes
  <2> SUFFICES ASSUME Inv PROVE NothingVanishes OBVIOUS
  <2>1. PlaceInv BY DEF Inv
  <2>2. "TWICE" \notin faults BY <2>1 DEF PlaceInv
  <2> DEFINE places == <<InTransit, BeingRead, Parked, Taken, lost>>
  <2>3. UNION ToSet(places) = Everywhere
    <3>1. DOMAIN places = 1 .. 5 OBVIOUS
    <3>2. ToSet(places) = {InTransit, BeingRead, Parked, Taken, lost}
      <4>1. ToSet(places) = {places[i] : i \in 1 .. 5} BY <3>1 DEF ToSet
      <4>2. 1 .. 5 = {1, 2, 3, 4, 5} OBVIOUS
      <4>3. ToSet(places) = {places[1], places[2], places[3], places[4], places[5]} BY <4>1, <4>2
      <4> QED BY <4>3
    <3> QED BY <3>2 DEF Everywhere
  <2>4. Reusable => UNION ToSet(places) = 1 .. Len(sent)
    BY <2>1, <2>3 DEF Reusable, PlaceInv
  <2>5. \A i, j \in DOMAIN places : i # j => places[i] \cap places[j] = {}
    <3>1. Apart(InTransit, BeingRead, Parked, Taken, lost) BY <2>1 DEF PlaceInv
    <3>2. DOMAIN places = {1, 2, 3, 4, 5} OBVIOUS
    <3>3. /\ places[1] = InTransit /\ places[2] = BeingRead /\ places[3] = Parked /\ places[4] = Taken
          /\ places[5] = lost
      OBVIOUS
    <3> HIDE DEF places
    <3> QED BY <3>1, <3>2, <3>3 DEF Apart
  <2> QED BY <2>2, <2>4, <2>5 DEF NothingVanishes
<1> QED BY <1>1, Invariance, PTL

-----------------------------------------------------------------------------
\* The connection implements the mailbox it promises to its callers.

\* Nothing that was returned or lost comes back.
LEMMA HistoryGrows ==
  ASSUME Inv, [Next]_vars
  PROVE  lost \subseteq lost' /\ Taken \subseteq Taken'
<1>1. lost \subseteq lost'
  <2>1. CASE UNCHANGED vars BY <2>1 DEF vars, history
  <2>2. CASE Start
    BY <2>2 DEF Start, StartSend, EncodeFails, RecvAny, Refused, RecvParked, RecvFresh, history, vars
  <2>3. CASE Request BY <2>3 DEF Request, SendUnit, SendDone, ReplyWasParked, AwaitReply, history
  <2>4. ASSUME NEW X, Fail(X) PROVE lost \subseteq lost' BY <2>4 DEF Fail
  <2>5. CASE Read
    BY <2>4, <2>5 DEF Read, AnyFound, AnyOversize, ReadHeader, ReadHeaderFails, ReadChunk, DecodeFails, Deliver,
              Park, ParkReplace, ParkFails, ReadEnded, history
  <2>6. CASE Sends BY <2>6 DEF Sends, DeviceSends, history
  <2>7. CASE \E s \in Streams : Receive(s)
    BY <2>4, <2>7 DEF Receive, ReceiveFrame, ReceiveOverBudget, history
  <2>8. CASE Disturb BY <2>4, <2>8 DEF Disturb, ReceiveEnd, ReceiveReset, FrameError, history
  <2>9. CASE Cancel BY <2>9 DEF Cancel, history
  <2> QED BY <2>1, <2>2, <2>3, <2>5, <2>6, <2>7, <2>8, <2>9 DEF Next
<1>2. returned \subseteq returned'
  <2>1. CASE returned' = returned BY <2>1
  <2>2. CASE returned' # returned
    <3>1. PICK m : ReturnMessage(m) BY <2>2, ReturnEffect
    <3> QED BY <3>1 DEF ReturnMessage
  <2> QED BY <2>1, <2>2
<1> QED BY <1>1, <1>2 DEF Taken

\* A connection that refuses to be used stays as it is.
LEMMA BrokenStays ==
  ASSUME Inv, [Next]_vars, pc = "idle", ~Reusable
  PROVE  Sends \/ UNCHANGED vars
<1>1. ~Request /\ ~Read /\ ~Cancel
  BY DEF Request, SendUnit, SendDone, ReplyWasParked, AwaitReply, Read, AnyFound, AnyOversize, ReadHeader,
     ReadHeaderFails, ReadChunk, DecodeFails, Deliver, Park, ParkReplace, ParkFails, Decoded, MessageRead,
     ReadEnded, Cancel, Waiting
<1>2. ~Waiting BY DEF Waiting
<1>3. ~Disturb BY <1>2 DEF Disturb, ReceiveEnd, ReceiveReset, FrameError
<1>4. ~\E s \in Streams : Receive(s) BY <1>2 DEF Receive, ReceiveFrame, ReceiveOverBudget, Carry
<1>5. CASE Start BY <1>5 DEF Start, StartSend, EncodeFails, RecvAny, Refused, RecvParked, RecvFresh
<1> QED BY <1>1, <1>3, <1>4, <1>5 DEF Next

Mail == InTransit \cup BeingRead \cup Parked
Broken == framer_dead \/ (pc = "idle" /\ ~Reusable)

\* What may still be handed out is what was neither returned nor lost.
LEMMA MailIs ==
  ASSUME PlaceInv, pc = "body" \/ ~message_read_in_progress
  PROVE  Mail = 1 .. Len(sent) \ (Taken \cup lost)
<1>1. Apart(InTransit, BeingRead, Parked, Taken, lost) BY DEF PlaceInv
<1>2. InTransit \cup BeingRead \cup Parked \cup Taken \cup lost = 1 .. Len(sent) BY DEF PlaceInv, Everywhere
<1> QED BY <1>1, <1>2 DEF Apart, Mail

\* The same of the next state, where something may also be in no place any more.
LEMMA MailNext ==
  ASSUME PlaceInv'
  PROVE  /\ Mail' \subseteq 1 .. Len(sent') \ (Taken' \cup lost')
         /\ ~message_read_in_progress' => Mail' = 1 .. Len(sent') \ (Taken' \cup lost')
<1>1. Apart(InTransit', BeingRead', Parked', Taken', lost') BY DEF PlaceInv
<1>2. /\ InTransit' \cup BeingRead' \cup Parked' \cup Taken' \cup lost' \subseteq 1 .. Len(sent')
      /\ ~message_read_in_progress' =>
           1 .. Len(sent') \subseteq InTransit' \cup BeingRead' \cup Parked' \cup Taken' \cup lost'
  BY DEF PlaceInv, Everywhere
<1>3. Mail' = InTransit' \cup BeingRead' \cup Parked' BY DEF Mail
<1> QED BY <1>1, <1>2, <1>3 DEF Apart

\* Every step of the connection is a step of the mailbox: the device posts a message, a
\* message is handed out, or messages are lost and the mailbox may break.
LEMMA MailboxStep ==
  ASSUME Inv, [Next]_vars
  PROVE  \/ /\ Len(sent) < MaxSent /\ Len(sent') = Len(sent) + 1
            /\ Mail' = Mail \cup {Len(sent')} /\ Taken' = Taken /\ Broken' = Broken
         \/ \E m \in Mail : /\ ~Broken /\ Mail' = Mail \ {m} /\ Taken' = Taken \cup {m}
                            /\ Len(sent') = Len(sent) /\ Broken' = Broken
         \/ /\ Mail' \subseteq Mail /\ (Broken => Broken') /\ Len(sent') = Len(sent) /\ Taken' = Taken
<1>0. ControlInv /\ PlaceInv BY DEF Inv
<1>1. PlaceInv' BY PlaceStep
<1>2. CASE Sends
  <2>1. InTransit' = InTransit \cup {Len(sent) + 1} /\ Len(sent') = Len(sent) + 1 BY <1>2, SendsPlaces
  <2>2. /\ UNCHANGED <<pending_messages, returned, header, pc>> /\ Len(sent) < MaxSent
        /\ UNCHANGED <<framer_dead, message_read_in_progress, sending_message_in_progress>>
    BY <1>2 DEF Sends, DeviceSends, parked, markers, framer, call, history
  <2>3. Parked' = Parked /\ Taken' = Taken /\ BeingRead' = BeingRead
    BY <2>2 DEF Parked, Taken, BeingRead
  <2>4. Mail' = Mail \cup {Len(sent')} BY <2>1, <2>3 DEF Mail
  <2>5. Broken' = Broken BY <2>2 DEF Broken, Reusable
  <2> QED BY <2>1, <2>2, <2>3, <2>4, <2>5
<1>3. CASE UNCHANGED vars
  <2>1. /\ UNCHANGED <<pending_messages, returned, header, pc, sent, bufs, wire>>
        /\ UNCHANGED <<framer_dead, message_read_in_progress, sending_message_in_progress>>
    BY <1>3 DEF vars, parked, markers, framer, call, device, history
  <2>2. Parked' = Parked /\ Taken' = Taken /\ BeingRead' = BeingRead /\ InTransit' = InTransit
    BY <2>1 DEF Parked, Taken, BeingRead, InTransit, Unread
  <2>3. Mail' = Mail BY <2>2 DEF Mail
  <2>4. Broken' = Broken BY <2>1 DEF Broken, Reusable
  <2> QED BY <2>1, <2>2, <2>3, <2>4
<1>4. CASE ~Sends /\ ~UNCHANGED vars
  <2>1. ~(pc = "idle" /\ ~Reusable) BY <1>4, BrokenStays
  <2>2. ~framer_dead
    <3>1. framer_dead => pc = "idle" BY <1>0 DEF ControlInv
    <3> QED BY <2>1, <3>1 DEF Reusable
  <2>3. ~Broken BY <2>1, <2>2 DEF Broken
  <2>4. pc = "body" \/ ~message_read_in_progress
    <3>1. message_read_in_progress => pc \in {"idle", "body"} BY <1>0 DEF ControlInv
    <3> QED BY <2>1, <3>1 DEF Reusable
  <2>5. Mail = 1 .. Len(sent) \ (Taken \cup lost) BY <1>0, <2>4, MailIs
  <2>6. sent' = sent
    <3>1. CASE ReadHeader \/ ReadHeaderFails \/ ReadChunk
      BY <3>1 DEF ReadHeader, ReadHeaderFails, ReadChunk, device
    <3>2. CASE \E s \in Streams : ReceiveReset(s) \/ Receive(s)
      BY <3>2 DEF ReceiveReset, Receive, ReceiveFrame, ReceiveOverBudget
    <3> QED BY <1>4, <3>1, <3>2, StreamCases
  <2>7. CASE returned' = returned
    <3>1. Taken' = Taken BY <2>7 DEF Taken
    <3>2. lost \subseteq lost' BY HistoryGrows
    <3>3. Mail' \subseteq 1 .. Len(sent') \ (Taken' \cup lost') BY <1>1, MailNext
    <3>4. Mail' \subseteq Mail BY <2>5, <2>6, <3>1, <3>2, <3>3
    <3> QED BY <2>3, <2>6, <3>1, <3>4
  <2>8. CASE returned' # returned
    <3>1. PICK m \in 1 .. Len(sent) : ReturnMessage(m) BY <2>8, ReturnEffect
    <3>2. Taken' = Taken \cup {m}
      <4>1. PICK x : x = [seq |-> m, op |-> op, id |-> reply_id] OBVIOUS
      <4>2. returned' = returned \cup {x} /\ x.seq = m BY <3>1, <4>1 DEF ReturnMessage
      <4>3. Taken' = {r.seq : r \in returned'} BY DEF Taken
      <4> QED BY <4>2, <4>3 DEF Taken
    <3>3. m \notin Taken
      <4>1. ASSUME m \in Taken PROVE FALSE
        <5>1. \E r \in returned : r.seq = m BY <4>1 DEF Taken
        <5>2. "TWICE" \in faults' BY <3>1, <5>1 DEF ReturnMessage
        <5> QED BY <1>1, <5>2 DEF PlaceInv
      <4> QED BY <4>1
    <3>4. /\ lost' = lost /\ framer_dead' = framer_dead /\ pc' = "idle"
          /\ ~message_read_in_progress' /\ ~sending_message_in_progress'
      <4>1. pc' = "idle" BY <3>1 DEF ReturnMessage, Return
      <4>2. CASE Deliver
        <5>1. pc = "body" BY <4>2 DEF Deliver, Decoded, MessageRead
        <5>2. ~sending_message_in_progress BY <1>0, <5>1 DEF ControlInv
        <5> QED BY <4>1, <4>2, <5>2 DEF Deliver, EndBody, framer
      <4>3. CASE ReplyWasParked
        <5>1. pc = "send" BY <4>3 DEF ReplyWasParked
        <5>2. ~message_read_in_progress BY <1>0, <5>1 DEF ControlInv
        <5> QED BY <4>1, <4>3, <5>2 DEF ReplyWasParked, framer
      <4>4. ASSUME NEW s \in Streams, RecvParked(s)
            PROVE  /\ lost' = lost /\ framer_dead' = framer_dead
                   /\ ~message_read_in_progress' /\ ~sending_message_in_progress'
        BY <4>4 DEF RecvParked, Reusable, framer, markers
      <4> QED BY <2>8, <4>1, <4>2, <4>3, <4>4, ReturnCases
    <3>5. Mail' = 1 .. Len(sent') \ (Taken' \cup lost') BY <1>1, <3>4, MailNext
    <3>6. ~Broken' BY <2>2, <3>4 DEF Broken, Reusable
    <3>7. m \notin lost
      <4>1. m \in Taken' BY <3>2
      <4>2. Taken' \cap lost' = {} BY <1>1 DEF PlaceInv, Apart
      <4> QED BY <3>4, <4>1, <4>2
    <3>8. m \in Mail BY <2>5, <3>1, <3>3, <3>7
    <3>9. Mail' = Mail \ {m} BY <2>5, <2>6, <3>2, <3>4, <3>5
    <3>10. Len(sent') = Len(sent) BY <2>6
    <3>11. Broken' = Broken
      <4>1. Broken \in BOOLEAN /\ Broken' \in BOOLEAN BY DEF Broken
      <4> QED BY <2>3, <3>6, <4>1
    <3> QED BY <2>3, <3>2, <3>8, <3>9, <3>10, <3>11
  <2> QED BY <2>7, <2>8
<1> QED BY <1>2, <1>3, <1>4

\* The connection does for its callers what the mailbox does: every message is handed out
\* whole and at most once, a failing read may cost messages, and once the connection
\* refuses to be used it hands out nothing (XpcMailbox; ensure_reusable in rsd.rs).
THEOREM MailboxImplemented == Spec => ImplementsMailbox
<1>1. Init => Mailbox!Init
  <2> SUFFICES ASSUME Init PROVE Mailbox!Init OBVIOUS
  <2>1. PlaceInv BY InitInv DEF Inv
  <2>2. sent = <<>> /\ returned = {} /\ Len(<<>>) = 0 BY DEF Init
  <2>3. 1 .. Len(sent) = {} BY <2>2
  <2>4. Mail = {} /\ Taken = {}
    <3>1. Everywhere = {} BY <2>1, <2>3 DEF PlaceInv
    <3> QED BY <3>1 DEF Everywhere, Mail
  <2>5. Broken = FALSE BY DEF Init, Broken, Reusable
  <2> QED BY <2>2, <2>4, <2>5 DEF Mailbox!Init, Mail, Broken
<1>2. Inv /\ [Next]_vars => [Mailbox!Next]_(Mailbox!mailbox)
  <2> SUFFICES ASSUME Inv, [Next]_vars PROVE [Mailbox!Next]_(Mailbox!mailbox) OBVIOUS
  <2>1. Broken \in BOOLEAN /\ Broken' \in BOOLEAN BY DEF Broken
  <2>2. CASE /\ Len(sent) < MaxSent /\ Len(sent') = Len(sent) + 1
             /\ Mail' = Mail \cup {Len(sent')} /\ Taken' = Taken /\ Broken' = Broken
    BY <2>2 DEF Mailbox!Next, Mailbox!Post, Mail, Broken
  <2>3. ASSUME NEW m \in Mail, ~Broken, Mail' = Mail \ {m}, Taken' = Taken \cup {m},
               Len(sent') = Len(sent), Broken' = Broken
        PROVE  Mailbox!Next
    BY <2>3 DEF Mailbox!Next, Mailbox!Take, Mail, Broken
  <2>4. CASE /\ Mail' \subseteq Mail /\ (Broken => Broken') /\ Len(sent') = Len(sent) /\ Taken' = Taken
    BY <2>1, <2>4 DEF Mailbox!Next, Mailbox!Lose, Mail, Broken
  <2> QED BY <2>2, <2>3, <2>4, MailboxStep
<1> QED BY <1>1, <1>2, Invariance, PTL DEF Spec, ImplementsMailbox, Mailbox!Spec

=============================================================================
