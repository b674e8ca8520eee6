----------------------------- MODULE DeviceProof -----------------------------
(***************************************************************************)
(* Proofs about a connection to a device and what it rests on: RsdLadder,  *)
(* for every number of skips, attempts and messages and every set of       *)
(* kinds; SecretFile, for every set of processes, every number of          *)
(* temporary names and of faults, and both builds; and DeviceConnect, for  *)
(* every set of purposes and every number of targets.                      *)
(*                                                                         *)
(* RsdLadder.  The argument is about the shape of a stream: what has       *)
(* arrived, followed by the body that is due, is a sequence of whole       *)
(* messages, but for a body at its front whose header was consumed (Whole, *)
(* AtHeader, AtBody).  The marker is up exactly while some stream may      *)
(* stand at a body, and a rung that is dropped inside a message leaves it  *)
(* up, so no later read starts there (MarkerInv).  Which rungs were tried  *)
(* follows from the order of the ladder (RungInv).                         *)
(*                                                                         *)
(* SecretFile.  The invariant follows each name.  The names a process      *)
(* holds are its own (ControlInv), so no other process touches them; what  *)
(* a process is about to rename is whole and synced (StageInv), and so is  *)
(* what the record's name holds (RecordInv); a file under a temporary name *)
(* has a holder unless a fault is on record (LitterInv).                   *)
(*                                                                         *)
(* DeviceConnect.  What may follow a step of a procedure is fixed          *)
(* (FollowedBy), so the steps left are always in order (Orderly): the      *)
(* lemmas Fit... put every procedure together from its parts, step by      *)
(* step.  What the host has yet to read is then one of five things         *)
(* (UnitInv): replies to its question, the same with one unit the device   *)
(* sent of its own accord, that unit alone at a change of layers, units    *)
(* under TLS, or a unit for the caller.  HeldInv says that what the result *)
(* will hold is held, or still to be dialled or spawned.                   *)
(***************************************************************************)
EXTENDS SecretFile, RsdLadder, DeviceConnect, SequenceTheorems, TLAPS

-----------------------------------------------------------------------------
\* The fallback ladder.

Open(u) == u.part = "header" /\ HasBody(u.kind)
BodyOf(u) == Unit("body", u.kind, u.n)
Follows(u, v) == IF Open(u) THEN v = BodyOf(u) ELSE v.part = "header"

\* The units q that have arrived and the body d that is due, or NoRsd, make
\* whole messages once the front of q is one.
Whole(q, d) ==
    /\ q \in Seq(Units) /\ d \in Units \cup {NoRsd}
    /\ \A i \in 1 .. Len(q) : i < Len(q) => Follows(q[i], q[i + 1])
    /\ d # NoRsd => d.part = "body" /\ (q # <<>> => Open(q[Len(q)]) /\ d = BodyOf(q[Len(q)]))
    /\ d = NoRsd /\ q # <<>> => ~Open(q[Len(q)])

AtHeader(q, d) == IF q # <<>> THEN Head(q).part = "header" ELSE d = NoRsd
AtBody(q, d, u) == IF q # <<>> THEN Head(q) = BodyOf(u) ELSE d = BodyOf(u)

Ops == {"w1", "w3", "o3", "d1", "d3", "r1"}
ReadRungs == {"queuedRead", "legacyRead", "passive", "direct"}
BetweenRungs == {"idle", "open", "reopen", "none", "found", "failed"}

RungTypes == rung \in Rungs \cup BetweenRungs /\ todo \in Seq(Ops)

LadderTypeInv ==
    /\ RungTypes
    /\ reading \in Units \cup {NoRsd}
    /\ marker \in BOOLEAN
    /\ inbox \in [StreamIds -> Seq(Units)]
    /\ due \in [StreamIds -> Units \cup {NoRsd}]
    /\ count \in Nat

RungInv ==
    /\ rung \in BetweenRungs => todo = <<>>
    /\ rung \in ReadRungs => todo = <<"r1">>
    /\ rung \in {"queued", "legacy"} =>
         todo # <<>> /\ \A i \in 1 .. Len(todo) : todo[i] # "r1"
    /\ rung \in {"queued", "queuedRead", "reopen"} => "queued" \in tried
    /\ rung \in {"legacy", "legacyRead", "passive"} => {"queued", "legacy"} \subseteq tried
    /\ rung = "direct" => via = "direct"
    /\ rung = "none" /\ via = "proxy" => "unopened" \in tried \/ {"queued", "legacy"} \subseteq tried

StreamInv == \A s \in StreamIds : Whole(inbox[s], due[s])

MarkerInv ==
    /\ ~marker => \A s \in StreamIds : AtHeader(inbox[s], due[s])
    /\ reading # NoRsd =>
         /\ marker /\ Reading /\ reading.part = "header"
         /\ \A s \in StreamIds :
              IF s = StreamOf(Head(todo)) THEN AtBody(inbox[s], due[s], reading)
              ELSE AtHeader(inbox[s], due[s])

CountInv ==
    /\ \A s \in StreamIds : \A i \in 1 .. Len(inbox[s]) : inbox[s][i].n <= count
    /\ \A s \in StreamIds : due[s] # NoRsd => due[s].n <= count
    /\ reading # NoRsd => reading.n <= count

FoundInv ==
    rsd # NoRsd => /\ rung = "found"
                   /\ rsd.header.kind = "handshake" /\ rsd.header.n <= count
                   /\ rsd.body = Unit("body", "handshake", rsd.header.n)

LadderInv == LadderTypeInv /\ RungInv /\ StreamInv /\ MarkerInv /\ CountInv /\ FoundInv

USE LadderAssumption

-----------------------------------------------------------------------------
\* Streams.

\* Only the empty sequence has length zero.
LEMMA EmptyLen == ASSUME NEW S, NEW q \in Seq(S) PROVE Len(q) = 0 <=> q = <<>>
OBVIOUS

\* What is left of a sequence without its head.
LEMMA TailFacts ==
  ASSUME NEW S, NEW q \in Seq(S), q # <<>>
  PROVE  /\ Len(q) \in Nat /\ Len(q) >= 1 /\ Head(q) = q[1] /\ Head(q) \in S
         /\ Tail(q) \in Seq(S) /\ Len(Tail(q)) = Len(q) - 1
         /\ \A i \in 1 .. Len(Tail(q)) : Tail(q)[i] = q[i + 1]
         /\ Len(q) = 1 <=> Tail(q) = <<>>
         /\ Len(q) # 1 => Len(q) > 1 /\ Head(Tail(q)) = q[2]
<1>1. Len(q) \in Nat /\ Len(q) >= 1 /\ Head(q) = q[1] /\ Head(q) \in S OBVIOUS
<1>2. /\ Tail(q) \in Seq(S) /\ Len(Tail(q)) = Len(q) - 1
      /\ \A i \in 1 .. Len(Tail(q)) : Tail(q)[i] = q[i + 1]
  OBVIOUS
<1>3. Len(Tail(q)) = 0 <=> Tail(q) = <<>> BY <1>2, EmptyLen
<1>4. ASSUME Len(q) # 1 PROVE Len(q) > 1 /\ Head(Tail(q)) = q[2]
  <2>1. Tail(q) # <<>> BY <1>1, <1>2, <1>3, <1>4
  <2>2. Head(Tail(q)) = Tail(q)[1] /\ 1 \in 1 .. Len(Tail(q)) BY <1>1, <1>2, <1>4, <2>1
  <2> QED BY <1>1, <1>2, <1>4, <2>2
<1> QED BY <1>1, <1>2, <1>3, <1>4

LEMMA WholeTail ==
  ASSUME NEW q, NEW d, Whole(q, d), q # <<>>
  PROVE  Whole(Tail(q), d)
<1> DEFINE r == Tail(q)
<1>1. /\ Len(q) \in Nat /\ Len(q) >= 1 /\ r \in Seq(Units) /\ Len(r) = Len(q) - 1
      /\ \A i \in 1 .. Len(r) : r[i] = q[i + 1]
      /\ Len(q) = 1 <=> r = <<>>
  BY TailFacts DEF Whole
<1> HIDE DEF r
<1>2. \A i \in 1 .. Len(r) : i < Len(r) => Follows(r[i], r[i + 1])
  <2> SUFFICES ASSUME NEW i \in 1 .. Len(r), i < Len(r) PROVE Follows(r[i], r[i + 1])
    OBVIOUS
  <2>1. r[i] = q[i + 1] /\ r[i + 1] = q[(i + 1) + 1] /\ i + 1 \in 1 .. Len(q) /\ i + 1 < Len(q)
    BY <1>1
  <2> QED BY <2>1 DEF Whole
<1>3. r # <<>> => q # <<>> /\ r[Len(r)] = q[Len(q)]
  <2> SUFFICES ASSUME r # <<>> PROVE r[Len(r)] = q[Len(q)]
    OBVIOUS
  <2>1. Len(r) \in 1 .. Len(r) /\ Len(r) + 1 = Len(q) BY <1>1
  <2> QED BY <2>1, <1>1
<1>4. Whole(r, d) BY <1>1, <1>2, <1>3 DEF Whole
<1> QED BY <1>4 DEF r

\* Taking a header that has a body leaves its body at the front.
LEMMA TakeOpen ==
  ASSUME NEW q, NEW d, Whole(q, d), q # <<>>, Open(Head(q))
  PROVE  Whole(Tail(q), d) /\ AtBody(Tail(q), d, Head(q))
<1>1. /\ Len(q) \in Nat /\ Len(q) >= 1 /\ Head(q) = q[1]
      /\ Tail(q) \in Seq(Units) /\ Len(Tail(q)) = Len(q) - 1
      /\ \A i \in 1 .. Len(Tail(q)) : Tail(q)[i] = q[i + 1]
      /\ Len(q) = 1 <=> Tail(q) = <<>>
      /\ Len(q) # 1 => Len(q) > 1 /\ Head(Tail(q)) = q[2]
  BY TailFacts DEF Whole
<1>2. Whole(Tail(q), d) BY WholeTail
<1>3. ASSUME Len(q) = 1 PROVE AtBody(Tail(q), d, Head(q))
  BY <1>1, <1>3 DEF AtBody, Whole
<1>4. ASSUME Len(q) # 1 PROVE AtBody(Tail(q), d, Head(q))
  <2>1. Follows(q[1], q[2]) BY <1>1, <1>4 DEF Whole
  <2> QED BY <1>1, <1>4, <2>1 DEF AtBody, Follows
<1> QED BY <1>2, <1>3, <1>4

\* Taking a body, or a header without one, leaves a header at the front.
LEMMA TakeClosed ==
  ASSUME NEW q, NEW d, Whole(q, d), q # <<>>, ~Open(Head(q))
  PROVE  Whole(Tail(q), d) /\ AtHeader(Tail(q), d)
<1>1. /\ Len(q) \in Nat /\ Len(q) >= 1 /\ Head(q) = q[1]
      /\ Tail(q) \in Seq(Units) /\ Len(Tail(q)) = Len(q) - 1
      /\ \A i \in 1 .. Len(Tail(q)) : Tail(q)[i] = q[i + 1]
      /\ Len(q) = 1 <=> Tail(q) = <<>>
      /\ Len(q) # 1 => Len(q) > 1 /\ Head(Tail(q)) = q[2]
  BY TailFacts DEF Whole
<1>2. Whole(Tail(q), d) BY WholeTail
<1>3. ASSUME Len(q) = 1 PROVE AtHeader(Tail(q), d)
  BY <1>1, <1>3 DEF AtHeader, Whole
<1>4. ASSUME Len(q) # 1 PROVE AtHeader(Tail(q), d)
  <2>1. Follows(q[1], q[2]) BY <1>1, <1>4 DEF Whole
  <2> QED BY <1>1, <1>4, <2>1 DEF AtHeader, Follows
<1> QED BY <1>2, <1>3, <1>4

\* A header arrives where no body is due.
LEMMA HeaderArrives ==
  ASSUME NEW q, NEW kind \in Kinds, NEW n \in Nat, Whole(q, NoRsd),
         NEW h, h = Unit("header", kind, n),
         NEW d, d = IF HasBody(kind) THEN Unit("body", kind, n) ELSE NoRsd
  PROVE  /\ Whole(Append(q, h), d)
         /\ AtHeader(q, NoRsd) => AtHeader(Append(q, h), d)
         /\ \A u \in Units : AtBody(q, NoRsd, u) => AtBody(Append(q, h), d, u)
<1> USE DEF Whole
<1>1. h \in Units /\ d \in Units \cup {NoRsd} /\ h.part = "header" BY DEF Units, Unit
<1>2. d # NoRsd <=> Open(h) BY DEF Units, Unit, Open, HasBody
<1>3. d # NoRsd => d = BodyOf(h) /\ d.part = "body" BY DEF Unit, BodyOf
<1>4. q \in Seq(Units) /\ Len(q) \in Nat OBVIOUS
<1>5. /\ Append(q, h) \in Seq(Units) /\ Len(Append(q, h)) = Len(q) + 1
      /\ \A i \in 1 .. Len(q) : Append(q, h)[i] = q[i]
      /\ Append(q, h)[Len(q) + 1] = h /\ Append(q, h) # <<>>
  <2> HIDE DEF Whole
  <2> QED BY <1>1, <1>4
<1>6. Whole(Append(q, h), d)
  <2>1. ASSUME NEW i \in 1 .. Len(q) PROVE Follows(Append(q, h)[i], Append(q, h)[i + 1])
    <3>1. CASE i < Len(q) BY <1>4, <1>5, <2>1, <3>1
    <3>2. CASE i = Len(q)
      <4>1. ~Open(q[Len(q)]) BY <1>4, <2>1, <3>2
      <4> QED BY <1>1, <1>4, <1>5, <2>1, <3>2, <4>1 DEF Follows
    <3> QED BY <1>4, <2>1, <3>1, <3>2
  <2> HIDE DEF HasBody
  <2>2. d # NoRsd => d.part = "body" /\ Open(h) /\ d = BodyOf(h) BY <1>2, <1>3
  <2>3. d = NoRsd => ~Open(h) BY <1>2
  <2> QED BY <1>1, <1>4, <1>5, <2>1, <2>2, <2>3
<1>7. q # <<>> => Head(Append(q, h)) = Head(q) BY <1>1, <1>4
<1>8. q = <<>> => Head(Append(q, h)) = h BY <1>1, <1>4
<1>9. \A u \in Units : BodyOf(u) \in Units BY DEF BodyOf, Unit, Units
<1> QED BY <1>1, <1>5, <1>6, <1>7, <1>8, <1>9 DEF AtHeader, AtBody

\* A body that is due arrives.
LEMMA BodyArrives ==
  ASSUME NEW q, NEW d, Whole(q, d), d # NoRsd
  PROVE  /\ Whole(Append(q, d), NoRsd)
         /\ AtHeader(q, d) => AtHeader(Append(q, d), NoRsd)
         /\ \A u \in Units : AtBody(q, d, u) => AtBody(Append(q, d), NoRsd, u)
<1> USE DEF Whole
<1>1. d \in Units /\ d.part = "body" /\ ~Open(d) BY DEF Open
<1>4. q \in Seq(Units) /\ Len(q) \in Nat OBVIOUS
<1>5. /\ Append(q, d) \in Seq(Units) /\ Len(Append(q, d)) = Len(q) + 1
      /\ \A i \in 1 .. Len(q) : Append(q, d)[i] = q[i]
      /\ Append(q, d)[Len(q) + 1] = d /\ Append(q, d) # <<>>
  BY <1>1, <1>4
<1>6. Whole(Append(q, d), NoRsd)
  <2>1. ASSUME NEW i \in 1 .. Len(q) PROVE Follows(Append(q, d)[i], Append(q, d)[i + 1])
    <3>1. CASE i < Len(q) BY <1>4, <1>5, <2>1, <3>1
    <3>2. CASE i = Len(q)
      <4>1. Open(q[Len(q)]) /\ d = BodyOf(q[Len(q)]) BY <1>4, <2>1, <3>2
      <4> QED BY <1>1, <1>4, <1>5, <2>1, <3>2, <4>1 DEF Follows
    <3> QED BY <1>4, <2>1, <3>1, <3>2
  <2> QED BY <1>1, <1>4, <1>5, <2>1
<1>7. q # <<>> => Head(Append(q, d)) = Head(q) BY <1>1, <1>4
<1>8. q = <<>> => Head(Append(q, d)) = d BY <1>1, <1>4
<1> QED BY <1>1, <1>5, <1>6, <1>7, <1>8 DEF AtHeader, AtBody

-----------------------------------------------------------------------------
\* Rungs.

\* The operations of a rung.
LEMMA ScriptShape ==
  ASSUME NEW r \in Rungs
  PROVE  /\ Script(r) \in Seq(Ops) /\ Script(r) # <<>>
         /\ r \in ReadRungs => Script(r) = <<"r1">>
         /\ r \in {"queued", "legacy"} => \A i \in 1 .. Len(Script(r)) : Script(r)[i] # "r1"
<1>1. CASE r = "queued" BY <1>1 DEF Script, Ops, ReadRungs
<1>2. CASE r = "legacy" BY <1>2 DEF Script, Ops, ReadRungs
<1>3. CASE r \in ReadRungs
  <2>1. r # "queued" /\ r # "legacy" BY <1>3 DEF ReadRungs
  <2>2. Script(r) = <<"r1">> BY <2>1 DEF Script
  <2>3. <<"r1">> \in Seq(Ops) /\ <<"r1">> # <<>> BY DEF Ops
  <2> QED BY <2>1, <2>2, <2>3
<1> QED BY <1>1, <1>2, <1>3 DEF Rungs, ReadRungs

\* A rung that fails hands over to the next one, or ends the attempt.
LEMMA ErrsEffect ==
  ASSUME RungTypes, RungInv, rung \in Rungs, Errs \/ Enter(AfterTimeout(rung)), via' = via
  PROVE  /\ RungTypes' /\ RungInv'
         /\ reading' = NoRsd /\ rung' # "found"
<1> USE DEF Enter, RungInv, RungTypes
<1> DEFINE next == {AfterError(rung), AfterTimeout(rung)}
<1>1. rung' \in next BY DEF Errs
<1>2. /\ rung \in {"queued", "queuedRead"} => next = {"reopen"}
      /\ rung = "legacy" => next = {"passive"}
      /\ rung = "legacyRead" => next = {"passive", "none"}
      /\ rung \in {"passive", "direct"} => next = {"none"}
  BY DEF AfterError, AfterTimeout
<1> HIDE DEF next
<1>3. CASE rung' \in {"reopen", "none"}
  <2>1. rung' \notin Rungs BY <1>3 DEF Rungs
  <2>2. todo' = <<>> /\ tried' = tried \cup ({rung'} \cap Rungs) /\ reading' = NoRsd
    BY <2>1 DEF Errs
  <2> QED BY <1>1, <1>2, <1>3, <2>2 DEF Rungs, BetweenRungs, ReadRungs
<1>4. CASE rung' = "passive"
  <2>1. rung' \in Rungs BY <1>4 DEF Rungs
  <2>2. todo' = Script("passive") /\ tried' = tried \cup {"passive"} /\ reading' = NoRsd
    BY <1>4, <2>1 DEF Errs
  <2>3. todo' = <<"r1">> /\ todo' \in Seq(Ops) BY <2>2 DEF Script, Ops
  <2> QED BY <1>1, <1>2, <1>4, <2>2, <2>3 DEF Rungs, BetweenRungs, ReadRungs
<1> QED BY <1>1, <1>2, <1>3, <1>4 DEF Rungs

\* An operation that is not the read ends with the next one, or with the read.
LEMMA DoneEffect ==
  ASSUME RungTypes, RungInv, rung \in {"queued", "legacy"}, Done, via' = via
  PROVE  /\ RungTypes' /\ RungInv'
         /\ reading' = NoRsd /\ rung' # "found"
<1>1. todo \in Seq(Ops) /\ todo # <<>> BY DEF RungTypes, RungInv
<1>2. CASE Len(todo) = 1
  <2>1. Enter(AfterOk(rung)) BY <1>2 DEF Done
  <2>2. AfterOk(rung) \in {"queuedRead", "legacyRead"} /\ rung' = AfterOk(rung)
    BY <2>1 DEF AfterOk, Enter
  <2>3. todo' = <<"r1">> BY <2>1, <2>2 DEF Enter, Script, Rungs
  <2>4. todo' \in Seq(Ops) BY <2>3 DEF Ops
  <2>5. rung = "queued" => rung' = "queuedRead" BY <2>2 DEF AfterOk
  <2>6. rung = "legacy" => rung' = "legacyRead" BY <2>2 DEF AfterOk
  <2> QED BY <2>1, <2>2, <2>3, <2>4, <2>5, <2>6 DEF RungInv, RungTypes, Enter, Rungs, BetweenRungs, ReadRungs
<1>3. CASE Len(todo) # 1
  <2>1. todo' = Tail(todo) /\ reading' = NoRsd /\ rung' = rung /\ tried' = tried
    BY <1>3 DEF Done
  <2>2. /\ Tail(todo) \in Seq(Ops) /\ Tail(todo) # <<>>
        /\ \A i \in 1 .. Len(Tail(todo)) : Tail(todo)[i] # "r1"
    <3>1. /\ Len(todo) \in Nat /\ Tail(todo) \in Seq(Ops) /\ Tail(todo) # <<>>
          /\ Len(Tail(todo)) = Len(todo) - 1
          /\ \A i \in 1 .. Len(Tail(todo)) : Tail(todo)[i] = todo[i + 1]
      BY <1>1, <1>3, TailFacts
    <3>2. \A i \in 1 .. Len(todo) : todo[i] # "r1" BY DEF RungInv
    <3> QED BY <3>1, <3>2
  <2> QED BY <2>1, <2>2 DEF RungInv, RungTypes, BetweenRungs, ReadRungs
<1> QED BY <1>2, <1>3

\* Entering "found" keeps the rungs in order.
LEMMA FoundEffect ==
  ASSUME Enter("found"), RungInv, via' = via
  PROVE  RungTypes' /\ RungInv' /\ reading' = NoRsd /\ rung' = "found"
<1>1. "found" \notin Rungs BY DEF Rungs
<1>2. rung' = "found" /\ todo' = <<>> /\ reading' = NoRsd BY <1>1 DEF Enter
<1> QED BY <1>2 DEF RungTypes, RungInv, Rungs, BetweenRungs, ReadRungs

\* While a rung has operations left, nothing was found; only a bootstrap has
\* operations other than the read.
LEMMA ActiveFacts ==
  ASSUME LadderInv, todo # <<>>
  PROVE  /\ rung \in Rungs /\ rsd = NoRsd /\ Head(todo) \in Ops
         /\ Head(todo) # "r1" => rung \in {"queued", "legacy"}
<1>1. rung \in Rungs /\ rsd = NoRsd
  BY DEF LadderInv, LadderTypeInv, RungTypes, RungInv, FoundInv, BetweenRungs
<1>2. Head(todo) \in Ops BY TailFacts DEF LadderInv, LadderTypeInv, RungTypes
<1>3. rung \in ReadRungs => Head(todo) = "r1" BY DEF LadderInv, RungInv
<1> QED BY <1>1, <1>2, <1>3 DEF Rungs, ReadRungs

\* A whole message ends the operation, the rung or the search.
LEMMA GotMessageEffect ==
  ASSUME LadderInv, todo # <<>>, NEW h, NEW b, GotMessage(h, b), via' = via, count' = count,
         h.kind = "handshake" => h.n <= count /\ b = BodyOf(h)
  PROVE  RungTypes' /\ RungInv' /\ reading' = NoRsd /\ FoundInv'
<1>1. /\ rung \in Rungs /\ rsd = NoRsd /\ RungTypes /\ RungInv
      /\ Head(todo) # "r1" => rung \in {"queued", "legacy"}
  BY ActiveFacts DEF LadderInv, LadderTypeInv
<1>2. CASE Head(todo) # "r1"
  <2>1. Done /\ rsd' = rsd BY <1>2 DEF GotMessage
  <2> QED BY <1>1, <1>2, <2>1, DoneEffect DEF FoundInv
<1>3. CASE Head(todo) = "r1" /\ h.kind = "handshake"
  <2>1. rsd' = [header |-> h, body |-> b] /\ Enter("found") BY <1>3 DEF GotMessage
  <2>2. rsd'.header = h /\ rsd'.body = Unit("body", "handshake", h.n)
    BY <1>3, <2>1 DEF BodyOf
  <2> QED BY <1>1, <1>3, <2>1, <2>2, FoundEffect DEF FoundInv
<1>4. CASE Head(todo) = "r1" /\ h.kind # "handshake"
  <2>1. rsd' = rsd BY <1>4 DEF GotMessage
  <2>2. CASE Errs BY <1>1, <2>1, <2>2, ErrsEffect DEF FoundInv
  <2>3. CASE reading' = NoRsd /\ UNCHANGED <<rung, todo, tried>>
    BY <1>1, <2>1, <2>3 DEF FoundInv, RungInv, RungTypes
  <2>4. Errs \/ (reading' = NoRsd /\ UNCHANGED <<rung, todo, tried>>)
    BY <1>4 DEF GotMessage
  <2> QED BY <2>2, <2>3, <2>4
<1> QED BY <1>2, <1>3, <1>4

\* Dropping a read, or finishing an operation, disturbs no stream.
LEMMA QuietStep ==
  ASSUME LadderInv, UNCHANGED <<marker, inbox, due, count>>, reading' = NoRsd
  PROVE  StreamInv' /\ MarkerInv' /\ CountInv'
BY DEF LadderInv, StreamInv, MarkerInv, CountInv

-----------------------------------------------------------------------------
\* The actions.

\* A new framer has nothing on its streams.
LEMMA OpensStep == ASSUME LadderInv, Opens PROVE LadderInv'
<1> DEFINE r == IF via = "direct" THEN "direct" ELSE IF rung = "open" THEN "queued" ELSE "legacy"
<1>1. Enter(r) /\ NewFramer /\ r \in Rungs /\ r # "found" BY DEF Opens, Rungs
<1>2. todo' = Script(r) /\ rung' = r /\ reading' = NoRsd /\ tried' = tried \cup {r}
  BY <1>1 DEF Enter
<1>3. LadderTypeInv'
  <2>1. RungTypes' BY <1>1, <1>2, ScriptShape DEF RungTypes
  <2>2. <<>> \in Seq(Units) OBVIOUS
  <2> QED BY <1>1, <1>2, <2>1, <2>2 DEF LadderTypeInv, NewFramer
<1>4. RungInv'
  <2>1. /\ r \in ReadRungs => todo' = <<"r1">>
        /\ r \in {"queued", "legacy"} =>
             todo' # <<>> /\ \A i \in 1 .. Len(todo') : todo'[i] # "r1"
    BY <1>1, <1>2, ScriptShape
  <2>2. r = "legacy" => "queued" \in tried BY DEF Opens, LadderInv, RungInv
  <2>3. via' = via BY DEF Opens
  <2> QED BY <1>2, <2>1, <2>2, <2>3 DEF RungInv, BetweenRungs, ReadRungs
<1>5. StreamInv' BY <1>1 DEF NewFramer, StreamInv, Whole, StreamIds
<1>6. MarkerInv' BY <1>1, <1>2 DEF NewFramer, MarkerInv, AtHeader, StreamIds
<1>7. CountInv' BY <1>1, <1>2 DEF NewFramer, CountInv, StreamIds
<1>8. FoundInv' BY DEF Opens, LadderInv, FoundInv
<1> QED BY <1>3, <1>4, <1>5, <1>6, <1>7, <1>8 DEF LadderInv

\* OpenFails, Attempt and AttemptFails move between the rungs.
LEMMA BetweenStep == ASSUME LadderInv, OpenFails \/ Attempt \/ AttemptFails PROVE LadderInv'
<1>1. UNCHANGED <<via, todo, reading, marker, inbox, due, count, rsd>>
  BY DEF OpenFails, Attempt, AttemptFails, framerVars
<1>2. rung \in BetweenRungs /\ rung # "found" /\ rung' \in BetweenRungs
  BY DEF OpenFails, Attempt, AttemptFails, BetweenRungs
<1>3. reading = NoRsd
  BY <1>2 DEF LadderInv, MarkerInv, RungInv, Reading
<1>4. LadderTypeInv' BY <1>1, <1>2 DEF LadderInv, LadderTypeInv, RungTypes
<1>5. RungInv'
  BY <1>1, <1>2 DEF LadderInv, RungInv, Rungs, ReadRungs, BetweenRungs, OpenFails, Attempt, AttemptFails
<1>6. FoundInv' BY <1>1, <1>2 DEF LadderInv, FoundInv
<1> QED BY <1>1, <1>3, <1>4, <1>5, <1>6, QuietStep DEF LadderInv

\* Write, FramerFails, Refused and Timeout leave the streams alone.
LEMMA DropStep == ASSUME LadderInv, Write \/ FramerFails \/ Refused \/ Timeout PROVE LadderInv'
<1>1. UNCHANGED <<via, marker, inbox, due, count, rsd>>
  BY DEF Write, FramerFails, Refused, Timeout, framerVars
<1>2. RungTypes /\ RungInv BY DEF LadderInv, LadderTypeInv
<1>3. RungTypes' /\ RungInv' /\ reading' = NoRsd /\ FoundInv'
  <2>1. CASE Write
    <3>1. todo # <<>> /\ Head(todo) # "r1" /\ Done BY <2>1 DEF Write, Writing
    <3>2. rung \in {"queued", "legacy"} /\ rsd = NoRsd BY <3>1, ActiveFacts
    <3> QED BY <1>1, <1>2, <3>1, <3>2, DoneEffect DEF FoundInv
  <2>2. CASE FramerFails \/ Refused
    <3>1. todo # <<>> /\ Errs BY <2>2 DEF FramerFails, Refused, Reading
    <3> QED BY <1>1, <1>2, <3>1, ActiveFacts, ErrsEffect DEF FoundInv
  <2>3. CASE Timeout
    <3>1. rung \in Rungs /\ Enter(AfterTimeout(rung)) BY <2>3 DEF Timeout
    <3>2. rsd = NoRsd BY <3>1 DEF LadderInv, FoundInv, Rungs
    <3> QED BY <1>1, <1>2, <3>1, <3>2, ErrsEffect DEF FoundInv
  <2> QED BY <2>1, <2>2, <2>3
<1>4. LadderTypeInv' BY <1>1, <1>3 DEF LadderTypeInv, LadderInv
<1> QED BY <1>1, <1>3, <1>4, QuietStep DEF LadderInv

\* TakeHeader preserves the invariant.
LEMMA TakeHeaderStep == ASSUME LadderInv, TakeHeader PROVE LadderInv'
<1> DEFINE s == StreamOf(Head(todo))
           h == Head(inbox[s])
<1>1. /\ todo # <<>> /\ reading = NoRsd /\ ~marker /\ inbox[s] # <<>>
      /\ inbox' = [inbox EXCEPT ![s] = Tail(inbox[s])] /\ marker' = HasBody(h.kind)
      /\ via' = via /\ due' = due /\ count' = count
  BY DEF TakeHeader, Reading, MayStart
<1>2. s \in StreamIds BY DEF StreamOf, StreamIds
<1>3. inbox[s] \in Seq(Units) BY <1>2 DEF LadderInv, LadderTypeInv
<1>4. /\ h \in Units /\ Tail(inbox[s]) \in Seq(Units) /\ h = inbox[s][1]
      /\ Len(inbox[s]) \in Nat /\ Len(inbox[s]) >= 1
      /\ Len(Tail(inbox[s])) = Len(inbox[s]) - 1
      /\ \A i \in 1 .. Len(Tail(inbox[s])) : Tail(inbox[s])[i] = inbox[s][i + 1]
  BY <1>1, <1>3, TailFacts
<1>5. h.part = "header" /\ h.n <= count
  BY <1>1, <1>2, <1>4 DEF LadderInv, MarkerInv, AtHeader, CountInv
<1>6. /\ inbox' \in [StreamIds -> Seq(Units)] /\ inbox'[s] = Tail(inbox[s])
      /\ \A t \in StreamIds : t # s => inbox'[t] = inbox[t]
  BY <1>1, <1>2, <1>4 DEF LadderInv, LadderTypeInv
<1>7. Whole(inbox[s], due[s]) /\ \A t \in StreamIds : AtHeader(inbox[t], due[t])
  BY <1>1, <1>2 DEF LadderInv, StreamInv, MarkerInv
<1>8. /\ \A t \in StreamIds : \A i \in 1 .. Len(inbox'[t]) : inbox'[t][i].n <= count
      /\ \A t \in StreamIds : due[t] # NoRsd => due[t].n <= count
  <2>1. \A t \in StreamIds : \A i \in 1 .. Len(inbox[t]) : inbox[t][i].n <= count
    BY DEF LadderInv, CountInv
  <2>2. \A i \in 1 .. Len(inbox'[s]) : inbox'[s][i].n <= count
    BY <1>2, <1>4, <1>6, <2>1
  <2> QED BY <1>6, <2>1, <2>2 DEF LadderInv, CountInv
<1>9. StreamInv'
  BY <1>1, <1>6, <1>7, TakeOpen, TakeClosed DEF LadderInv, StreamInv
<1>10. marker' \in BOOLEAN BY <1>1 DEF HasBody
<1>11. CASE h.kind = "oversize"
  <2>1. Errs /\ rsd' = rsd /\ marker' BY <1>1, <1>11 DEF TakeHeader, HasBody
  <2>2. RungTypes' /\ RungInv' /\ reading' = NoRsd /\ FoundInv'
    BY <1>1, <2>1, ActiveFacts, ErrsEffect DEF LadderInv, LadderTypeInv, FoundInv
  <2> QED BY <1>1, <1>6, <1>8, <1>9, <1>10, <2>1, <2>2 DEF LadderInv, LadderTypeInv, MarkerInv, CountInv
<1>12. CASE h.kind # "oversize" /\ HasBody(h.kind)
  <2>1. reading' = h /\ UNCHANGED <<rung, todo, tried, rsd>> /\ marker'
    BY <1>1, <1>12 DEF TakeHeader
  <2>2. AtBody(inbox'[s], due[s], h)
    BY <1>1, <1>5, <1>6, <1>7, <1>12, TakeOpen, ZenonT(60) DEF Open
  <2>3. MarkerInv'
    <3>1. Reading' BY <2>1 DEF Reading, TakeHeader
    <3> QED BY <1>1, <1>5, <1>6, <1>7, <2>1, <2>2, <3>1 DEF MarkerInv
  <2>4. LadderTypeInv' BY <1>1, <1>4, <1>6, <1>10, <2>1 DEF LadderInv, LadderTypeInv, RungTypes
  <2>5. RungInv' /\ FoundInv' BY <1>1, <2>1 DEF LadderInv, RungInv, FoundInv
  <2>6. CountInv' BY <1>1, <1>5, <1>8, <2>1 DEF CountInv
  <2> QED BY <1>9, <2>3, <2>4, <2>5, <2>6 DEF LadderInv
<1>13. CASE ~HasBody(h.kind)
  <2>1. GotMessage(h, h) /\ ~marker' BY <1>1, <1>13 DEF TakeHeader, HasBody
  <2>2. h.kind # "handshake" BY <1>13 DEF HasBody
  <2>3. RungTypes' /\ RungInv' /\ reading' = NoRsd /\ FoundInv'
    BY <1>1, <2>1, <2>2, GotMessageEffect
  <2>4. AtHeader(inbox'[s], due[s])
    BY <1>1, <1>6, <1>7, <1>13, TakeClosed DEF Open
  <2>5. MarkerInv' BY <1>1, <1>6, <1>7, <2>1, <2>3, <2>4 DEF MarkerInv
  <2>6. LadderTypeInv' BY <1>1, <1>6, <1>10, <2>3 DEF LadderInv, LadderTypeInv
  <2>7. CountInv' BY <1>1, <1>8, <2>3 DEF CountInv
  <2> QED BY <1>9, <2>3, <2>5, <2>6, <2>7 DEF LadderInv
<1> QED BY <1>11, <1>12, <1>13

\* TakeBody preserves the invariant: the body is that of the header read.
LEMMA TakeBodyStep == ASSUME LadderInv, TakeBody PROVE LadderInv'
<1> DEFINE s == StreamOf(Head(todo))
           b == Head(inbox[s])
<1>1. /\ todo # <<>> /\ reading # NoRsd /\ inbox[s] # <<>>
      /\ inbox' = [inbox EXCEPT ![s] = Tail(inbox[s])] /\ marker' = FALSE
      /\ GotMessage(reading, b)
      /\ via' = via /\ due' = due /\ count' = count
  BY DEF TakeBody, Reading
<1>2. s \in StreamIds BY DEF StreamOf, StreamIds
<1>3. inbox[s] \in Seq(Units) BY <1>2 DEF LadderInv, LadderTypeInv
<1>4. /\ Tail(inbox[s]) \in Seq(Units)
      /\ Len(inbox[s]) \in Nat /\ Len(inbox[s]) >= 1
      /\ Len(Tail(inbox[s])) = Len(inbox[s]) - 1
      /\ \A i \in 1 .. Len(Tail(inbox[s])) : Tail(inbox[s])[i] = inbox[s][i + 1]
  BY <1>1, <1>3, TailFacts
<1>5. /\ b = BodyOf(reading) /\ reading.n <= count
      /\ \A t \in StreamIds : t # s => AtHeader(inbox[t], due[t])
  BY <1>1, <1>2 DEF LadderInv, MarkerInv, AtBody, CountInv
<1>6. /\ inbox' \in [StreamIds -> Seq(Units)] /\ inbox'[s] = Tail(inbox[s])
      /\ \A t \in StreamIds : t # s => inbox'[t] = inbox[t]
  BY <1>1, <1>2, <1>4 DEF LadderInv, LadderTypeInv
<1>7. Whole(inbox'[s], due[s]) /\ AtHeader(inbox'[s], due[s])
  <2>1. ~Open(b) BY <1>5 DEF Open, BodyOf, Unit
  <2> QED BY <1>1, <1>2, <1>6, <2>1, TakeClosed DEF LadderInv, StreamInv
<1>8. RungTypes' /\ RungInv' /\ reading' = NoRsd /\ FoundInv'
  BY <1>1, <1>5, GotMessageEffect
<1>9. StreamInv' BY <1>1, <1>6, <1>7 DEF LadderInv, StreamInv
<1>10. MarkerInv' BY <1>1, <1>5, <1>6, <1>7, <1>8 DEF MarkerInv
<1>11. CountInv'
  <2>1. \A t \in StreamIds : \A i \in 1 .. Len(inbox[t]) : inbox[t][i].n <= count
    BY DEF LadderInv, CountInv
  <2>2. \A i \in 1 .. Len(inbox'[s]) : inbox'[s][i].n <= count
    <3> DEFINE q == inbox[s]
               r == Tail(q)
    <3>1. \A i \in 1 .. Len(q) : q[i].n <= count
      BY <1>2, <2>1
    <3>2. Len(q) \in Nat /\ Len(r) = Len(q) - 1 /\ \A i \in 1 .. Len(r) : r[i] = q[i + 1]
      BY <1>4
    <3>3. inbox'[s] = r
      BY <1>6
    <3> HIDE DEF q, r
    <3>4. \A i \in 1 .. Len(r) : r[i].n <= count
      BY <3>1, <3>2
    <3> QED
      BY <3>3, <3>4
  <2> QED BY <1>1, <1>6, <1>8, <2>1, <2>2 DEF LadderInv, CountInv
<1>12. LadderTypeInv' BY <1>1, <1>6, <1>8 DEF LadderInv, LadderTypeInv
<1> QED BY <1>8, <1>9, <1>10, <1>11, <1>12 DEF LadderInv

\* A header arrives: the front of its stream stays what it was.
LEMMA DeviceHeaderStep ==
  ASSUME LadderInv, NEW s \in StreamIds, NEW kind \in Kinds, DeviceHeader(s, kind)
  PROVE  LadderInv'
<1> DEFINE h == Unit("header", kind, count + 1)
           d == IF HasBody(kind) THEN Unit("body", kind, count + 1) ELSE NoRsd
<1>1. /\ rung \in Rungs /\ due[s] = NoRsd /\ count' = count + 1
      /\ inbox' = [inbox EXCEPT ![s] = Append(inbox[s], h)]
      /\ due' = [due EXCEPT ![s] = d]
      /\ UNCHANGED <<via, rung, todo, reading, marker, tried, rsd>>
  BY DEF DeviceHeader
<1>2. count \in Nat /\ inbox[s] \in Seq(Units) BY DEF LadderInv, LadderTypeInv
<1>3. /\ h \in Units /\ h.n = count + 1 /\ d \in Units \cup {NoRsd}
      /\ d # NoRsd => d.n = count + 1
  BY <1>2 DEF Unit, Units
<1>4. Whole(inbox[s], NoRsd) BY <1>1 DEF LadderInv, StreamInv
<1>5. /\ Whole(Append(inbox[s], h), d)
      /\ AtHeader(inbox[s], NoRsd) => AtHeader(Append(inbox[s], h), d)
      /\ \A u \in Units : AtBody(inbox[s], NoRsd, u) => AtBody(Append(inbox[s], h), d, u)
  <2>1. count + 1 \in Nat BY <1>2
  <2> QED BY <1>4, <2>1, HeaderArrives
<1> HIDE DEF h, d
<1>6. /\ Len(inbox[s]) \in Nat
      /\ Append(inbox[s], h) \in Seq(Units) /\ Len(Append(inbox[s], h)) = Len(inbox[s]) + 1
      /\ \A i \in 1 .. Len(inbox[s]) : Append(inbox[s], h)[i] = inbox[s][i]
      /\ Append(inbox[s], h)[Len(inbox[s]) + 1] = h
  BY <1>2, <1>3
<1>7. /\ inbox' \in [StreamIds -> Seq(Units)] /\ inbox'[s] = Append(inbox[s], h)
      /\ due' \in [StreamIds -> Units \cup {NoRsd}] /\ due'[s] = d
      /\ \A t \in StreamIds : t # s => inbox'[t] = inbox[t] /\ due'[t] = due[t]
  BY <1>1, <1>3, <1>6 DEF LadderInv, LadderTypeInv
<1>8. LadderTypeInv' BY <1>1, <1>2, <1>7 DEF LadderInv, LadderTypeInv, RungTypes
<1>9. RungInv' BY <1>1 DEF LadderInv, RungInv
<1>10. StreamInv' BY <1>5, <1>7 DEF LadderInv, StreamInv
<1>11. MarkerInv'
  BY <1>1, <1>5, <1>7 DEF LadderInv, LadderTypeInv, MarkerInv, Reading
<1>12. CountInv'
  <2>1. /\ \A t \in StreamIds : \A i \in 1 .. Len(inbox[t]) : inbox[t][i].n <= count
        /\ \A t \in StreamIds : due[t] # NoRsd => due[t].n <= count
        /\ reading # NoRsd => reading.n <= count
    BY DEF LadderInv, CountInv
  <2>2. /\ \A t \in StreamIds : \A i \in 1 .. Len(inbox[t]) : inbox[t][i].n \in Nat
        /\ \A t \in StreamIds : due[t] # NoRsd => due[t].n \in Nat
        /\ reading # NoRsd => reading.n \in Nat
    <3>1. \A u \in Units : u.n \in Nat BY DEF Units
    <3>2. ASSUME NEW t \in StreamIds, NEW i \in 1 .. Len(inbox[t]) PROVE inbox[t][i] \in Units
      <4>1. inbox[t] \in Seq(Units) BY DEF LadderInv, LadderTypeInv
      <4> QED BY <4>1
    <3> QED BY <3>1, <3>2 DEF LadderInv, LadderTypeInv
  <2>3. \A i \in 1 .. Len(inbox'[s]) : inbox'[s][i].n <= count + 1
    BY <1>2, <1>3, <1>6, <1>7, <2>1, <2>2
  <2>4. \A t \in StreamIds : \A i \in 1 .. Len(inbox'[t]) : inbox'[t][i].n <= count + 1
    <3>1. \A x \in Nat : x <= count => x <= count + 1 BY <1>2
    <3>2. ASSUME NEW t \in StreamIds, t # s, NEW i \in 1 .. Len(inbox'[t])
          PROVE  inbox'[t][i].n <= count + 1
      <4>1. inbox'[t] = inbox[t] BY <1>7, <3>2
      <4> QED BY <2>1, <2>2, <3>1, <4>1
    <3> QED BY <2>3, <3>2
  <2>5. ASSUME NEW t \in StreamIds, due'[t] # NoRsd PROVE due'[t].n <= count + 1
    <3>1. CASE t = s BY <1>2, <1>3, <1>7, <2>1, <2>2, <2>5, <3>1
    <3>2. CASE t # s
      <4>1. due'[t] = due[t] BY <1>7, <3>2
      <4> QED BY <1>2, <2>1, <2>2, <2>5, <4>1
    <3> QED BY <3>1, <3>2
  <2>6. reading' # NoRsd => reading'.n <= count + 1 BY <1>1, <1>2, <2>1, <2>2
  <2> QED BY <1>1, <2>4, <2>5, <2>6 DEF CountInv
<1>13. FoundInv' BY <1>1 DEF LadderInv, FoundInv, Rungs
<1> QED BY <1>8, <1>9, <1>10, <1>11, <1>12, <1>13 DEF LadderInv

\* A body arrives behind its header, or at the front if that was consumed.
LEMMA DeviceBodyStep ==
  ASSUME LadderInv, NEW s \in StreamIds, DeviceBody(s)
  PROVE  LadderInv'
<1> DEFINE d == due[s]
<1>1. /\ rung \in Rungs /\ d # NoRsd
      /\ inbox' = [inbox EXCEPT ![s] = Append(inbox[s], d)]
      /\ due' = [due EXCEPT ![s] = NoRsd]
      /\ UNCHANGED <<via, rung, todo, reading, marker, tried, rsd, count>>
  BY DEF DeviceBody
<1>2. d \in Units /\ inbox[s] \in Seq(Units) BY <1>1 DEF LadderInv, LadderTypeInv
<1>3. /\ Whole(Append(inbox[s], d), NoRsd)
      /\ AtHeader(inbox[s], d) => AtHeader(Append(inbox[s], d), NoRsd)
      /\ \A u \in Units : AtBody(inbox[s], d, u) => AtBody(Append(inbox[s], d), NoRsd, u)
  BY <1>1, BodyArrives DEF LadderInv, StreamInv
<1>4. /\ Len(inbox[s]) \in Nat
      /\ Append(inbox[s], d) \in Seq(Units) /\ Len(Append(inbox[s], d)) = Len(inbox[s]) + 1
      /\ \A i \in 1 .. Len(inbox[s]) : Append(inbox[s], d)[i] = inbox[s][i]
      /\ Append(inbox[s], d)[Len(inbox[s]) + 1] = d
  BY <1>2
<1>5. /\ inbox' \in [StreamIds -> Seq(Units)] /\ inbox'[s] = Append(inbox[s], d)
      /\ due' \in [StreamIds -> Units \cup {NoRsd}] /\ due'[s] = NoRsd
      /\ \A t \in StreamIds : t # s => inbox'[t] = inbox[t] /\ due'[t] = due[t]
  BY <1>1, <1>4 DEF LadderInv, LadderTypeInv
<1>6. LadderTypeInv' BY <1>1, <1>5 DEF LadderInv, LadderTypeInv, RungTypes
<1>7. RungInv' BY <1>1 DEF LadderInv, RungInv
<1>8. StreamInv' BY <1>3, <1>5 DEF LadderInv, StreamInv
<1>9. MarkerInv'
  BY <1>1, <1>3, <1>5 DEF LadderInv, LadderTypeInv, MarkerInv, Reading
<1>10. CountInv'
  <2>1. /\ \A t \in StreamIds : \A i \in 1 .. Len(inbox[t]) : inbox[t][i].n <= count
        /\ d.n <= count
    BY <1>1 DEF LadderInv, CountInv
  <2>2. \A i \in 1 .. Len(inbox'[s]) : inbox'[s][i].n <= count
    BY <1>4, <1>5, <2>1
  <2> QED BY <1>1, <1>5, <2>1, <2>2 DEF LadderInv, CountInv
<1>11. FoundInv' BY <1>1 DEF LadderInv, FoundInv
<1> QED BY <1>6, <1>7, <1>8, <1>9, <1>10, <1>11 DEF LadderInv

-----------------------------------------------------------------------------
\* The invariant holds initially.
LEMMA LadderInitInv == LadderInit => LadderInv
<1> SUFFICES ASSUME LadderInit PROVE LadderInv OBVIOUS
<1> USE DEF LadderInit
<1>1. <<>> \in Seq(Units) /\ <<>> \in Seq(Ops) OBVIOUS
<1>2. LadderTypeInv BY <1>1 DEF LadderTypeInv, RungTypes, BetweenRungs
<1>3. RungInv BY DEF RungInv, ReadRungs
<1>4. StreamInv BY <1>1 DEF StreamInv, Whole
<1>5. MarkerInv BY DEF MarkerInv, AtHeader
<1>6. CountInv BY DEF CountInv
<1>7. FoundInv BY DEF FoundInv
<1> QED BY <1>2, <1>3, <1>4, <1>5, <1>6, <1>7 DEF LadderInv

\* Every step of the host and of the device preserves it.
LEMMA LadderNextInv == LadderInv /\ [LadderNext]_ladderVars => LadderInv'
<1> SUFFICES ASSUME LadderInv, [LadderNext]_ladderVars PROVE LadderInv' OBVIOUS
<1>1. CASE UNCHANGED ladderVars
  BY <1>1 DEF ladderVars, LadderInv, LadderTypeInv, RungTypes, RungInv, StreamInv, MarkerInv, Reading,
              CountInv, FoundInv
<1>2. CASE HostStep
  BY <1>2, OpensStep, BetweenStep, DropStep, TakeHeaderStep, TakeBodyStep DEF HostStep
<1> QED BY <1>1, <1>2, DeviceHeaderStep, DeviceBodyStep DEF LadderNext

\* The invariant holds throughout the ladder.
LEMMA LadderInvariance == LadderSpec => []LadderInv
BY LadderInitInv, LadderNextInv, PTL DEF LadderSpec

\* For every number of skips, attempts and messages: no read starts inside a
\* message, whichever rung was dropped where; what is returned is one whole
\* message of the framer in use; an attempt through the proxy has tried both
\* bootstraps before it gives up on an open connection.
THEOREM RsdIsFaithful == LadderSpec => []RsdFaithful
<1>1. LadderInv => RsdFaithful
  BY DEF LadderInv, MarkerInv, AtHeader, FoundInv, RungInv, RsdFaithful
<1> QED BY <1>1, LadderInvariance, PTL

HIDE LadderAssumption

-----------------------------------------------------------------------------
\* The secret file.

Early == {"create", "write", "sync", "rename", "check", "aside"}
Moved == {"install", "restore", "drop", "discard"}
Swapping == {"install", "restore"}

Good(f) == f # Nil /\ f.whole /\ f.synced

\* A name process w has given out.
Own(w, x) == x \in Temps /\ x[1] = w /\ x[2] < counter[w]

SecretTypeInv ==
    /\ windows \in BOOLEAN
    /\ disk \in [Names -> Files \cup {Nil}]
    /\ saver \in [Writers -> [pc : {"idle"} \cup Early \cup Moved,
                              tmp : Temps \cup {Nil}, backup : Temps \cup {Nil}]]
    /\ counter \in [Writers -> Nat]
    /\ recorded \in BOOLEAN
    /\ faults \in [deaths : Nat, litter : BOOLEAN, lost : BOOLEAN]

ControlInv ==
    \A w \in Writers :
        /\ saver[w].pc = "idle" => saver[w].tmp = Nil
        /\ saver[w].pc # "idle" => Own(w, saver[w].tmp)
        /\ saver[w].pc \in Moved => /\ Own(w, saver[w].backup)
                                    /\ saver[w].backup # saver[w].tmp
                                    /\ windows
        /\ saver[w].pc \notin Moved => saver[w].backup = Nil
        /\ saver[w].pc \in {"check", "aside"} => windows

StageInv ==
    \A w \in Writers :
        /\ saver[w].pc = "write" => disk[saver[w].tmp] # Nil
        /\ saver[w].pc = "sync" => disk[saver[w].tmp] # Nil /\ disk[saver[w].tmp].whole
        /\ saver[w].pc \in {"rename", "check", "aside"} \cup Swapping => Good(disk[saver[w].tmp])
        /\ saver[w].pc \in Swapping => Good(disk[saver[w].backup])
        /\ saver[w].pc = "drop" => disk[saver[w].tmp] = Nil
        /\ saver[w].pc = "discard" => disk[saver[w].backup] = Nil \/ faults.litter

RecordInv ==
    /\ disk[Record] # Nil => Good(disk[Record])
    /\ recorded /\ disk[Record] = Nil =>
         /\ windows
         /\ faults.lost \/ \E w \in Writers : saver[w].pc \in Swapping

LitterInv ==
    \A n \in Temps : disk[n] # Nil =>
        faults.litter \/ \E w \in Writers : n \in {saver[w].tmp, saver[w].backup}

SecretInv == SecretTypeInv /\ ControlInv /\ StageInv /\ RecordInv /\ LitterInv

USE SecretAssumption DEF Files, Idle, Goes, Rename, Good, Early, Moved, Swapping

-----------------------------------------------------------------------------
\* The names.

\* The record's name is none of the temporary names.
LEMMA RecordName == Record \in Names /\ Record \notin Temps
BY DEF Names, Temps, Record

\* A temporary name that is still free to give out is a name of its process.
LEMMA FreshName ==
  ASSUME NEW w \in Writers, NEW n \in Nat, n <= MaxSeq
  PROVE  Temp(w, n) \in Temps /\ Temp(w, n)[1] = w /\ Temp(w, n)[2] = n
BY DEF Temp, Temps

\* What a removal leaves, whether it succeeds or not.
LEMMA RemovesEffect ==
  ASSUME SecretTypeInv, NEW name \in Names, Removes(name)
  PROVE  /\ disk' \in [Names -> Files \cup {Nil}]
         /\ faults' \in [deaths : Nat, litter : BOOLEAN, lost : BOOLEAN]
         /\ faults'.lost = faults.lost
         /\ faults.litter => faults'.litter
         /\ \/ disk' = [disk EXCEPT ![name] = Nil]
            \/ disk' = disk /\ (disk[name] # Nil => faults'.litter)
<1>1. CASE disk' = [disk EXCEPT ![name] = Nil] /\ faults' = faults
  BY <1>1 DEF SecretTypeInv
<1>2. CASE disk' = disk /\ faults' = [faults EXCEPT !.litter = @ \/ disk[name] # Nil]
  <2> DEFINE b == faults.litter \/ disk[name] # Nil
  <2>1. b \in BOOLEAN BY Zenon
  <2>2. faults' = [faults EXCEPT !.litter = b] BY <1>2
  <2> HIDE DEF b
  <2>3. /\ faults' \in [deaths : Nat, litter : BOOLEAN, lost : BOOLEAN]
        /\ faults'.lost = faults.lost /\ faults'.litter = b
    BY <2>1, <2>2 DEF SecretTypeInv
  <2>4. faults.litter => b BY DEF b
  <2>5. disk[name] # Nil => b BY DEF b
  <2> QED BY <1>2, <2>3, <2>4, <2>5 DEF SecretTypeInv
<1> QED BY <1>1, <1>2 DEF Removes

\* SaveStarts preserves the invariant.
LEMMA SaveStartsStep ==
  ASSUME SecretInv, NEW w \in Writers, SaveStarts(w)
  PROVE  SecretInv'
<1> USE RecordName DEF SaveStarts, SecretInv, Own, Names
<1> DEFINE new == Temp(w, counter[w])
<1>1. new \in Temps /\ new[1] = w /\ new[2] = counter[w]
  BY FreshName DEF SecretTypeInv
<1> HIDE DEF new
<1>8. /\ disk' \in [Names -> Files \cup {Nil}]
      /\ faults' \in [deaths : Nat, litter : BOOLEAN, lost : BOOLEAN]
      /\ faults'.lost = faults.lost /\ (faults.litter => faults'.litter)
      /\ \/ disk' = [disk EXCEPT ![new] = Nil]
         \/ disk' = disk /\ (disk[new] # Nil => faults'.litter)
  BY RemovesEffect, <1>1 DEF ControlInv, new
<1>2. SecretTypeInv' BY <1>8, <1>1 DEF SecretTypeInv, ControlInv, StageInv, new
<1>3. ControlInv' BY <1>8, <1>1 DEF SecretTypeInv, ControlInv, new
<1>4. StageInv' BY <1>8, <1>1 DEF SecretTypeInv, ControlInv, StageInv, RecordInv, new
<1>5. RecordInv' BY <1>8, <1>1 DEF SecretTypeInv, ControlInv, StageInv, RecordInv, new
<1>6. LitterInv' BY <1>8, <1>1 DEF SecretTypeInv, ControlInv, StageInv, LitterInv, new
<1> QED BY <1>2, <1>3, <1>4, <1>5, <1>6

\* CreateSecretFile preserves the invariant.
LEMMA CreateSecretFileStep ==
  ASSUME SecretInv, NEW w \in Writers, CreateSecretFile(w)
  PROVE  SecretInv'
<1> USE RecordName DEF CreateSecretFile, SecretInv, Own, Names
<1>1. [whole |-> FALSE, synced |-> FALSE] \in Files OBVIOUS
<1>2. SecretTypeInv' BY DEF SecretTypeInv, ControlInv, StageInv
<1>3. ControlInv' BY DEF SecretTypeInv, ControlInv
<1>4. StageInv'
  <2> SUFFICES ASSUME NEW v \in Writers PROVE StageInv!(v)'
    BY DEF StageInv
  <2>1. CASE v = w
    <3>1. saver'[w].pc = "write" /\ saver'[w].tmp = saver[w].tmp BY DEF SecretTypeInv
    <3>2. disk'[saver[w].tmp] = [whole |-> FALSE, synced |-> FALSE]
      BY DEF SecretTypeInv, ControlInv
    <3>3. disk'[saver'[w].tmp] # Nil BY <1>1, <3>1, <3>2
    <3> QED BY <2>1, <3>1, <3>3
  <2>2. CASE v # w
    BY <2>2 DEF SecretTypeInv, ControlInv, StageInv, RecordInv
  <2> QED BY <2>1, <2>2
<1>5. RecordInv' BY DEF SecretTypeInv, ControlInv, StageInv, RecordInv
<1>6. LitterInv' BY DEF SecretTypeInv, ControlInv, StageInv, LitterInv
<1> QED BY <1>2, <1>3, <1>4, <1>5, <1>6

\* WriteAll preserves the invariant.
LEMMA WriteAllStep ==
  ASSUME SecretInv, NEW w \in Writers, WriteAll(w)
  PROVE  SecretInv'
<1> USE RecordName DEF WriteAll, SecretInv, Own, Names
<1> DEFINE file == disk[saver[w].tmp]
            next == [file EXCEPT !.whole = TRUE]
<1>1. file \in Files BY DEF SecretTypeInv, ControlInv, StageInv
<1>8. next \in Files /\ next # Nil /\ next.whole /\ next.synced = file.synced BY <1>1
<1>9. disk' = [disk EXCEPT ![saver[w].tmp] = next] OBVIOUS
<1> HIDE DEF next
<1>2. SecretTypeInv' BY <1>8, <1>9 DEF SecretTypeInv, ControlInv, StageInv
<1>3. ControlInv' BY DEF SecretTypeInv, ControlInv
<1>4. StageInv'
  <2> SUFFICES ASSUME NEW v \in Writers PROVE StageInv!(v)'
    BY DEF StageInv
  <2>1. CASE v = w
    <3>1. saver'[w].pc = "sync" /\ saver'[w].tmp = saver[w].tmp
      BY DEF SecretTypeInv
    <3>2. disk'[saver[w].tmp] = next BY <1>9 DEF SecretTypeInv, ControlInv
    <3> QED BY <1>8, <2>1, <3>1, <3>2
  <2>2. CASE v # w
    BY <2>2, <1>8, <1>9 DEF SecretTypeInv, ControlInv, StageInv, RecordInv
  <2> QED BY <2>1, <2>2
<1>5. RecordInv' BY <1>8, <1>9 DEF SecretTypeInv, ControlInv, StageInv, RecordInv
<1>6. LitterInv' BY <1>8, <1>9 DEF SecretTypeInv, ControlInv, StageInv, LitterInv
<1> QED BY <1>2, <1>3, <1>4, <1>5, <1>6

\* SyncAll preserves the invariant.
LEMMA SyncAllStep ==
  ASSUME SecretInv, NEW w \in Writers, SyncAll(w)
  PROVE  SecretInv'
<1> USE RecordName DEF SyncAll, SecretInv, Own, Names
<1> DEFINE file == disk[saver[w].tmp]
            next == [file EXCEPT !.synced = TRUE]
<1>1. file \in Files BY DEF SecretTypeInv, ControlInv, StageInv
<1>8. next \in Files /\ next # Nil /\ next.synced /\ next.whole = file.whole BY <1>1
<1>9. disk' = [disk EXCEPT ![saver[w].tmp] = next] OBVIOUS
<1> HIDE DEF next
<1>2. SecretTypeInv' BY <1>8, <1>9 DEF SecretTypeInv, ControlInv, StageInv
<1>3. ControlInv' BY DEF SecretTypeInv, ControlInv
<1>4. StageInv'
  <2> SUFFICES ASSUME NEW v \in Writers PROVE StageInv!(v)'
    BY DEF StageInv
  <2>1. CASE v = w
    <3>1. saver'[w].pc = (IF windows THEN "check" ELSE "rename") /\ saver'[w].tmp = saver[w].tmp
      BY DEF SecretTypeInv
    <3>2. disk'[saver[w].tmp] = next BY <1>9 DEF SecretTypeInv, ControlInv
    <3>3. file.whole BY DEF StageInv
    <3>4. Good(disk'[saver'[w].tmp]) BY <1>8, <3>1, <3>2, <3>3
    <3> QED BY <2>1, <3>1, <3>4
  <2>2. CASE v # w
    BY <2>2, <1>8, <1>9 DEF SecretTypeInv, ControlInv, StageInv, RecordInv
  <2> QED BY <2>1, <2>2
<1>5. RecordInv' BY <1>8, <1>9 DEF SecretTypeInv, ControlInv, StageInv, RecordInv
<1>6. LitterInv' BY <1>8, <1>9 DEF SecretTypeInv, ControlInv, StageInv, LitterInv
<1> QED BY <1>2, <1>3, <1>4, <1>5, <1>6

\* SaveFails preserves the invariant.
LEMMA SaveFailsStep ==
  ASSUME SecretInv, NEW w \in Writers, SaveFails(w)
  PROVE  SecretInv'
<1> USE RecordName DEF SaveFails, SecretInv, Own, Names
<1>8. /\ disk' \in [Names -> Files \cup {Nil}]
      /\ faults' \in [deaths : Nat, litter : BOOLEAN, lost : BOOLEAN]
      /\ faults'.lost = faults.lost /\ (faults.litter => faults'.litter)
      /\ \/ disk' = [disk EXCEPT ![saver[w].tmp] = Nil]
         \/ disk' = disk /\ (disk[saver[w].tmp] # Nil => faults'.litter)
  BY RemovesEffect DEF ControlInv
<1>2. SecretTypeInv' BY <1>8 DEF SecretTypeInv, ControlInv, StageInv
<1>3. ControlInv' BY <1>8 DEF SecretTypeInv, ControlInv
<1>4. StageInv' BY <1>8 DEF SecretTypeInv, ControlInv, StageInv, RecordInv
<1>5. RecordInv'
  <2>1. CASE disk' = [disk EXCEPT ![saver[w].tmp] = Nil]
    BY <1>8, <2>1 DEF SecretTypeInv, ControlInv, StageInv, RecordInv
  <2>2. CASE disk' = disk BY <1>8, <2>2 DEF SecretTypeInv, ControlInv, StageInv, RecordInv
  <2> QED BY <1>8, <2>1, <2>2
<1>6. LitterInv' BY <1>8 DEF SecretTypeInv, ControlInv, StageInv, LitterInv
<1> QED BY <1>2, <1>3, <1>4, <1>5, <1>6

\* Installs preserves the invariant.
LEMMA InstallsStep ==
  ASSUME SecretInv, NEW w \in Writers, Installs(w)
  PROVE  SecretInv'
<1> USE RecordName DEF Installs, SecretInv, Own, Names
<1>2. SecretTypeInv' BY DEF SecretTypeInv, ControlInv, StageInv
<1>3. ControlInv' BY DEF SecretTypeInv, ControlInv
<1>4. StageInv' BY DEF SecretTypeInv, ControlInv, StageInv, RecordInv
<1>5. RecordInv' BY DEF SecretTypeInv, ControlInv, StageInv, RecordInv
<1>6. LitterInv' BY DEF SecretTypeInv, ControlInv, StageInv, LitterInv
<1> QED BY <1>2, <1>3, <1>4, <1>5, <1>6

\* Checks preserves the invariant.
LEMMA ChecksStep ==
  ASSUME SecretInv, NEW w \in Writers, Checks(w)
  PROVE  SecretInv'
<1> USE RecordName DEF Checks, SecretInv, Own, Names
<1>2. SecretTypeInv' BY DEF SecretTypeInv, ControlInv, StageInv
<1>3. ControlInv' BY DEF SecretTypeInv, ControlInv
<1>4. StageInv' BY DEF SecretTypeInv, ControlInv, StageInv, RecordInv
<1>5. RecordInv' BY DEF SecretTypeInv, ControlInv, StageInv, RecordInv
<1>6. LitterInv' BY DEF SecretTypeInv, ControlInv, StageInv, LitterInv
<1> QED BY <1>2, <1>3, <1>4, <1>5, <1>6

\* MovesAside preserves the invariant.
LEMMA MovesAsideStep ==
  ASSUME SecretInv, NEW w \in Writers, MovesAside(w)
  PROVE  SecretInv'
<1> USE RecordName DEF MovesAside, SecretInv, Own, Names
<1> DEFINE new == Temp(w, counter[w])
<1>1. new \in Temps /\ new[1] = w /\ new[2] = counter[w]
  BY FreshName DEF SecretTypeInv
<1> HIDE DEF new
<1>2. SecretTypeInv' BY <1>1 DEF SecretTypeInv, ControlInv, StageInv, new
<1>3. ControlInv' BY <1>1 DEF SecretTypeInv, ControlInv, new
<1>4. StageInv' BY <1>1 DEF SecretTypeInv, ControlInv, StageInv, RecordInv, new
<1>5. RecordInv' BY <1>1 DEF SecretTypeInv, ControlInv, StageInv, RecordInv, new
<1>6. LitterInv' BY <1>1 DEF SecretTypeInv, ControlInv, StageInv, LitterInv, new
<1> QED BY <1>2, <1>3, <1>4, <1>5, <1>6

\* InstallsOver preserves the invariant.
LEMMA InstallsOverStep ==
  ASSUME SecretInv, NEW w \in Writers, InstallsOver(w)
  PROVE  SecretInv'
<1> USE RecordName DEF InstallsOver, SecretInv, Own, Names
<1>2. SecretTypeInv' BY DEF SecretTypeInv, ControlInv, StageInv
<1>3. ControlInv' BY DEF SecretTypeInv, ControlInv
<1>4. StageInv'
  <2> SUFFICES ASSUME NEW v \in Writers PROVE StageInv!(v)'
    BY DEF StageInv
  <2>1. CASE v = w
    BY <2>1 DEF SecretTypeInv, ControlInv, StageInv, RecordInv
  <2>2. CASE v # w
    <3>1. saver'[v] = saver[v] BY <2>2 DEF SecretTypeInv
    <3>2. \A x \in Temps : x # saver[w].tmp => disk'[x] = disk[x]
      BY DEF SecretTypeInv, ControlInv
    <3>3. /\ saver[v].tmp \in Temps => disk'[saver[v].tmp] = disk[saver[v].tmp]
          /\ saver[v].backup \in Temps => disk'[saver[v].backup] = disk[saver[v].backup]
      BY <2>2, <3>2 DEF SecretTypeInv, ControlInv
    <3>4. /\ saver[v].pc # "idle" => saver[v].tmp \in Temps
          /\ saver[v].pc \in Moved => saver[v].backup \in Temps
      BY DEF ControlInv
    <3>5. StageInv!(v) BY DEF StageInv
    <3>6. faults' = faults OBVIOUS
    <3> HIDE DEF InstallsOver, SecretInv, Good
    <3> QED BY <3>1, <3>3, <3>4, <3>5, <3>6
  <2> QED BY <2>1, <2>2
<1>5. RecordInv' BY DEF SecretTypeInv, ControlInv, StageInv, RecordInv
<1>6. LitterInv' BY DEF SecretTypeInv, ControlInv, StageInv, LitterInv
<1> QED BY <1>2, <1>3, <1>4, <1>5, <1>6

\* InstallFails preserves the invariant.
LEMMA InstallFailsStep ==
  ASSUME SecretInv, NEW w \in Writers, InstallFails(w)
  PROVE  SecretInv'
<1> USE RecordName DEF InstallFails, SecretInv, Own, Names
<1>2. SecretTypeInv' BY DEF SecretTypeInv, ControlInv, StageInv
<1>3. ControlInv' BY DEF SecretTypeInv, ControlInv
<1>4. StageInv' BY DEF SecretTypeInv, ControlInv, StageInv, RecordInv
<1>5. RecordInv' BY DEF SecretTypeInv, ControlInv, StageInv, RecordInv
<1>6. LitterInv' BY DEF SecretTypeInv, ControlInv, StageInv, LitterInv
<1> QED BY <1>2, <1>3, <1>4, <1>5, <1>6

\* DropsBackup preserves the invariant.
LEMMA DropsBackupStep ==
  ASSUME SecretInv, NEW w \in Writers, DropsBackup(w)
  PROVE  SecretInv'
<1> USE RecordName DEF DropsBackup, SecretInv, Own, Names
<1>8. /\ disk' \in [Names -> Files \cup {Nil}]
      /\ faults' \in [deaths : Nat, litter : BOOLEAN, lost : BOOLEAN]
      /\ faults'.lost = faults.lost /\ (faults.litter => faults'.litter)
      /\ \/ disk' = [disk EXCEPT ![saver[w].backup] = Nil]
         \/ disk' = disk /\ (disk[saver[w].backup] # Nil => faults'.litter)
  BY RemovesEffect DEF ControlInv
<1>2. SecretTypeInv' BY <1>8 DEF SecretTypeInv, ControlInv, StageInv
<1>3. ControlInv' BY <1>8 DEF SecretTypeInv, ControlInv
<1>4. StageInv'
  <2> SUFFICES ASSUME NEW v \in Writers PROVE StageInv!(v)'
    BY DEF StageInv
  <2>1. CASE v = w
    BY <2>1, <1>8 DEF SecretTypeInv, ControlInv, StageInv, RecordInv
  <2>2. CASE v # w
    BY <2>2, <1>8 DEF SecretTypeInv, ControlInv, StageInv, RecordInv
  <2> QED BY <2>1, <2>2
<1>5. RecordInv' BY <1>8 DEF SecretTypeInv, ControlInv, StageInv, RecordInv
<1>6. LitterInv' BY <1>8 DEF SecretTypeInv, ControlInv, StageInv, LitterInv
<1> QED BY <1>2, <1>3, <1>4, <1>5, <1>6

\* Restore preserves the invariant.
LEMMA RestoreStep ==
  ASSUME SecretInv, NEW w \in Writers, Restore(w)
  PROVE  SecretInv'
<1> USE RecordName DEF Restore, SecretInv, Own, Names
<1>1. CASE disk' = Rename(saver[w].backup, Record) /\ faults' = faults
  <2>1. SecretTypeInv' BY <1>1 DEF SecretTypeInv, ControlInv
  <2>2. ControlInv' BY <1>1 DEF SecretTypeInv, ControlInv
  <2>3. StageInv'
    <3> SUFFICES ASSUME NEW v \in Writers PROVE StageInv!(v)'
      BY DEF StageInv
    <3>1. CASE v = w BY <1>1, <3>1 DEF SecretTypeInv, ControlInv, StageInv
    <3>2. CASE v # w
      <4>1. saver'[v] = saver[v] BY <3>2 DEF SecretTypeInv
      <4>2. \A x \in Temps : x # saver[w].backup => disk'[x] = disk[x]
        BY <1>1 DEF SecretTypeInv, ControlInv
      <4> QED BY <1>1, <3>2, <4>1, <4>2 DEF SecretTypeInv, ControlInv, StageInv
    <3> QED BY <3>1, <3>2
  <2>4. RecordInv' BY <1>1 DEF SecretTypeInv, ControlInv, StageInv, RecordInv
  <2>5. LitterInv' BY <1>1 DEF SecretTypeInv, ControlInv, StageInv, LitterInv
  <2> QED BY <2>1, <2>2, <2>3, <2>4, <2>5
<1>2. CASE disk' = disk /\ faults' = [faults EXCEPT !.lost = TRUE, !.litter = TRUE]
  <2>1. /\ faults' \in [deaths : Nat, litter : BOOLEAN, lost : BOOLEAN]
        /\ faults'.lost /\ faults'.litter
    BY <1>2 DEF SecretTypeInv
  <2>2. SecretTypeInv' BY <1>2, <2>1 DEF SecretTypeInv
  <2>3. ControlInv' BY <1>2 DEF SecretTypeInv, ControlInv
  <2>4. StageInv' BY <1>2, <2>1 DEF SecretTypeInv, ControlInv, StageInv
  <2>5. RecordInv' BY <1>2, <2>1 DEF SecretTypeInv, ControlInv, RecordInv
  <2>6. LitterInv' BY <1>2, <2>1 DEF LitterInv
  <2> QED BY <2>2, <2>3, <2>4, <2>5, <2>6
<1> QED BY <1>1, <1>2

\* Discards preserves the invariant.
LEMMA DiscardsStep ==
  ASSUME SecretInv, NEW w \in Writers, Discards(w)
  PROVE  SecretInv'
<1> USE RecordName DEF Discards, SecretInv, Own, Names
<1>8. /\ disk' \in [Names -> Files \cup {Nil}]
      /\ faults' \in [deaths : Nat, litter : BOOLEAN, lost : BOOLEAN]
      /\ faults'.lost = faults.lost /\ (faults.litter => faults'.litter)
      /\ \/ disk' = [disk EXCEPT ![saver[w].tmp] = Nil]
         \/ disk' = disk /\ (disk[saver[w].tmp] # Nil => faults'.litter)
  BY RemovesEffect DEF ControlInv
<1>2. SecretTypeInv' BY <1>8 DEF SecretTypeInv, ControlInv, StageInv
<1>3. ControlInv' BY <1>8 DEF SecretTypeInv, ControlInv
<1>4. StageInv' BY <1>8 DEF SecretTypeInv, ControlInv, StageInv, RecordInv
<1>5. RecordInv' BY <1>8 DEF SecretTypeInv, ControlInv, StageInv, RecordInv
<1>6. LitterInv' BY <1>8 DEF SecretTypeInv, ControlInv, StageInv, LitterInv
<1> QED BY <1>2, <1>3, <1>4, <1>5, <1>6

\* ProcessDies preserves the invariant.
LEMMA ProcessDiesStep ==
  ASSUME SecretInv, NEW w \in Writers, ProcessDies(w)
  PROVE  SecretInv'
<1> USE RecordName DEF ProcessDies, Died, SecretInv, Own, Names
<1>2. SecretTypeInv' BY DEF SecretTypeInv, ControlInv, StageInv
<1>3. ControlInv' BY DEF SecretTypeInv, ControlInv
<1>4. StageInv' BY DEF SecretTypeInv, ControlInv, StageInv, RecordInv
<1>5. RecordInv' BY DEF SecretTypeInv, ControlInv, StageInv, RecordInv
<1>6. LitterInv' BY DEF SecretTypeInv, ControlInv, StageInv, LitterInv
<1> QED BY <1>2, <1>3, <1>4, <1>5, <1>6

\* A loss of power preserves the invariant: what it tears is never a record.
LEMMA PowerLossStep == ASSUME SecretInv, PowerLoss PROVE SecretInv'
<1> USE RecordName DEF PowerLoss, Died, SecretInv, Own, Names
<1>1. faults' \in [deaths : Nat, litter : BOOLEAN, lost : BOOLEAN]
  BY DEF SecretTypeInv
<1>2. \A n \in Names : /\ disk'[n] \in Files \cup {Nil}
                       /\ disk'[n] = Nil <=> disk[n] = Nil
                       /\ Good(disk[n]) => Good(disk'[n])
  <2> SUFFICES ASSUME NEW n \in Names
               PROVE  /\ disk'[n] \in Files \cup {Nil}
                      /\ disk'[n] = Nil <=> disk[n] = Nil
                      /\ Good(disk[n]) => Good(disk'[n])
    OBVIOUS
  <2>1. CASE disk[n] = Nil BY <2>1 DEF SecretTypeInv
  <2>2. CASE disk[n] # Nil
    <3>1. disk[n] \in Files BY <2>2 DEF SecretTypeInv
    <3>2. [disk[n] EXCEPT !.whole = FALSE] \in Files BY <3>1
    <3> QED BY <2>2, <3>1, <3>2 DEF SecretTypeInv
  <2> QED BY <2>1, <2>2
<1>3. SecretTypeInv' BY <1>1, <1>2 DEF SecretTypeInv
<1>4. ControlInv' BY DEF ControlInv
<1>5. StageInv' BY DEF StageInv
<1>6. RecordInv' BY <1>1, <1>2 DEF SecretTypeInv, RecordInv
<1>7. LitterInv' BY <1>1 DEF LitterInv
<1> QED BY <1>3, <1>4, <1>5, <1>6, <1>7

-----------------------------------------------------------------------------
\* The invariant holds initially.
LEMMA SecretInitInv == SecretInit => SecretInv
<1> SUFFICES ASSUME SecretInit PROVE SecretInv OBVIOUS
<1> USE RecordName DEF SecretInit, Names
<1>1. SecretTypeInv BY DEF SecretTypeInv
<1>2. ControlInv BY DEF ControlInv
<1>3. StageInv BY DEF StageInv
<1>4. RecordInv BY DEF RecordInv
<1>5. LitterInv BY DEF LitterInv
<1> QED BY <1>1, <1>2, <1>3, <1>4, <1>5 DEF SecretInv

\* Every step of any process, every death and every loss of power preserves it.
LEMMA SecretNextInv == SecretInv /\ [SecretNext]_secretVars => SecretInv'
<1> SUFFICES ASSUME SecretInv, [SecretNext]_secretVars PROVE SecretInv' OBVIOUS
<1>1. CASE UNCHANGED secretVars
  BY <1>1 DEF secretVars, SecretInv, SecretTypeInv, ControlInv, StageInv, RecordInv, LitterInv, Own
<1>2. ASSUME NEW w \in Writers, SecretStep(w) PROVE SecretInv'
  BY <1>2, SaveStartsStep, CreateSecretFileStep, WriteAllStep, SyncAllStep, SaveFailsStep,
     InstallsStep, ChecksStep, MovesAsideStep, InstallsOverStep, InstallFailsStep,
     DropsBackupStep, RestoreStep, DiscardsStep
     DEF SecretStep
<1> QED BY <1>1, <1>2, ProcessDiesStep, PowerLossStep DEF SecretNext

\* The invariant holds whatever the writers do and whenever they die.
LEMMA SecretInvariance == SecretSpec => []SecretInv
BY SecretInitInv, SecretNextInv, PTL DEF SecretSpec

\* For every set of processes saving the record, both builds and any number of
\* deaths and losses of power, what the record's name holds is whole and on the
\* disk; it is missing only inside the Windows replacement or after a fault
\* there; and no temporary file outlives its writer without a fault.
THEOREM RecordIsKept == SecretSpec => []RecordKept
<1>1. SecretInv => RecordKept
  <2> SUFFICES ASSUME SecretInv PROVE RecordKept OBVIOUS
  <2>1. disk[Record] # Nil => load_from_path # Nil /\ disk[Record].synced
    BY DEF SecretInv, RecordInv, load_from_path
  <2>2. load_from_path = Nil => disk[Record] = Nil BY <2>1
  <2> QED BY <2>1, <2>2 DEF SecretInv, RecordInv, StageInv, LitterInv, RecordKept
<1> QED BY <1>1, SecretInvariance, PTL

-----------------------------------------------------------------------------
\* The layers of one connection: DeviceConnect.

EndOps == {"create", "spawn", "bind", "probe"}
Args == {"control", "data", "rsd", "", "mux", "plain", "tls", "pairing", "checkin"}
Steps == [op : {"dial", "ask", "upgrade", "strip"} \cup EndOps, arg : Args]
Tunnels(p) == p.purpose \in {"tunnel", "direct", "remote"}

\* s asks under TLS until the next dial, or to its end.
TlsRun(p, s) ==
    /\ \A j \in 1 .. Len(s) : (\A k \in 1 .. j : s[k].op # "dial") => s[j] = Ask("tls")
    /\ (\A k \in 1 .. Len(s) : s[k].op # "dial") => LastLayer(p) = "tls"

EndRun(s) == \A j \in 1 .. Len(s) : s[j].op \in EndOps

After(s) == IF Len(s) = 0 THEN "end" ELSE s[1].op

\* What may follow a step, as far as the layers go.
FollowedBy(p, a, s) ==
    /\ a.op = "ask" /\ After(s) = "upgrade" => a.arg = "plain"
    /\ a.op = "ask" /\ After(s) \in {"end", "spawn", "create"} =>
         a.arg # "plain" /\ (a.arg = "tls" => LastLayer(p) = "tls")
    /\ a.op = "upgrade" => TlsRun(p, s)
    /\ a.op \in {"spawn", "create"} => EndRun(s)
    /\ a.op = "spawn" => Tunnels(p)
    /\ a.op = "bind" => Tunnels(p) /\ p.userspace

Orderly(p, s) == \A i \in 1 .. Len(s) : FollowedBy(p, s[i], SubSeq(s, i + 1, Len(s)))

\* A step and those behind it.
Pre(a, s) == <<a>> \o s

LEMMA PreFacts ==
    ASSUME NEW a \in Steps, NEW s \in Seq(Steps)
    PROVE  /\ Pre(a, s) \in Seq(Steps) /\ Len(Pre(a, s)) = Len(s) + 1
           /\ Pre(a, s)[1] = a /\ \A i \in 1 .. Len(s) : Pre(a, s)[i + 1] = s[i]
           /\ Head(Pre(a, s)) = a /\ Tail(Pre(a, s)) = s
           /\ Range(Pre(a, s)) = {a} \cup Range(s)
<1> DEFINE q == Pre(a, s)
<1>1. q \in Seq(Steps) /\ Len(q) = Len(s) + 1
  BY DEF Pre
<1>2. q[1] = a /\ \A i \in 1 .. Len(s) : q[i + 1] = s[i]
  BY DEF Pre
<1>3. Head(q) = a
  BY <1>1, <1>2
<1>4. Tail(q) = s
  <2>1. Tail(q) \in Seq(Steps) /\ Len(Tail(q)) = Len(s) /\ q # <<>>
    BY <1>1
  <2>2. \A i \in 1 .. Len(s) : Tail(q)[i] = s[i]
    BY <1>1, <1>2
  <2> QED
    BY <2>1, <2>2, SeqEqual
<1>5. Range(q) = {a} \cup Range(s)
  <2>1. \A x \in Range(q) : x \in {a} \cup Range(s)
    <3> TAKE x \in Range(q)
    <3>1. PICK i \in 1 .. Len(q) : x = q[i]
      BY <1>1 DEF Range
    <3>2. CASE i = 1
      BY <3>1, <3>2, <1>2
    <3>3. CASE i # 1
      <4>1. i - 1 \in 1 .. Len(s) /\ q[(i - 1) + 1] = s[i - 1]
        BY <3>3, <1>1, <1>2
      <4> QED
        BY <4>1, <3>1 DEF Range
    <3> QED
      BY <3>2, <3>3
  <2>2. \A x \in Range(s) : x \in Range(q)
    <3> TAKE x \in Range(s)
    <3>1. PICK i \in 1 .. Len(s) : x = s[i]
      BY DEF Range
    <3>2. i + 1 \in 1 .. Len(q) /\ q[i + 1] = x
      BY <3>1, <1>1, <1>2
    <3> QED
      BY <3>2, <1>1 DEF Range
  <2>3. a \in Range(q)
    BY <1>1, <1>2 DEF Range
  <2> QED
    BY <2>1, <2>2, <2>3
<1> QED
  BY <1>1, <1>2, <1>3, <1>4, <1>5

\* A sequence is its head in front of its tail.
LEMMA PreHead ==
    ASSUME NEW s \in Seq(Steps), s # <<>>
    PROVE  /\ Head(s) \in Steps /\ Tail(s) \in Seq(Steps) /\ Len(Tail(s)) = Len(s) - 1
           /\ Len(s) > 0 /\ s[1] = Head(s) /\ s = Pre(Head(s), Tail(s))
<1>1. /\ Head(s) \in Steps /\ Tail(s) \in Seq(Steps) /\ Len(Tail(s)) = Len(s) - 1
      /\ Len(s) > 0 /\ s[1] = Head(s) /\ \A i \in 1 .. Len(s) - 1 : Tail(s)[i] = s[i + 1]
  OBVIOUS
<1> DEFINE q == Pre(Head(s), Tail(s))
<1>2. q \in Seq(Steps) /\ Len(q) = Len(s) /\ q[1] = Head(s)
      /\ \A i \in 1 .. Len(s) - 1 : q[i + 1] = Tail(s)[i]
  <2> DEFINE h == Head(s)
             t == Tail(s)
  <2>1. h \in Steps /\ t \in Seq(Steps) /\ Len(t) = Len(s) - 1 /\ Len(s) \in Nat
    BY <1>1
  <2> HIDE DEF h, t
  <2>2. /\ Pre(h, t) \in Seq(Steps) /\ Len(Pre(h, t)) = Len(t) + 1 /\ Pre(h, t)[1] = h
        /\ \A i \in 1 .. Len(t) : Pre(h, t)[i + 1] = t[i]
    BY <2>1, PreFacts
  <2>3. Len(t) + 1 = Len(s)
    BY <2>1
  <2> QED
    BY <2>1, <2>2, <2>3 DEF h, t
<1>3. \A i \in 1 .. Len(s) : q[i] = s[i]
  <2> TAKE i \in 1 .. Len(s)
  <2>1. CASE i = 1
    BY <2>1, <1>1, <1>2
  <2>2. CASE i # 1
    <3>1. i - 1 \in 1 .. Len(s) - 1 /\ (i - 1) + 1 = i
      BY <2>2, <1>1
    <3>2. q[(i - 1) + 1] = Tail(s)[i - 1] /\ Tail(s)[i - 1] = s[(i - 1) + 1]
      BY <3>1, <1>1, <1>2
    <3> QED
      BY <3>1, <3>2
  <2> QED
    BY <2>1, <2>2
<1>4. s = q
  <2> HIDE DEF q
  <2> QED
    BY <1>2, <1>3, SeqEqual
<1> QED
  BY <1>1, <1>4

LEMMA AfterPre ==
    ASSUME NEW a \in Steps, NEW s \in Seq(Steps)
    PROVE  After(Pre(a, s)) = a.op
<1>1. Len(Pre(a, s)) = Len(s) + 1 /\ Pre(a, s)[1] = a /\ Len(s) \in Nat
  BY PreFacts
<1>2. Len(Pre(a, s)) # 0
  BY <1>1
<1> QED
  BY <1>1, <1>2 DEF After

LEMMA EndRunPre ==
    ASSUME NEW a \in Steps, NEW s \in Seq(Steps)
    PROVE  EndRun(Pre(a, s)) <=> a.op \in EndOps /\ EndRun(s)
<1> DEFINE q == Pre(a, s)
<1>1. Len(q) = Len(s) + 1 /\ q[1] = a /\ \A i \in 1 .. Len(s) : q[i + 1] = s[i]
  BY PreFacts
<1> HIDE DEF q
<1>2. ASSUME EndRun(q) PROVE a.op \in EndOps /\ EndRun(s)
  <2>1. \A j \in 1 .. Len(q) : q[j].op \in EndOps
    BY <1>2 DEF EndRun
  <2>2. 1 \in 1 .. Len(q) /\ \A j \in 1 .. Len(s) : j + 1 \in 1 .. Len(q)
    BY <1>1
  <2> QED
    BY <2>1, <2>2, <1>1 DEF EndRun
<1>3. ASSUME a.op \in EndOps, EndRun(s) PROVE EndRun(q)
  <2> SUFFICES ASSUME NEW j \in 1 .. Len(q) PROVE q[j].op \in EndOps
    BY DEF EndRun
  <2>1. CASE j = 1
    BY <2>1, <1>1, <1>3
  <2>2. CASE j # 1
    <3>1. j - 1 \in 1 .. Len(s) /\ (j - 1) + 1 = j
      BY <2>2, <1>1
    <3>2. q[(j - 1) + 1] = s[j - 1] /\ s[j - 1].op \in EndOps
      BY <3>1, <1>1, <1>3 DEF EndRun
    <3> QED
      BY <3>1, <3>2
  <2> QED
    BY <2>1, <2>2
<1> QED
  BY <1>2, <1>3 DEF q

LEMMA TlsRunPre ==
    ASSUME NEW p, NEW a \in Steps, NEW s \in Seq(Steps)
    PROVE  TlsRun(p, Pre(a, s)) <=> a.op = "dial" \/ (a = Ask("tls") /\ TlsRun(p, s))
<1> DEFINE q == Pre(a, s)
<1>1. Len(q) = Len(s) + 1 /\ q[1] = a /\ \A i \in 1 .. Len(s) : q[i + 1] = s[i]
  BY PreFacts
<1> HIDE DEF q
<1>2. 1 \in 1 .. Len(q) /\ \A j \in 1 .. Len(s) : j + 1 \in 1 .. Len(q)
  BY <1>1
<1>0. ASSUME NEW j \in 1 .. Len(q), j # 1
      PROVE  j - 1 \in 1 .. Len(s) /\ q[j] = s[j - 1]
  <2>1. j - 1 \in 1 .. Len(s) /\ (j - 1) + 1 = j
    BY <1>0, <1>1
  <2>2. q[(j - 1) + 1] = s[j - 1]
    BY <2>1, <1>1
  <2> QED
    BY <2>1, <2>2
<1>3. CASE a.op = "dial"
  <2>1. \A j \in 1 .. Len(q) : 1 \in 1 .. j /\ q[1].op = "dial"
    BY <1>1, <1>3
  <2> QED
    BY <2>1, <1>2, <1>3 DEF TlsRun, q
<1>4. CASE a.op # "dial"
  <2>1. \A j \in 1 .. Len(s) :
          (\A k \in 1 .. j : s[k].op # "dial") <=> (\A k \in 1 .. j + 1 : q[k].op # "dial")
    <3> SUFFICES ASSUME NEW j \in 1 .. Len(s)
                 PROVE (\A k \in 1 .. j : s[k].op # "dial") <=> (\A k \in 1 .. j + 1 : q[k].op # "dial")
      OBVIOUS
    <3>1. ASSUME \A k \in 1 .. j : s[k].op # "dial", NEW k \in 1 .. j + 1 PROVE q[k].op # "dial"
      BY <3>1, <1>0, <1>1, <1>4
    <3>2. ASSUME \A k \in 1 .. j + 1 : q[k].op # "dial", NEW k \in 1 .. j PROVE s[k].op # "dial"
      BY <3>2, <1>1
    <3> QED
      BY <3>1, <3>2
  <2>2. (\A k \in 1 .. Len(s) : s[k].op # "dial") <=> (\A k \in 1 .. Len(q) : q[k].op # "dial")
    <3>1. ASSUME \A k \in 1 .. Len(s) : s[k].op # "dial", NEW k \in 1 .. Len(q) PROVE q[k].op # "dial"
      BY <3>1, <1>0, <1>1, <1>4
    <3>2. ASSUME \A k \in 1 .. Len(q) : q[k].op # "dial", NEW k \in 1 .. Len(s) PROVE s[k].op # "dial"
      BY <3>2, <1>1
    <3> QED
      BY <3>1, <3>2
  <2>3. ASSUME TlsRun(p, q) PROVE a = Ask("tls") /\ TlsRun(p, s)
    <3>1. \A j \in 1 .. Len(q) : (\A k \in 1 .. j : q[k].op # "dial") => q[j] = Ask("tls")
      BY <2>3 DEF TlsRun
    <3>2. a = Ask("tls")
      BY <3>1, <1>1, <1>2, <1>4
    <3>3. ASSUME NEW j \in 1 .. Len(s), \A k \in 1 .. j : s[k].op # "dial" PROVE s[j] = Ask("tls")
      <4>1. \A k \in 1 .. j + 1 : q[k].op # "dial"
        BY <3>3, <2>1
      <4> QED
        BY <4>1, <3>1, <1>1, <1>2
    <3>4. (\A k \in 1 .. Len(s) : s[k].op # "dial") => LastLayer(p) = "tls"
      BY <2>2, <2>3 DEF TlsRun
    <3> QED
      BY <3>2, <3>3, <3>4 DEF TlsRun
  <2>4. ASSUME a = Ask("tls"), TlsRun(p, s) PROVE TlsRun(p, q)
    <3>1. ASSUME NEW j \in 1 .. Len(q), \A k \in 1 .. j : q[k].op # "dial" PROVE q[j] = Ask("tls")
      <4>1. CASE j = 1
        BY <4>1, <1>1, <2>4
      <4>2. CASE j # 1
        <5>1. j - 1 \in 1 .. Len(s) /\ q[j] = s[j - 1] /\ (j - 1) + 1 = j
          BY <4>2, <1>0
        <5>2. \A k \in 1 .. j - 1 : s[k].op # "dial"
          BY <5>1, <3>1, <2>1
        <5> QED
          BY <5>1, <5>2, <2>4 DEF TlsRun
      <4> QED
        BY <4>1, <4>2
    <3>2. (\A k \in 1 .. Len(q) : q[k].op # "dial") => LastLayer(p) = "tls"
      BY <2>2, <2>4 DEF TlsRun
    <3> QED
      BY <3>1, <3>2 DEF TlsRun
  <2> QED
    BY <2>3, <2>4, <1>4 DEF q
<1> QED
  BY <1>3, <1>4

\* What follows the first step, and then each later one, is in order.
LEMMA OrderlyPre ==
    ASSUME NEW p, NEW a \in Steps, NEW s \in Seq(Steps)
    PROVE  Orderly(p, Pre(a, s)) <=> FollowedBy(p, a, s) /\ Orderly(p, s)
<1> DEFINE q == Pre(a, s)
<1>1. q \in Seq(Steps) /\ Len(q) = Len(s) + 1 /\ q[1] = a /\ \A i \in 1 .. Len(s) : q[i + 1] = s[i]
  BY PreFacts
<1> HIDE DEF q
<1>2. \A i \in 1 .. Len(s) : SubSeq(q, (i + 1) + 1, Len(q)) = SubSeq(s, i + 1, Len(s))
  <2> TAKE i \in 1 .. Len(s)
  <2> DEFINE x == SubSeq(q, (i + 1) + 1, Len(q))
             y == SubSeq(s, i + 1, Len(s))
  <2>1. x \in Seq(Steps) /\ y \in Seq(Steps) /\ Len(x) = Len(s) - i /\ Len(y) = Len(s) - i
    BY <1>1
  <2>2. \A j \in 1 .. Len(s) - i : x[j] = q[(i + j) + 1] /\ y[j] = s[i + j]
    BY <1>1
  <2>3. \A j \in 1 .. Len(s) - i : x[j] = y[j]
    <3> TAKE j \in 1 .. Len(s) - i
    <3>1. i + j \in 1 .. Len(s)
      OBVIOUS
    <3> QED
      BY <3>1, <2>2, <1>1
  <2> HIDE DEF x, y
  <2>4. x = y
    BY <2>1, <2>3, SeqEqual
  <2> QED
    BY <2>4 DEF x, y
<1>3. SubSeq(q, 1 + 1, Len(q)) = s
  <2> DEFINE x == SubSeq(q, 1 + 1, Len(q))
  <2>1. x \in Seq(Steps) /\ Len(x) = Len(s) /\ \A j \in 1 .. Len(s) : x[j] = q[j + 1]
    BY <1>1
  <2> HIDE DEF x
  <2>2. x = s
    BY <2>1, <1>1, SeqEqual
  <2> QED
    BY <2>2 DEF x
<1>4. ASSUME Orderly(p, q) PROVE FollowedBy(p, a, s) /\ Orderly(p, s)
  <2>1. \A i \in 1 .. Len(q) : FollowedBy(p, q[i], SubSeq(q, i + 1, Len(q)))
    BY <1>4 DEF Orderly
  <2>2. FollowedBy(p, q[1], SubSeq(q, 1 + 1, Len(q)))
    BY <2>1, <1>1
  <2>3. ASSUME NEW i \in 1 .. Len(s) PROVE FollowedBy(p, s[i], SubSeq(s, i + 1, Len(s)))
    <3>1. FollowedBy(p, q[i + 1], SubSeq(q, (i + 1) + 1, Len(q)))
      BY <2>1, <1>1
    <3> QED
      BY <3>1, <1>1, <1>2
  <2> QED
    BY <2>2, <2>3, <1>1, <1>3 DEF Orderly
<1>5. ASSUME FollowedBy(p, a, s), Orderly(p, s) PROVE Orderly(p, q)
  <2> SUFFICES ASSUME NEW i \in 1 .. Len(q) PROVE FollowedBy(p, q[i], SubSeq(q, i + 1, Len(q)))
    BY DEF Orderly
  <2>1. CASE i = 1
    BY <2>1, <1>1, <1>3, <1>5
  <2>2. CASE i # 1
    <3>1. PICK j \in 1 .. Len(s) : i = j + 1
      <4>1. i - 1 \in 1 .. Len(s) /\ i = (i - 1) + 1
        BY <2>2, <1>1
      <4> QED
        BY <4>1
    <3>2. FollowedBy(p, s[j], SubSeq(s, j + 1, Len(s)))
      BY <1>5 DEF Orderly
    <3> QED
      BY <3>1, <3>2, <1>1, <1>2
  <2> QED
    BY <2>1, <2>2
<1> QED
  BY <1>4, <1>5 DEF q

\* The end of a sequence of steps.
LEMMA AtTheEnd ==
    ASSUME NEW p
    PROVE  /\ <<>> \in Seq(Steps) /\ After(<<>>) = "end" /\ EndRun(<<>>) /\ Orderly(p, <<>>)
           /\ TlsRun(p, <<>>) <=> LastLayer(p) = "tls"
<1>1. <<>> \in Seq(Steps) /\ Len(<<>>) = 0 /\ 1 .. Len(<<>>) = {}
  OBVIOUS
<1>2. After(<<>>) = "end"
  BY <1>1 DEF After
<1>3. EndRun(<<>>)
  BY <1>1 DEF EndRun
<1>4. Orderly(p, <<>>)
  BY <1>1 DEF Orderly
<1>5. TlsRun(p, <<>>) <=> LastLayer(p) = "tls"
  BY <1>1 DEF TlsRun
<1> QED
  BY <1>1, <1>2, <1>3, <1>4, <1>5

\* Concatenation, by its laws.
Cat(a, b) == a \o b

LEMMA CatType == \A a, b \in Seq(Steps) : Cat(a, b) \in Seq(Steps)
BY DEF Cat

LEMMA CatAssoc == \A a, b, c \in Seq(Steps) : Cat(Cat(a, b), c) = Cat(a, Cat(b, c))
<1> TAKE a, b, c \in Seq(Steps)
<1>1. (a \o b) \o c = a \o (b \o c)
  BY ConcatAssociative
<1> QED
  BY <1>1 DEF Cat

LEMMA CatEmpty == \A a \in Seq(Steps) : Cat(<<>>, a) = a /\ Cat(a, <<>>) = a
<1> TAKE a \in Seq(Steps)
<1>1. <<>> \o a = a /\ a \o <<>> = a
  BY ConcatEmptySeq
<1> QED
  BY <1>1 DEF Cat

LEMMA CatPre ==
    ASSUME NEW a \in Steps, NEW t \in Seq(Steps), NEW s \in Seq(Steps)
    PROVE  Cat(Pre(a, t), s) = Pre(a, Cat(t, s))
<1>1. <<a>> \in Seq(Steps)
  OBVIOUS
<1>2. (<<a>> \o t) \o s = <<a>> \o (t \o s)
  BY <1>1, ConcatAssociative
<1> QED
  BY <1>2 DEF Pre, Cat

LEMMA PreOf ==
    ASSUME NEW a \in Steps, NEW s \in Seq(Steps), NEW t \in Seq(Steps), Len(t) = Len(s) + 1,
           t[1] = a, \A i \in 1 .. Len(s) : t[i + 1] = s[i]
    PROVE  t = Pre(a, s)
<1>1. t # <<>>
  OBVIOUS
<1>2. Tail(t) \in Seq(Steps) /\ Len(Tail(t)) = Len(s) /\ \A i \in 1 .. Len(s) : Tail(t)[i] = t[i + 1]
  BY <1>1
<1>3. Tail(t) = s
  <2> DEFINE r == Tail(t)
  <2>1. r \in Seq(Steps) /\ Len(r) = Len(s) /\ \A i \in 1 .. Len(s) : r[i] = s[i]
    BY <1>2
  <2> HIDE DEF r
  <2>2. r = s
    BY <2>1, SeqEqual
  <2> QED
    BY <2>2 DEF r
<1> QED
  BY <1>1, <1>3, PreHead

\* Tuples of steps as they occur in the procedures, in front of other steps.
LEMMA Tuple1 ==
    ASSUME NEW a \in Steps, NEW s \in Seq(Steps)
    PROVE  <<a>> \in Seq(Steps) /\ Cat(<<a>>, s) = Pre(a, s) /\ <<a>> = Pre(a, <<>>)
<1>1. <<a>> \in Seq(Steps)
  OBVIOUS
<1>2. <<a>> \o <<>> = <<a>>
  BY <1>1, ConcatEmptySeq
<1> QED
  BY <1>1, <1>2 DEF Pre, Cat

LEMMA Tuple2 ==
    ASSUME NEW a \in Steps, NEW b \in Steps, NEW s \in Seq(Steps)
    PROVE  /\ <<a, b>> \in Seq(Steps) /\ Cat(<<a, b>>, s) = Pre(a, Pre(b, s))
           /\ <<a, b>> = Pre(a, <<b>>)
<1>1. <<b>> \in Seq(Steps) /\ Len(<<b>>) = 1 /\ <<b>>[1] = b
  OBVIOUS
<1>2. <<a, b>> \in Seq(Steps) /\ Len(<<a, b>>) = 2 /\ <<a, b>>[1] = a /\ <<a, b>>[2] = b
  OBVIOUS
<1>3. <<a, b>> = Pre(a, <<b>>)
  <2> DEFINE t == <<a, b>>
             r == <<b>>
  <2>1. /\ t \in Seq(Steps) /\ r \in Seq(Steps) /\ Len(t) = Len(r) + 1 /\ t[1] = a
        /\ \A i \in 1 .. Len(r) : t[i + 1] = r[i]
    BY <1>1, <1>2
  <2> HIDE DEF t, r
  <2>2. t = Pre(a, r)
    BY <2>1, PreOf
  <2> QED
    BY <2>2 DEF t, r
<1>4. Cat(Pre(a, <<b>>), s) = Pre(a, Cat(<<b>>, s))
  <2> DEFINE r == <<b>>
  <2>1. r \in Seq(Steps)
    BY <1>1
  <2> HIDE DEF r
  <2>2. Cat(Pre(a, r), s) = Pre(a, Cat(r, s))
    BY <2>1, CatPre
  <2> QED
    BY <2>2 DEF r
<1>5. Cat(<<b>>, s) = Pre(b, s)
  BY Tuple1
<1> QED
  BY <1>2, <1>3, <1>4, <1>5

LEMMA Tuple4 ==
    ASSUME NEW a \in Steps, NEW b \in Steps, NEW c \in Steps, NEW d \in Steps, NEW s \in Seq(Steps)
    PROVE  /\ <<a, b, c, d>> \in Seq(Steps)
           /\ Cat(<<a, b, c, d>>, s) = Pre(a, Pre(b, Pre(c, Pre(d, s))))
<1> DEFINE x == Pre(c, Pre(d, s))
           ab == <<a, b>>
           cd == <<c, d>>
<1>1. cd \in Seq(Steps) /\ Cat(cd, s) = x
  BY Tuple2
<1>2. Pre(d, s) \in Seq(Steps)
  BY PreFacts
<1>3. x \in Seq(Steps)
  BY <1>2, PreFacts
<1> HIDE DEF x
<1>4. ab \in Seq(Steps) /\ Cat(ab, x) = Pre(a, Pre(b, x))
  BY <1>3, Tuple2, ZenonT(30)
<1>5. <<a, b, c, d>> = Cat(ab, cd) /\ <<a, b, c, d>> \in Seq(Steps)
  BY DEF Cat
<1> HIDE DEF ab, cd
<1>6. Cat(Cat(ab, cd), s) = Cat(ab, Cat(cd, s))
  BY <1>1, <1>4, CatAssoc
<1> QED
  BY <1>1, <1>4, <1>5, <1>6 DEF x

\* Steps in order that do not start with an upgrade.
Fit(p, s) == s \in Seq(Steps) /\ Orderly(p, s) /\ After(s) # "upgrade"

LEMMA StepTypes ==
    /\ \A l \in Args : Ask(l) \in Steps /\ Dial(l) \in Steps
    /\ \A o \in {"upgrade", "strip"} \cup EndOps : Step(o) \in Steps
BY DEF Ask, Dial, Step, Steps, Args, EndOps

LEMMA OrderlyWith ==
    ASSUME NEW p, NEW a \in Steps, NEW s \in Seq(Steps), Orderly(p, s), FollowedBy(p, a, s)
    PROVE  /\ Pre(a, s) \in Seq(Steps) /\ Orderly(p, Pre(a, s)) /\ After(Pre(a, s)) = a.op
           /\ Range(Pre(a, s)) = {a} \cup Range(s)
<1>1. Pre(a, s) \in Seq(Steps) /\ Range(Pre(a, s)) = {a} \cup Range(s)
  BY PreFacts
<1>2. Orderly(p, Pre(a, s))
  BY OrderlyPre
<1>3. After(Pre(a, s)) = a.op
  BY AfterPre
<1> QED
  BY <1>1, <1>2, <1>3

LEMMA FitAsk ==
    ASSUME NEW p, NEW s, Fit(p, s), NEW l \in Args \ {"plain"},
           l = "tls" /\ After(s) \in {"end", "spawn", "create"} => LastLayer(p) = "tls"
    PROVE  /\ Fit(p, Pre(Ask(l), s)) /\ After(Pre(Ask(l), s)) = "ask"
           /\ Range(Pre(Ask(l), s)) = {Ask(l)} \cup Range(s)
<1>1. Ask(l) \in Steps /\ Ask(l).op = "ask" /\ Ask(l).arg = l
  BY StepTypes DEF Ask
<1>2. s \in Seq(Steps) /\ Orderly(p, s) /\ After(s) # "upgrade"
  BY DEF Fit
<1>3. FollowedBy(p, Ask(l), s)
  BY <1>1, <1>2 DEF FollowedBy
<1> QED
  BY <1>1, <1>2, <1>3, OrderlyWith DEF Fit

LEMMA FitQuiet ==
    ASSUME NEW p, NEW s, Fit(p, s), NEW a \in Steps, a.op \in {"dial", "strip", "probe"}
    PROVE  /\ Fit(p, Pre(a, s)) /\ After(Pre(a, s)) = a.op
           /\ Range(Pre(a, s)) = {a} \cup Range(s)
<1>2. s \in Seq(Steps) /\ Orderly(p, s) /\ After(s) # "upgrade"
  BY DEF Fit
<1>3. FollowedBy(p, a, s)
  BY <1>2 DEF FollowedBy
<1> QED
  BY <1>2, <1>3, OrderlyWith DEF Fit

LEMMA MuxShape ==
    ASSUME NEW q \in Plans, NEW s \in Seq(Steps)
    PROVE  /\ MuxAsks(q, 1) \in Seq(Steps) /\ MuxAsks(q, 2) \in Seq(Steps)
           /\ q.transport = "tcp" => Cat(MuxAsks(q, 1), s) = s /\ Cat(MuxAsks(q, 2), s) = s
           /\ q.transport # "tcp" => /\ Cat(MuxAsks(q, 1), s) = Pre(Ask("mux"), s)
                                     /\ Cat(MuxAsks(q, 2), s) = Pre(Ask("mux"), Pre(Ask("mux"), s))
<1> DEFINE m == Ask("mux")
<1>1. m \in Steps
  BY StepTypes DEF Args
<1>2. CASE q.transport = "tcp"
  <2>1. MuxAsks(q, 1) = <<>> /\ MuxAsks(q, 2) = <<>>
    BY <1>2 DEF MuxAsks, Unless
  <2>2. Cat(<<>>, s) = s /\ <<>> \in Seq(Steps)
    BY CatEmpty
  <2> QED
    BY <1>2, <2>1, <2>2
<1>3. CASE q.transport # "tcp"
  <2> HIDE DEF m
  <2>1. [i \in 1 .. 1 |-> m] = <<m>> /\ [i \in 1 .. 2 |-> m] = <<m, m>>
    <3>1. [i \in 1 .. 1 |-> m] \in Seq(Steps) /\ Len([i \in 1 .. 1 |-> m]) = 1
      BY <1>1
    <3>2. [i \in 1 .. 2 |-> m] \in Seq(Steps) /\ Len([i \in 1 .. 2 |-> m]) = 2
      BY <1>1
    <3>3. <<m>> \in Seq(Steps) /\ Len(<<m>>) = 1 /\ <<m>>[1] = m
      BY <1>1
    <3>4. <<m, m>> \in Seq(Steps) /\ Len(<<m, m>>) = 2 /\ <<m, m>>[1] = m /\ <<m, m>>[2] = m
      BY <1>1
    <3>5. \A i \in 1 .. 1 : [j \in 1 .. 1 |-> m][i] = <<m>>[i]
      BY <3>3
    <3>6. \A i \in 1 .. 2 : [j \in 1 .. 2 |-> m][i] = <<m, m>>[i]
      BY <3>4
    <3> QED
      BY <3>1, <3>2, <3>3, <3>4, <3>5, <3>6, SeqEqual
  <2>2. MuxAsks(q, 1) = <<m>> /\ MuxAsks(q, 2) = <<m, m>>
    BY <1>3, <2>1 DEF MuxAsks, Unless, m
  <2>3. <<m>> \in Seq(Steps) /\ <<m, m>> \in Seq(Steps)
    BY <1>1
  <2>4. Cat(<<m>>, s) = Pre(m, s)
    BY <1>1, Tuple1
  <2>5. Cat(<<m, m>>, s) = Pre(m, Pre(m, s))
    BY <1>1, Tuple2
  <2> QED
    BY <1>3, <2>2, <2>3, <2>4, <2>5 DEF m
<1> QED
  BY <1>2, <1>3

\* Questions to usbmuxd in front of steps that fit.
LEMMA FitMux ==
    ASSUME NEW p, NEW s, Fit(p, s), NEW q \in Plans, NEW n \in {1, 2}
    PROVE  /\ MuxAsks(q, n) \in Seq(Steps) /\ Fit(p, Cat(MuxAsks(q, n), s))
           /\ After(Cat(MuxAsks(q, n), s)) \in {"ask", After(s)}
           /\ Range(s) \subseteq Range(Cat(MuxAsks(q, n), s))
<1> DEFINE m == Ask("mux")
<1>1. s \in Seq(Steps)
  BY DEF Fit
<1>2. "mux" \in Args \ {"plain"} /\ "mux" # "tls"
  BY DEF Args
<1>3. Fit(p, Pre(m, s)) /\ After(Pre(m, s)) = "ask" /\ Range(Pre(m, s)) = {m} \cup Range(s)
  BY <1>2, FitAsk
<1>4. /\ Fit(p, Pre(m, Pre(m, s))) /\ After(Pre(m, Pre(m, s))) = "ask"
      /\ Range(Pre(m, Pre(m, s))) = {m} \cup Range(Pre(m, s))
  BY <1>2, <1>3, FitAsk
<1>5. CASE q.transport = "tcp"
  BY <1>5, <1>1, MuxShape
<1>6. CASE q.transport # "tcp"
  BY <1>6, <1>1, <1>3, <1>4, MuxShape
<1> QED
  BY <1>5, <1>6

\* A session in front of what is asked under TLS.
LEMMA FitSession ==
    ASSUME NEW p, NEW s, Fit(p, s), TlsRun(p, s), NEW q \in Plans
    PROVE  /\ Session(q) \in Seq(Steps) /\ Fit(p, Cat(Session(q), s))
           /\ {Dial("control")} \cup Range(s) \subseteq Range(Cat(Session(q), s))
<1> DEFINE d == Dial("control")
           a == Ask("plain")
           u == Step("upgrade")
           t == Ask("tls")
           four == <<a, a, u, t>>
           s1 == Pre(t, s)
           s2 == Pre(u, s1)
           s3 == Pre(a, s2)
           s4 == Pre(a, s3)
           m == MuxAsks(q, 2)
<1>1. d \in Steps /\ a \in Steps /\ u \in Steps /\ t \in Steps
  BY StepTypes DEF Args
<1>2. /\ a.op = "ask" /\ a.arg = "plain" /\ u.op = "upgrade" /\ t.op = "ask" /\ t.arg = "tls"
      /\ d.op = "dial"
  BY DEF Dial, Ask, Step
<1>3. s \in Seq(Steps)
  BY DEF Fit
<1>4. After(s) \in {"end", "spawn", "create"} => LastLayer(p) = "tls"
  <2>1. CASE s = <<>>
    BY <2>1, AtTheEnd
  <2>2. CASE s # <<>>
    <3> DEFINE h == Head(s)
               r == Tail(s)
    <3>1. h \in Steps /\ r \in Seq(Steps) /\ s = Pre(h, r)
      BY <2>2, <1>3, PreHead
    <3> HIDE DEF h, r
    <3>2. h.op \in {"dial", "ask"}
      BY <3>1, TlsRunPre DEF Ask
    <3> QED
      BY <3>1, <3>2, AfterPre
  <2> QED
    BY <2>1, <2>2
<1>5. Fit(p, s1) /\ Range(s1) = {t} \cup Range(s)
  BY <1>4, FitAsk DEF Args
<1>6. TlsRun(p, s1)
  BY <1>1, <1>3, TlsRunPre
<1>7. s1 \in Seq(Steps) /\ Orderly(p, s1)
  BY <1>5 DEF Fit
<1> HIDE DEF s1
<1>8. s2 \in Seq(Steps) /\ Orderly(p, s2) /\ After(s2) = "upgrade" /\ Range(s2) = {u} \cup Range(s1)
  <2>1. FollowedBy(p, u, s1)
    BY <1>2, <1>6 DEF FollowedBy
  <2> QED
    BY <2>1, <1>1, <1>2, <1>7, OrderlyWith
<1> HIDE DEF s2
<1>9. s3 \in Seq(Steps) /\ Orderly(p, s3) /\ After(s3) = "ask" /\ Range(s3) = {a} \cup Range(s2)
  <2>1. FollowedBy(p, a, s2)
    BY <1>2, <1>8 DEF FollowedBy
  <2> QED
    BY <2>1, <1>1, <1>2, <1>8, OrderlyWith
<1> HIDE DEF s3
<1>10. s4 \in Seq(Steps) /\ Orderly(p, s4) /\ After(s4) = "ask" /\ Range(s4) = {a} \cup Range(s3)
  <2>1. FollowedBy(p, a, s3)
    BY <1>2, <1>9 DEF FollowedBy
  <2> QED
    BY <2>1, <1>1, <1>2, <1>9, OrderlyWith
<1> HIDE DEF s4
<1>11. Fit(p, s4)
  BY <1>10 DEF Fit
<1>12. m \in Seq(Steps) /\ Fit(p, Cat(m, s4)) /\ Range(s4) \subseteq Range(Cat(m, s4))
  BY <1>11, FitMux
<1>13. Fit(p, Pre(d, Cat(m, s4))) /\ Range(Pre(d, Cat(m, s4))) = {d} \cup Range(Cat(m, s4))
  BY <1>1, <1>2, <1>12, FitQuiet
<1>14. Cat(four, s) = s4 /\ four \in Seq(Steps)
  <2> HIDE DEF a, u, t
  <2>1. Cat(four, s) = Pre(a, Pre(a, Pre(u, Pre(t, s)))) /\ four \in Seq(Steps)
    BY <1>1, <1>3, Tuple4
  <2> QED
    BY <2>1 DEF s1, s2, s3, s4
<1>15. /\ Cat(Session(q), s) = Pre(d, Cat(m, s4)) /\ Session(q) \in Seq(Steps)
  <2> DEFINE dd == <<d>>
  <2>1. Session(q) = Cat(Cat(dd, m), four)
    BY DEF Session, Cat
  <2> HIDE DEF four, d, m
  <2>2. dd \in Seq(Steps) /\ Cat(dd, Cat(m, s4)) = Pre(d, Cat(m, s4))
    <3>1. Cat(m, s4) \in Seq(Steps)
      BY <1>10, <1>12, CatType
    <3> QED
      BY <1>1, <3>1, Tuple1
  <2> HIDE DEF dd
  <2>3. Cat(dd, m) \in Seq(Steps)
    BY <2>2, <1>12, CatType
  <2>4. Cat(Cat(Cat(dd, m), four), s) = Cat(Cat(dd, m), Cat(four, s))
    BY <2>3, <1>14, <1>3, CatAssoc
  <2>5. Cat(Cat(dd, m), s4) = Cat(dd, Cat(m, s4))
    BY <2>2, <1>12, <1>10, CatAssoc
  <2>6. Cat(Cat(dd, m), four) \in Seq(Steps)
    BY <2>3, <1>14, CatType
  <2> QED
    BY <2>1, <2>2, <2>4, <2>5, <2>6, <1>14
<1> QED
  BY <1>5, <1>8, <1>9, <1>10, <1>12, <1>13, <1>15

\* A service in front of steps that fit, as far as its last layer allows.
LEMMA FitService ==
    ASSUME NEW p, NEW s, Fit(p, s), NEW q \in Plans,
           q.ssl /\ ~q.strip /\ After(s) \in {"end", "spawn", "create"} => LastLayer(p) = "tls"
    PROVE  /\ Service(q) \in Seq(Steps) /\ Fit(p, Cat(Service(q), s))
           /\ {Dial("data")} \cup Range(s) \subseteq Range(Cat(Service(q), s))
<1> DEFINE t == Ask("tls")
           d == Dial("data")
           z == Step("strip")
           m == MuxAsks(q, 1)
           w == Unless(~q.ssl, <<t>>)
           v == Unless(~(q.ssl /\ q.strip), <<z>>)
           b == <<t, d>>
           s1 == Cat(v, s)
           s2 == Cat(w, s1)
           s3 == Cat(m, s2)
           s4 == Pre(d, s3)
           s5 == Pre(t, s4)
<1>1. t \in Steps /\ d \in Steps /\ z \in Steps
  BY StepTypes DEF Args
<1>2. d.op = "dial" /\ z.op = "strip" /\ "tls" \in Args \ {"plain"} /\ q.ssl \in BOOLEAN /\ q.strip \in BOOLEAN
  BY DEF Dial, Step, Args, Plans
<1>3. s \in Seq(Steps)
  BY DEF Fit
<1>4. /\ v \in Seq(Steps) /\ Fit(p, s1) /\ Range(s) \subseteq Range(s1)
      /\ q.ssl /\ After(s1) \in {"end", "spawn", "create"} => LastLayer(p) = "tls"
  <2>1. CASE q.ssl /\ q.strip
    <3>1. v = <<z>>
      BY <2>1 DEF Unless
    <3>2. v \in Seq(Steps) /\ s1 = Pre(z, s)
      BY <3>1, <1>1, <1>3, Tuple1
    <3>3. Fit(p, Pre(z, s)) /\ After(Pre(z, s)) = "strip" /\ Range(Pre(z, s)) = {z} \cup Range(s)
      BY <1>1, <1>2, FitQuiet
    <3> QED
      BY <3>2, <3>3
  <2>2. CASE ~(q.ssl /\ q.strip)
    <3>1. v = <<>>
      BY <2>2 DEF Unless
    <3>2. v \in Seq(Steps) /\ s1 = s
      <4>1. Cat(<<>>, s) = s /\ <<>> \in Seq(Steps)
        BY <1>3, CatEmpty
      <4> QED
        BY <3>1, <4>1 DEF s1
    <3> QED
      BY <2>2, <3>2
  <2> QED
    BY <2>1, <2>2
<1>5. s1 \in Seq(Steps)
  BY <1>4 DEF Fit
<1> HIDE DEF v, s1
<1>6. w \in Seq(Steps) /\ Fit(p, s2) /\ Range(s1) \subseteq Range(s2)
  <2>1. CASE q.ssl
    <3>1. w = <<t>>
      BY <2>1 DEF Unless
    <3>2. w \in Seq(Steps) /\ s2 = Pre(t, s1)
      BY <3>1, <1>1, <1>5, Tuple1
    <3>3. Fit(p, Pre(t, s1)) /\ Range(Pre(t, s1)) = {t} \cup Range(s1)
      BY <1>2, <1>4, <2>1, FitAsk
    <3> QED
      BY <3>2, <3>3
  <2>2. CASE ~q.ssl
    <3>1. w = <<>>
      BY <2>2 DEF Unless
    <3>2. w \in Seq(Steps) /\ s2 = s1
      <4>1. Cat(<<>>, s1) = s1 /\ <<>> \in Seq(Steps)
        BY <1>5, CatEmpty
      <4> QED
        BY <3>1, <4>1 DEF s2
    <3> QED
      BY <3>2, <1>4
  <2> QED
    BY <2>1, <2>2
<1> HIDE DEF w, s2
<1>7. m \in Seq(Steps) /\ Fit(p, s3) /\ Range(s2) \subseteq Range(s3)
  BY <1>6, FitMux
<1> HIDE DEF m, s3
<1>8. Fit(p, s4) /\ After(s4) = "dial" /\ Range(s4) = {d} \cup Range(s3)
  BY <1>1, <1>2, <1>7, FitQuiet
<1>9. s3 \in Seq(Steps) /\ s4 \in Seq(Steps)
  BY <1>7, <1>8 DEF Fit
<1>10. TlsRun(p, s4)
  BY <1>1, <1>2, <1>9, TlsRunPre
<1> HIDE DEF s4
<1>11. Fit(p, s5) /\ Range(s5) = {t} \cup Range(s4)
  BY <1>2, <1>8, FitAsk
<1>12. TlsRun(p, s5)
  BY <1>1, <1>9, <1>10, TlsRunPre
<1> HIDE DEF s5
<1>13. Session(q) \in Seq(Steps) /\ Fit(p, Cat(Session(q), s5)) /\ Range(s5) \subseteq Range(Cat(Session(q), s5))
  BY <1>11, <1>12, FitSession
<1>14. b \in Seq(Steps) /\ Cat(b, s3) = s5
  <2> HIDE DEF t, d
  <2> QED
    BY <1>1, <1>9, Tuple2 DEF s4, s5
<1>15. Service(q) \in Seq(Steps) /\ Cat(Service(q), s) = Cat(Session(q), s5)
  <2> DEFINE k == Session(q)
             k1 == Cat(k, b)
             k2 == Cat(k1, m)
             k3 == Cat(k2, w)
             k4 == Cat(k3, v)
  <2>1. Service(q) = k4
    BY DEF Service, Cat, m, w, v
  <2> HIDE DEF b, k
  <2>2. k \in Seq(Steps) /\ b \in Seq(Steps) /\ s3 \in Seq(Steps) /\ s2 \in Seq(Steps)
    BY <1>13, <1>14, <1>9, <1>6 DEF k, Fit
  <2>3. k1 \in Seq(Steps) /\ Cat(k1, s3) = Cat(k, s5)
    BY <2>2, <1>14, CatType, CatAssoc
  <2> HIDE DEF k1
  <2>4. k2 \in Seq(Steps) /\ Cat(k2, s2) = Cat(k1, s3)
    BY <2>2, <2>3, <1>7, CatType, CatAssoc DEF s3
  <2> HIDE DEF k2
  <2>5. k3 \in Seq(Steps) /\ Cat(k3, s1) = Cat(k2, s2)
    BY <2>4, <1>5, <1>6, CatType, CatAssoc DEF s2
  <2> HIDE DEF k3
  <2>6. k4 \in Seq(Steps) /\ Cat(k4, s) = Cat(k3, s1)
    BY <2>5, <1>3, <1>4, CatType, CatAssoc DEF s1
  <2> HIDE DEF k4
  <2> QED
    BY <2>1, <2>3, <2>4, <2>5, <2>6 DEF k
<1> QED
  BY <1>4, <1>6, <1>7, <1>8, <1>11, <1>13, <1>15

LEMMA Tuple7 ==
    ASSUME NEW c \in Steps, NEW a \in Steps, NEW d \in Steps, NEW t \in Steps, NEW s \in Seq(Steps)
    PROVE  /\ <<c, a, a, a, a, d, t>> \in Seq(Steps)
           /\ Cat(<<c, a, a, a, a, d, t>>, s)
                = Pre(c, Pre(a, Pre(a, Pre(a, Pre(a, Pre(d, Pre(t, s)))))))
<1> DEFINE x == Pre(d, Pre(t, s))
           y == Pre(a, x)
           k == <<c, a, a, a>>
           l == <<a>>
           m == <<d, t>>
<1>1. m \in Seq(Steps) /\ Cat(m, s) = x
  BY Tuple2
<1>2. Pre(t, s) \in Seq(Steps)
  BY PreFacts
<1>3. x \in Seq(Steps)
  BY <1>2, PreFacts
<1> HIDE DEF x
<1>4. l \in Seq(Steps) /\ Cat(l, x) = y
  BY <1>3, Tuple1
<1>5. y \in Seq(Steps)
  BY <1>3, PreFacts
<1> HIDE DEF y
<1>6. k \in Seq(Steps) /\ Cat(k, y) = Pre(c, Pre(a, Pre(a, Pre(a, y))))
  BY <1>5, Tuple4
<1>7. <<c, a, a, a, a, d, t>> = Cat(Cat(k, l), m) /\ <<c, a, a, a, a, d, t>> \in Seq(Steps)
  BY DEF Cat
<1> HIDE DEF k, l, m
<1>8. Cat(k, l) \in Seq(Steps)
  BY <1>4, <1>6, CatType
<1>9. Cat(Cat(Cat(k, l), m), s) = Cat(Cat(k, l), Cat(m, s))
  BY <1>1, <1>8, CatAssoc
<1>10. Cat(Cat(k, l), x) = Cat(k, Cat(l, x))
  BY <1>3, <1>4, <1>6, CatAssoc
<1> QED
  BY <1>1, <1>4, <1>6, <1>7, <1>9, <1>10 DEF x, y

\* The pairing in front of an activation.
LEMMA FitPairing ==
    ASSUME NEW p, NEW s, Fit(p, s), After(s) = "ask"
    PROVE  /\ Pairing \in Seq(Steps) /\ Fit(p, Cat(Pairing, s))
           /\ {Dial("control"), Dial("data")} \cup Range(s) \subseteq Range(Cat(Pairing, s))
<1> DEFINE c == Dial("control")
           d == Dial("data")
           a == Ask("pairing")
           t == Ask("tls")
           s1 == Pre(t, s)
           s2 == Pre(d, s1)
           s3 == Pre(a, s2)
           s4 == Pre(a, s3)
           s5 == Pre(a, s4)
           s6 == Pre(a, s5)
           s7 == Pre(c, s6)
<1>1. c \in Steps /\ d \in Steps /\ a \in Steps /\ t \in Steps
  BY StepTypes DEF Args
<1>2. c.op = "dial" /\ d.op = "dial" /\ {"tls", "pairing"} \subseteq Args \ {"plain"} /\ "pairing" # "tls"
  BY DEF Dial, Args
<1>3. s \in Seq(Steps)
  BY DEF Fit
<1>4. Fit(p, s1) /\ Range(s1) = {t} \cup Range(s)
  BY <1>2, FitAsk
<1> HIDE DEF s1
<1>5. Fit(p, s2) /\ Range(s2) = {d} \cup Range(s1)
  BY <1>1, <1>2, <1>4, FitQuiet
<1> HIDE DEF s2
<1>6. Fit(p, s3) /\ Range(s3) = {a} \cup Range(s2)
  BY <1>2, <1>5, FitAsk
<1> HIDE DEF s3
<1>7. Fit(p, s4) /\ Range(s4) = {a} \cup Range(s3)
  BY <1>2, <1>6, FitAsk
<1> HIDE DEF s4
<1>8. Fit(p, s5) /\ Range(s5) = {a} \cup Range(s4)
  BY <1>2, <1>7, FitAsk
<1> HIDE DEF s5
<1>9. Fit(p, s6) /\ Range(s6) = {a} \cup Range(s5)
  BY <1>2, <1>8, FitAsk
<1> HIDE DEF s6
<1>10. Fit(p, s7) /\ Range(s7) = {c} \cup Range(s6)
  BY <1>1, <1>2, <1>9, FitQuiet
<1>11. Pairing \in Seq(Steps) /\ Cat(Pairing, s) = s7
  <2>1. Pairing = <<c, a, a, a, a, d, t>>
    BY DEF Pairing
  <2> HIDE DEF c, a, d, t
  <2>2. /\ <<c, a, a, a, a, d, t>> \in Seq(Steps)
        /\ Cat(<<c, a, a, a, a, d, t>>, s) = Pre(c, Pre(a, Pre(a, Pre(a, Pre(a, Pre(d, Pre(t, s)))))))
    BY <1>1, <1>3, Tuple7
  <2> QED
    BY <2>1, <2>2 DEF s1, s2, s3, s4, s5, s6
<1> QED
  BY <1>4, <1>5, <1>6, <1>7, <1>8, <1>9, <1>10, <1>11

LEMMA FitEnd ==
    ASSUME NEW p, NEW s, Fit(p, s), EndRun(s), NEW a \in Steps, a.op \in EndOps,
           a.op \in {"spawn", "bind"} => Tunnels(p), a.op = "bind" => p.userspace
    PROVE  /\ Fit(p, Pre(a, s)) /\ EndRun(Pre(a, s)) /\ After(Pre(a, s)) = a.op
           /\ Range(Pre(a, s)) = {a} \cup Range(s)
<1>1. s \in Seq(Steps) /\ Orderly(p, s)
  BY DEF Fit
<1>2. FollowedBy(p, a, s)
  BY DEF FollowedBy, EndOps
<1>3. a.op # "upgrade"
  BY DEF EndOps
<1>4. EndRun(Pre(a, s))
  BY <1>1, EndRunPre
<1> QED
  BY <1>1, <1>2, <1>3, <1>4, OrderlyWith DEF Fit

LEMMA FitNone == ASSUME NEW p PROVE Fit(p, <<>>) /\ EndRun(<<>>) /\ After(<<>>) = "end"
BY AtTheEnd DEF Fit

\* The activation of a tunnel ends a procedure.
LEMMA FitActivation ==
    ASSUME NEW p \in Plans, NEW q \in Plans, Tunnels(p), p.userspace = q.userspace,
           q.ssl => LastLayer(p) = "tls"
    PROVE  /\ Fit(p, Activation(q)) /\ After(Activation(q)) = "ask"
           /\ Step("spawn") \in Range(Activation(q))
<1> DEFINE l == IF q.ssl THEN "tls" ELSE "data"
           a == Ask(l)
           x == IF q.userspace THEN Step("spawn") ELSE Step("create")
           y == IF q.userspace THEN Step("bind") ELSE Step("spawn")
           z == Step("probe")
           s1 == Pre(z, <<>>)
           s2 == Pre(y, s1)
           s3 == Pre(x, s2)
<1>1. l \in Args \ {"plain"} /\ (l = "tls" => LastLayer(p) = "tls")
  BY DEF Args
<1>2. /\ a \in Steps /\ x \in Steps /\ y \in Steps /\ z \in Steps
  <2>1. a \in Steps
    BY <1>1, StepTypes
  <2>2. Step("spawn") \in Steps /\ Step("create") \in Steps /\ Step("bind") \in Steps /\ z \in Steps
    BY StepTypes DEF EndOps
  <2> QED
    BY <2>1, <2>2
<1>3. /\ x.op \in {"spawn", "create"} /\ y.op \in {"spawn", "bind"} /\ z.op = "probe"
      /\ y.op = "bind" => p.userspace
  BY DEF Step
<1> HIDE DEF l
<1>4. Step("spawn") \in {x, y}
  OBVIOUS
<1>5. Activation(q) = Cat(Cat(<<a>>, <<x, y>>), <<z>>)
  <2>1. CASE q.userspace
    BY <2>1 DEF Activation, Cat, l
  <2>2. CASE ~q.userspace
    BY <2>2 DEF Activation, Cat, l
  <2> QED
    BY <2>1, <2>2
<1> HIDE DEF a, x, y, z
<1>6. Fit(p, s1) /\ EndRun(s1) /\ Range(s1) = {z} \cup Range(<<>>)
  BY <1>2, <1>3, FitNone, FitEnd DEF EndOps
<1>7. s1 = <<z>> /\ <<z>> \in Seq(Steps)
  BY <1>2, AtTheEnd, Tuple1
<1> HIDE DEF s1
<1>8. Fit(p, s2) /\ EndRun(s2) /\ Range(s2) = {y} \cup Range(s1)
  BY <1>2, <1>3, <1>6, FitEnd DEF EndOps
<1> HIDE DEF s2
<1>9. Fit(p, s3) /\ EndRun(s3) /\ Range(s3) = {x} \cup Range(s2)
  BY <1>2, <1>3, <1>8, FitEnd DEF EndOps
<1> HIDE DEF s3
<1>10. Fit(p, Pre(a, s3)) /\ After(Pre(a, s3)) = "ask" /\ Range(Pre(a, s3)) = {a} \cup Range(s3)
  BY <1>1, <1>9, FitAsk DEF a
<1>11. Activation(q) = Pre(a, s3)
  <2> DEFINE aa == <<a>>
             xy == <<x, y>>
             zz == <<z>>
  <2>1. xy \in Seq(Steps) /\ Cat(xy, s1) = s3
    BY <1>2, <1>7, Tuple2, ZenonT(30) DEF s2, s3
  <2>2. s3 \in Seq(Steps)
    BY <1>9 DEF Fit
  <2>3. aa \in Seq(Steps) /\ Cat(aa, s3) = Pre(a, s3)
    BY <1>2, <2>2, Tuple1
  <2>4. Activation(q) = Cat(Cat(aa, xy), zz) /\ zz = s1 /\ zz \in Seq(Steps)
    BY <1>5, <1>7
  <2> HIDE DEF aa, xy, zz
  <2>5. Cat(Cat(aa, xy), zz) = Cat(aa, Cat(xy, zz))
    BY <2>1, <2>3, <2>4, CatAssoc
  <2> QED
    BY <2>1, <2>3, <2>4, <2>5
<1> QED
  BY <1>4, <1>8, <1>9, <1>10, <1>11

LEMMA LastLayers ==
    ASSUME NEW p
    PROVE  /\ p.purpose \in {"direct", "remote", "values"} => LastLayer(p) = "tls"
           /\ p.purpose = "tunnel" => LastLayer(p) = IF p.ssl THEN "tls" ELSE "data"
           /\ p.purpose = "service" => LastLayer(p) = IF p.ssl /\ ~p.strip THEN "tls" ELSE "data"
           /\ p.purpose = "shim" => LastLayer(p) = "data"
BY Zenon DEF LastLayer

LEMMA Procedures ==
    ASSUME NEW p
    PROVE  /\ p.purpose = "values" => Procedure(p) = Cat(Session(p), <<Ask("tls"), Ask("tls")>>)
           /\ p.purpose = "service" => Procedure(p) = Service(p)
           /\ p.purpose = "tunnel" =>
                Procedure(p) = Cat(Service([p EXCEPT !.strip = FALSE]), Activation(p))
           /\ p.purpose = "direct" =>
                Procedure(p) = Cat(Cat(<<Dial("rsd"), Ask("data")>>, Pairing),
                                   Activation([p EXCEPT !.ssl = TRUE]))
           /\ p.purpose = "remote" => Procedure(p) = Cat(Pairing, Activation([p EXCEPT !.ssl = TRUE]))
           /\ p.purpose = "shim" => Procedure(p) = <<Dial("data"), Ask("checkin")>>
BY Zenon DEF Procedure, Cat

\* Every procedure is in order, dials what the result holds and spawns the tasks
\* of a tunnel.
LEMMA FitProcedure ==
    ASSUME NEW p \in Plans
    PROVE  /\ Fit(p, Procedure(p)) /\ Procedure(p) # <<>>
           /\ p.purpose # "values" => Dial("data") \in Range(Procedure(p))
           /\ p.purpose \in {"values", "direct", "remote"} => Dial("control") \in Range(Procedure(p))
           /\ Tunnels(p) => Step("spawn") \in Range(Procedure(p))
<1> DEFINE t == Ask("tls")
           r == Procedure(p)
           u == [p EXCEPT !.strip = FALSE]
           v == [p EXCEPT !.ssl = TRUE]
<1>1. /\ p.purpose \in {"values", "service", "tunnel", "direct", "remote", "shim"}
      /\ u \in Plans /\ u.ssl = p.ssl /\ u.strip = FALSE /\ u.userspace = p.userspace
      /\ v \in Plans /\ v.ssl = TRUE /\ v.userspace = p.userspace
  BY ConnectAssumption DEF Plans
<1> HIDE DEF u, v
<1>0. Range(<<>>) = {}
  BY DEF Range
<1>2. CASE p.purpose = "values"
  <2>1. t \in Steps
    BY StepTypes DEF Args
  <2>2. LastLayer(p) = "tls"
    BY <1>2, LastLayers
  <2> DEFINE s1 == Pre(t, <<>>)
             s2 == Pre(t, s1)
  <2>3. Fit(p, s1) /\ TlsRun(p, s1) /\ s1 \in Seq(Steps) /\ s1 = <<t>>
    BY <2>1, <2>2, FitNone, FitAsk, AtTheEnd, TlsRunPre, PreFacts, Tuple1 DEF Args
  <2>4. s2 = <<t, t>>
    BY <2>1, <2>3, AtTheEnd, Tuple2
  <2> HIDE DEF s1
  <2>5. Fit(p, s2) /\ TlsRun(p, s2)
    BY <2>1, <2>2, <2>3, FitAsk, TlsRunPre DEF Args
  <2> HIDE DEF s2
  <2>6. Fit(p, Cat(Session(p), s2)) /\ Dial("control") \in Range(Cat(Session(p), s2))
    BY <2>5, FitSession
  <2>7. r = Cat(Session(p), s2)
    BY <1>2, <2>4, Procedures
  <2> QED
    BY <1>0, <1>2, <2>6, <2>7 DEF Tunnels
<1>3. CASE p.purpose = "service"
  <2>1. p.ssl /\ ~p.strip => LastLayer(p) = "tls"
    BY <1>3, LastLayers
  <2>2. /\ Service(p) \in Seq(Steps) /\ Fit(p, Cat(Service(p), <<>>))
        /\ Dial("data") \in Range(Cat(Service(p), <<>>))
    BY <2>1, FitNone, FitService
  <2>3. Cat(Service(p), <<>>) = Service(p)
    BY <2>2, CatEmpty
  <2>4. r = Service(p)
    BY <1>3, Procedures
  <2> QED
    BY <1>0, <1>3, <2>2, <2>3, <2>4 DEF Tunnels
<1>4. CASE p.purpose = "tunnel"
  <2>1. p.ssl => LastLayer(p) = "tls"
    BY <1>4, LastLayers
  <2>2. Tunnels(p)
    BY <1>4 DEF Tunnels
  <2>3. Fit(p, Activation(p)) /\ Step("spawn") \in Range(Activation(p))
    BY <2>1, <2>2, FitActivation
  <2>4. /\ Fit(p, Cat(Service(u), Activation(p)))
        /\ {Dial("data")} \cup Range(Activation(p)) \subseteq Range(Cat(Service(u), Activation(p)))
    BY <1>1, <2>1, <2>3, FitService
  <2>5. r = Cat(Service(u), Activation(p))
    BY <1>4, Procedures DEF u
  <2> QED
    BY <1>0, <1>4, <2>3, <2>4, <2>5
<1>5. ASSUME p.purpose \in {"direct", "remote"}
      PROVE  /\ Fit(p, Cat(Pairing, Activation(v))) /\ Pairing \in Seq(Steps) /\ Activation(v) \in Seq(Steps)
             /\ {Dial("control"), Dial("data"), Step("spawn")} \subseteq Range(Cat(Pairing, Activation(v)))
  <2>1. LastLayer(p) = "tls"
    BY <1>5, LastLayers
  <2>2. Tunnels(p)
    BY <1>5 DEF Tunnels
  <2>3. Fit(p, Activation(v)) /\ After(Activation(v)) = "ask" /\ Step("spawn") \in Range(Activation(v))
    BY <1>1, <2>1, <2>2, FitActivation
  <2>4. /\ Pairing \in Seq(Steps) /\ Fit(p, Cat(Pairing, Activation(v)))
        /\ {Dial("control"), Dial("data")} \cup Range(Activation(v)) \subseteq Range(Cat(Pairing, Activation(v)))
    BY <2>3, FitPairing
  <2> QED
    BY <2>3, <2>4 DEF Fit
<1>6. CASE p.purpose = "remote"
  <2>1. r = Cat(Pairing, Activation(v))
    BY <1>6, Procedures DEF v
  <2> QED
    BY <1>0, <1>5, <1>6, <2>1
<1>7. CASE p.purpose = "direct"
  <2> DEFINE d == Dial("rsd")
             a == Ask("data")
             s == Cat(Pairing, Activation(v))
             s1 == Pre(a, s)
             s2 == Pre(d, s1)
  <2>1. d \in Steps /\ a \in Steps /\ d.op = "dial" /\ "data" \in Args \ {"plain"} /\ "data" # "tls"
    BY StepTypes DEF Args, Dial
  <2>2. Fit(p, s) /\ {Dial("control"), Dial("data"), Step("spawn")} \subseteq Range(s)
    BY <1>5, <1>7
  <2>3. s \in Seq(Steps)
    BY <2>2 DEF Fit
  <2> HIDE DEF s
  <2>4. Fit(p, s1) /\ Range(s1) = {a} \cup Range(s)
    BY <2>1, <2>2, FitAsk
  <2> HIDE DEF s1
  <2>5. Fit(p, s2) /\ Range(s2) = {d} \cup Range(s1)
    BY <2>1, <2>4, FitQuiet
  <2> HIDE DEF s2
  <2>6. r = s2
    <3> DEFINE da == <<d, a>>
    <3>1. r = Cat(Cat(da, Pairing), Activation(v))
      BY <1>7, Procedures DEF v
    <3> HIDE DEF d, a
    <3>2. da \in Seq(Steps) /\ Cat(da, s) = s2
      BY <2>1, <2>3, Tuple2 DEF s1, s2
    <3> HIDE DEF da
    <3>3. Cat(Cat(da, Pairing), Activation(v)) = Cat(da, Cat(Pairing, Activation(v)))
      BY <3>2, <1>5, <1>7, CatAssoc
    <3> QED
      BY <3>1, <3>2, <3>3 DEF s
  <2> QED
    BY <1>0, <1>7, <2>2, <2>4, <2>5, <2>6
<1>8. CASE p.purpose = "shim"
  <2> DEFINE d == Dial("data")
             a == Ask("checkin")
             s1 == Pre(a, <<>>)
             s2 == Pre(d, s1)
  <2>1. d \in Steps /\ a \in Steps /\ d.op = "dial" /\ "checkin" \in Args \ {"plain"} /\ "checkin" # "tls"
    BY StepTypes DEF Args, Dial
  <2>2. Fit(p, s1)
    BY <2>1, FitNone, FitAsk
  <2>3. Fit(p, s2) /\ Range(s2) = {d} \cup Range(s1)
    BY <2>1, <2>2, FitQuiet
  <2>4. r = <<d, a>>
    BY <1>8, Procedures
  <2> HIDE DEF d, a
  <2>5. s1 = <<a>> /\ s2 = <<d, a>>
    <3>1. <<>> \in Seq(Steps)
      BY AtTheEnd
    <3>2. <<a>> = Pre(a, <<>>)
      BY <2>1, <3>1, Tuple1
    <3>3. <<d, a>> = Pre(d, <<a>>)
      BY <2>1, <3>1, Tuple2
    <3> QED
      BY <3>2, <3>3
  <2> QED
    BY <1>0, <1>8, <2>3, <2>4, <2>5 DEF Tunnels, d
<1> QED
  BY <1>1, <1>2, <1>3, <1>4, <1>6, <1>7, <1>8

-----------------------------------------------------------------------------
ConnectTypeInv ==
    /\ plan \in Plans /\ steps \in Seq(Steps)
    /\ awaited \in 0 .. 2 /\ owed \in 0 .. 2
    /\ wire \in Seq(Args) /\ ahead \in Seq(Args)
    /\ outcome \in {"running", "ok", "err", "dropped"}
    /\ spoke \in BOOLEAN /\ mishaps = {}
    /\ outcome = "running" => steps # <<>> /\ Orderly(plan, steps)

\* What the host has yet to read, in order.
Unread == ahead \o wire
Asking == Head(steps).op = "ask"

\* Nothing but the replies to the question.
OwnReplies ==
    /\ ~spoke /\ Len(Unread) = awaited - owed /\ (awaited > 0 => Asking)
    /\ \A i \in 1 .. Len(Unread) : Unread[i] = Head(steps).arg

\* The replies, and what the device said of its own accord behind them.
Spoken ==
    /\ spoke /\ awaited > 0 /\ owed = 0 /\ Asking
    /\ Len(Unread) = awaited + 1 /\ \A i \in 1 .. awaited : Unread[i] = Head(steps).arg
    /\ \/ Following = "upgrade" /\ Unread[awaited + 1] = "tls"
       \/ Following \in {"end", "spawn", "create"} /\ Unread[awaited + 1] = LastLayer(plan)

BehindSession ==
    /\ spoke /\ awaited = 0 /\ owed = 0 /\ Head(steps).op = "upgrade"
    /\ Len(Unread) = 1 /\ Unread[1] = "tls"

UnderTls ==
    /\ spoke /\ TlsRun(plan, steps) /\ (awaited > 0 => Asking)
    /\ Asking => \A i \in 1 .. Len(Unread) : Unread[i] = "tls"

ForTheCaller ==
    /\ spoke /\ awaited = 0 /\ owed = 0 /\ EndRun(steps)
    /\ Len(Unread) = 1 /\ Unread[1] = LastLayer(plan)
    /\ ahead # <<>> => LastLayer(plan) = "tls"

UnitInv ==
    /\ outcome = "running" => OwnReplies \/ Spoken \/ BehindSession \/ UnderTls \/ ForTheCaller
    /\ outcome = "ok" =>
         /\ \A i \in 1 .. Len(Unread) : Unread[i] = LastLayer(plan)
         /\ ahead # <<>> => LastLayer(plan) = "tls"

\* What the result will hold is held or still to be dialled or spawned.
HeldInv ==
    /\ outcome = "running" => \A d \in Returned : d \in sockets \/ Dial(d) \in Range(steps)
    /\ outcome = "ok" => sockets = Returned
    /\ outcome \in {"err", "dropped"} => sockets = {} /\ tasks \subseteq {"leaked"}
    /\ "leaked" \in tasks => plan.userspace
    /\ tasks \ {"leaked"} # {} => Tunnels(plan)
    /\ outcome = "running" /\ Tunnels(plan) => tasks \ {"leaked"} # {} \/ Step("spawn") \in Range(steps)
    /\ outcome = "ok" /\ Tunnels(plan) => tasks \ {"leaked"} # {}

ConnectInv == ConnectTypeInv /\ UnitInv /\ HeldInv

-----------------------------------------------------------------------------
LEMMA ReturnedFacts ==
    /\ plan.purpose = "values" => Returned = {"control"}
    /\ plan.purpose \in {"direct", "remote"} => Returned = {"control", "data"}
    /\ plan.purpose \notin {"values", "direct", "remote"} => Returned = {"data"}
<1>1. plan.purpose = "values" => Returned = {"control"}
  BY Zenon DEF Returned
<1>2. plan.purpose \in {"direct", "remote"} => Returned = {"control", "data"}
  BY Zenon DEF Returned
<1>3. plan.purpose \notin {"values", "direct", "remote"} => Returned = {"data"}
  BY Zenon DEF Returned
<1> QED
  BY <1>1, <1>2, <1>3

LEMMA StepFacts ==
    ASSUME ConnectTypeInv, outcome = "running"
    PROVE  /\ Head(steps) \in Steps /\ Tail(steps) \in Seq(Steps) /\ Len(steps) = Len(Tail(steps)) + 1
           /\ steps = Pre(Head(steps), Tail(steps)) /\ steps # <<>>
           /\ FollowedBy(plan, Head(steps), Tail(steps)) /\ Orderly(plan, Tail(steps))
           /\ Range(steps) = {Head(steps)} \cup Range(Tail(steps))
           /\ Following = After(Tail(steps)) /\ (Len(steps) = 1 <=> Tail(steps) = <<>>)
<1> DEFINE h == Head(steps)
           t == Tail(steps)
<1>1. steps \in Seq(Steps) /\ steps # <<>> /\ Orderly(plan, steps)
  BY DEF ConnectTypeInv
<1>2. h \in Steps /\ t \in Seq(Steps) /\ Len(t) = Len(steps) - 1 /\ Len(steps) \in Nat /\ steps = Pre(h, t)
  BY <1>1, PreHead
<1>3. Len(t) \in Nat /\ Len(steps) = Len(t) + 1 /\ (Len(steps) = 1 <=> t = <<>>)
  BY <1>1, <1>2
<1>4. Following = After(t)
  <2>1. CASE Len(steps) > 1
    <3>1. t[1] = steps[2]
      BY <1>1, <2>1
    <3>2. Len(t) # 0
      BY <1>2, <2>1
    <3> QED
      BY <2>1, <3>1, <3>2 DEF Following, After
  <2>2. CASE ~(Len(steps) > 1)
    <3>1. Len(t) = 0
      BY <1>2, <1>3, <2>2
    <3> QED
      BY <2>2, <3>1 DEF Following, After
  <2> QED
    BY <2>1, <2>2
<1> HIDE DEF h, t
<1>5. FollowedBy(plan, h, t) /\ Orderly(plan, t)
  BY <1>1, <1>2, OrderlyPre
<1>6. Range(steps) = {h} \cup Range(t)
  BY <1>2, PreFacts
<1> QED
  BY <1>1, <1>2, <1>3, <1>4, <1>5, <1>6 DEF h, t

\* The steps that are left after one of them.
LEMMA NextSteps ==
    ASSUME ConnectTypeInv, outcome = "running", NEW held, OnwardsWith(held), plan' = plan
    PROVE  /\ steps' = Tail(steps) /\ steps' \in Seq(Steps) /\ plan' \in Plans
           /\ outcome' \in {"running", "ok"} /\ (outcome' = "ok" <=> steps' = <<>>)
           /\ outcome' = "running" => steps' # <<>> /\ Orderly(plan', steps')
           /\ sockets' = IF outcome' = "ok" THEN held \cap Returned ELSE held
<1>1. /\ Tail(steps) \in Seq(Steps) /\ Orderly(plan, Tail(steps))
      /\ (Len(steps) = 1 <=> Tail(steps) = <<>>)
  BY StepFacts
<1>2. /\ steps' = Tail(steps)
      /\ outcome' = IF Len(steps) = 1 THEN "ok" ELSE outcome
      /\ sockets' = IF Len(steps) = 1 THEN held \cap Returned ELSE held
  BY DEF OnwardsWith
<1>3. plan \in Plans
  BY DEF ConnectTypeInv
<1> QED
  BY <1>1, <1>2, <1>3

\* A step keeps what is held, and does what it is there for.
LEMMA NextHeld ==
    ASSUME ConnectInv, outcome = "running", NEW held, OnwardsWith(held), plan' = plan,
           sockets \subseteq held \cup {"rsd"},
           Head(steps).op = "dial" => Head(steps).arg \in held,
           tasks \subseteq tasks', "leaked" \in tasks' => "leaked" \in tasks,
           Head(steps).op = "spawn" => tasks' \ {"leaked"} # {},
           tasks' # tasks => Head(steps).op \in {"spawn", "bind"}
    PROVE  HeldInv'
<1>1. ConnectTypeInv /\ HeldInv
  BY DEF ConnectInv
<1>2. /\ FollowedBy(plan, Head(steps), Tail(steps)) /\ Range(steps) = {Head(steps)} \cup Range(Tail(steps))
  BY <1>1, StepFacts
<1>3. /\ steps' = Tail(steps) /\ outcome' \in {"running", "ok"} /\ (outcome' = "ok" <=> steps' = <<>>)
      /\ sockets' = IF outcome' = "ok" THEN held \cap Returned ELSE held
  BY <1>1, NextSteps
<1>4. Returned' = Returned /\ "rsd" \notin Returned
  <2>1. Returned' = Returned
    BY DEF Returned
  <2> QED
    BY <2>1, ReturnedFacts
<1>5. \A d \in Returned : d \in held \/ Dial(d) \in Range(steps')
  <2> SUFFICES ASSUME NEW d \in Returned PROVE d \in held \/ Dial(d) \in Range(steps')
    OBVIOUS
  <2>1. d \in sockets \/ Dial(d) \in Range(steps)
    BY <1>1 DEF HeldInv
  <2>2. Dial(d).op = "dial" /\ Dial(d).arg = d
    BY DEF Dial
  <2> QED
    BY <1>2, <1>3, <1>4, <2>1, <2>2
<1>6. Range(<<>>) = {}
  BY DEF Range
<1>7. outcome' = "ok" => sockets' = Returned'
  BY <1>3, <1>4, <1>5, <1>6
<1>8. tasks' \ {"leaked"} # {} => Tunnels(plan)
  BY <1>1, <1>2 DEF HeldInv, FollowedBy
<1>9. Tunnels(plan) => tasks' \ {"leaked"} # {} \/ Step("spawn") \in Range(steps')
  <2>1. Step("spawn").op = "spawn"
    BY DEF Step
  <2> QED
    BY <2>1, <1>1, <1>2, <1>3 DEF HeldInv
<1>10. "leaked" \in tasks' => plan.userspace
  BY <1>1 DEF HeldInv
<1>11. Tunnels(plan') <=> Tunnels(plan)
  OBVIOUS
<1> QED
  BY <1>3, <1>4, <1>5, <1>6, <1>7, <1>8, <1>9, <1>10, <1>11 DEF HeldInv

\* Away from a question nothing is awaited, and what is unread was said first.
LEMMA QuietModes ==
    ASSUME ConnectInv, outcome = "running", ~Asking
    PROVE  /\ awaited = 0
           /\ \/ ~spoke /\ owed = 0 /\ Len(Unread) = 0
              \/ BehindSession \/ UnderTls \/ ForTheCaller
<1>1. awaited \in 0 .. 2 /\ owed \in 0 .. 2 /\ Len(Unread) \in Nat
  BY DEF ConnectInv, ConnectTypeInv, Unread
<1>2. OwnReplies \/ BehindSession \/ UnderTls \/ ForTheCaller
  BY DEF ConnectInv, UnitInv, Spoken
<1>3. CASE OwnReplies
  <2>1. awaited = 0
    BY <1>1, <1>3 DEF OwnReplies
  <2> QED
    BY <2>1, <1>1, <1>3 DEF OwnReplies
<1>4. CASE BehindSession
  BY <1>4 DEF BehindSession
<1>5. CASE UnderTls
  BY <1>1, <1>5 DEF UnderTls
<1>6. CASE ForTheCaller
  BY <1>6 DEF ForTheCaller
<1> QED
  BY <1>2, <1>3, <1>4, <1>5, <1>6

\* Under TLS the host asks or dials.
LEMMA TlsHead ==
    ASSUME ConnectTypeInv, outcome = "running", TlsRun(plan, steps)
    PROVE  /\ Head(steps).op = "dial" \/ (Head(steps) = Ask("tls") /\ TlsRun(plan, Tail(steps)))
BY StepFacts, TlsRunPre

LEMMA EndHead ==
    ASSUME ConnectTypeInv, outcome = "running", EndRun(steps)
    PROVE  Head(steps).op \in EndOps /\ EndRun(Tail(steps))
BY StepFacts, EndRunPre

LEMMA DialsStep == ASSUME ConnectInv, Dials PROVE ConnectInv'
<1> DEFINE held == (sockets \ {"rsd"}) \cup {Head(steps).arg}
<1>1. /\ outcome = "running" /\ Head(steps).op = "dial" /\ OnwardsWith(held) /\ plan' = plan
      /\ wire' = <<>> /\ ahead' = <<>> /\ spoke' = FALSE /\ owed' = 0
      /\ awaited' = awaited /\ tasks' = tasks /\ mishaps' = mishaps
  BY DEF Dials, Running
<1>2. ConnectTypeInv
  BY DEF ConnectInv
<1>3. awaited = 0
  BY <1>1, QuietModes DEF Asking
<1>4. HeldInv'
  <2>1. sockets \subseteq held \cup {"rsd"} /\ Head(steps).arg \in held
    OBVIOUS
  <2> HIDE DEF held
  <2> QED
    BY <2>1, <1>1, NextHeld
<1> HIDE DEF held
<1>5. /\ steps' \in Seq(Steps) /\ plan' \in Plans /\ outcome' \in {"running", "ok"}
      /\ outcome' = "running" => steps' # <<>> /\ Orderly(plan', steps')
  BY <1>1, <1>2, NextSteps
<1>6. ConnectTypeInv'
  <2>1. wire' \in Seq(Args) /\ ahead' \in Seq(Args) /\ mishaps' = {}
    BY <1>1, <1>2 DEF ConnectTypeInv
  <2>2. awaited' \in 0 .. 2 /\ owed' \in 0 .. 2
    BY <1>1, <1>3
  <2>3. spoke' \in BOOLEAN
    BY <1>1
  <2> QED
    BY <2>1, <2>2, <2>3, <1>5 DEF ConnectTypeInv
<1>7. Len(Unread') = 0 /\ 1 .. Len(Unread') = {}
  BY <1>1 DEF Unread
<1>8. UnitInv'
  BY <1>1, <1>3, <1>7 DEF UnitInv, OwnReplies
<1> QED
  BY <1>4, <1>6, <1>8 DEF ConnectInv

LEMMA AsksStep == ASSUME ConnectInv, Asks PROVE ConnectInv'
<1>1. /\ outcome = "running" /\ Head(steps).op = "ask" /\ awaited = 0
      /\ awaited' \in {1, 2} /\ owed' = awaited'
      /\ UNCHANGED <<plan, steps, wire, ahead, sockets, tasks, spoke, outcome, mishaps>>
  BY DEF Asks, Running, Replies
<1>2. ConnectTypeInv /\ HeldInv
  BY DEF ConnectInv
<1>3. ConnectTypeInv'
  BY <1>1, <1>2 DEF ConnectTypeInv
<1>4. HeldInv'
  BY <1>1, <1>2 DEF HeldInv, Returned
<1>5. Unread' = Unread /\ Len(Unread) \in Nat /\ owed \in 0 .. 2
  BY <1>1, <1>2 DEF Unread, ConnectTypeInv
<1>6. OwnReplies \/ UnderTls
  <2>1. Head(steps).op \notin EndOps
    BY <1>1 DEF EndOps
  <2>2. ~ForTheCaller
    BY <2>1, <1>1, <1>2, EndHead DEF ForTheCaller
  <2> QED
    BY <2>2, <1>1 DEF ConnectInv, UnitInv, Spoken, BehindSession
<1>7. CASE OwnReplies
  <2>1. Len(Unread) = 0 /\ ~spoke
    BY <1>1, <1>5, <1>7 DEF OwnReplies
  <2>2. 1 .. Len(Unread) = {} /\ Len(Unread) = awaited' - owed'
    <3>1. 1 .. Len(Unread) = {}
      BY <2>1
    <3>2. awaited' - owed' = 0
      <4>1. CASE awaited' = 1
        BY <4>1, <1>1
      <4>2. CASE awaited' = 2
        BY <4>2, <1>1
      <4> QED
        BY <4>1, <4>2, <1>1
    <3> QED
      BY <2>1, <3>1, <3>2
  <2> QED
    BY <2>1, <2>2, <1>1, <1>3, <1>4, <1>5 DEF OwnReplies, UnitInv, ConnectInv, Asking
<1>8. CASE UnderTls
  BY <1>1, <1>3, <1>4, <1>5, <1>8 DEF UnderTls, UnitInv, ConnectInv, Asking
<1> QED
  BY <1>6, <1>7, <1>8

\* Steps other than questions and dials.
LEMMA UpgradesStep == ASSUME ConnectInv, Upgrades PROVE ConnectInv'
<1>1. /\ outcome = "running" /\ Head(steps).op = "upgrade" /\ ahead = <<>> /\ OnwardsWith(sockets)
      /\ ahead' = <<>> /\ mishaps' = mishaps
      /\ UNCHANGED <<plan, targets, awaited, owed, wire, tasks, spoke>>
  BY DEF Upgrades, Running, NothingBuffered, Onwards, Dropped, quiet
<1>2. ConnectTypeInv
  BY DEF ConnectInv
<1>3. HeldInv'
  BY <1>1, NextHeld
<1>4. /\ steps' \in Seq(Steps) /\ plan' \in Plans /\ outcome' \in {"running", "ok"}
      /\ outcome' = "running" => steps' # <<>> /\ Orderly(plan', steps')
      /\ steps' = Tail(steps) /\ (outcome' = "ok" <=> steps' = <<>>)
  BY <1>1, <1>2, NextSteps
<1>5. ConnectTypeInv'
  BY <1>1, <1>2, <1>4 DEF ConnectTypeInv
<1>6. TlsRun(plan, steps')
  BY <1>1, <1>2, <1>4, StepFacts DEF FollowedBy
<1>7. Unread' = Unread
  BY <1>1 DEF Unread
<1>8. awaited = 0 /\ ((~spoke /\ owed = 0 /\ Len(Unread) = 0) \/ BehindSession)
  <2>1. ~UnderTls
    BY <1>1, <1>2, TlsHead DEF UnderTls, Ask
  <2>2. ~ForTheCaller
    BY <1>1, <1>2, EndHead DEF ForTheCaller, EndOps
  <2> QED
    BY <2>1, <2>2, <1>1, QuietModes DEF Asking
<1>9. UnitInv'
  <2>1. CASE ~spoke /\ owed = 0 /\ Len(Unread) = 0
    <3>1. 1 .. Len(Unread) = {}
      BY <2>1
    <3> QED
      BY <2>1, <3>1, <1>1, <1>7, <1>8 DEF UnitInv, OwnReplies
  <2>2. CASE BehindSession
    <3>1. \A i \in 1 .. Len(Unread) : Unread[i] = "tls"
      BY <2>2 DEF BehindSession
    <3>2. outcome' = "ok" => LastLayer(plan) = "tls"
      BY <1>4, <1>6, AtTheEnd
    <3>3. outcome' = "running" => UnderTls'
      <4>1. spoke' /\ TlsRun(plan', steps') /\ ~(awaited' > 0)
        BY <2>2, <1>1, <1>6 DEF BehindSession
      <4> QED
        BY <3>1, <4>1, <1>7 DEF UnderTls
    <3> QED
      BY <3>1, <3>2, <3>3, <1>1, <1>4, <1>7 DEF UnitInv
  <2> QED
    BY <1>8, <2>1, <2>2
<1> QED
  BY <1>3, <1>5, <1>9 DEF ConnectInv

LEMMA StripsStep == ASSUME ConnectInv, Strips PROVE ConnectInv'
<1>1. /\ outcome = "running" /\ Head(steps).op = "strip" /\ OnwardsWith(sockets)
      /\ ahead' = <<>> /\ mishaps' = mishaps \cup Dropped(ahead)
      /\ UNCHANGED <<plan, targets, awaited, owed, wire, tasks, spoke>>
  BY DEF Strips, Running, Onwards, quiet
<1>2. ConnectTypeInv
  BY DEF ConnectInv
<1>3. HeldInv'
  BY <1>1, NextHeld
<1>4. /\ steps' \in Seq(Steps) /\ plan' \in Plans /\ outcome' \in {"running", "ok"}
      /\ outcome' = "running" => steps' # <<>> /\ Orderly(plan', steps')
  BY <1>1, <1>2, NextSteps
<1>5. awaited = 0 /\ ~spoke /\ owed = 0 /\ Len(Unread) = 0
  <2>1. ~UnderTls
    BY <1>1, <1>2, TlsHead DEF UnderTls, Ask
  <2>2. ~ForTheCaller
    BY <1>1, <1>2, EndHead DEF ForTheCaller, EndOps
  <2> QED
    BY <2>1, <2>2, <1>1, QuietModes DEF Asking, BehindSession
<1>6. ahead = <<>> /\ wire = <<>>
  <2>1. ahead \in Seq(Args) /\ wire \in Seq(Args)
    BY <1>2 DEF ConnectTypeInv
  <2>2. Len(ahead) + Len(wire) = 0
    BY <2>1, <1>5 DEF Unread
  <2> QED
    BY <2>1, <2>2
<1>7. ConnectTypeInv'
  <2>1. mishaps' = {}
    BY <1>1, <1>2, <1>6 DEF ConnectTypeInv, Dropped
  <2> QED
    BY <2>1, <1>1, <1>2, <1>4, <1>6 DEF ConnectTypeInv
<1>8. Len(Unread') = 0 /\ 1 .. Len(Unread') = {}
  BY <1>1, <1>6 DEF Unread
<1>9. UnitInv'
  BY <1>1, <1>5, <1>8 DEF UnitInv, OwnReplies
<1> QED
  BY <1>3, <1>7, <1>9 DEF ConnectInv

\* The last steps of a tunnel, which leave the socket alone.
LEMMA LastStep ==
    ASSUME ConnectInv, outcome = "running", Head(steps).op \in EndOps, OnwardsWith(sockets),
           UNCHANGED <<plan, targets, awaited, owed, wire, ahead, spoke, mishaps>>,
           tasks \subseteq tasks', "leaked" \in tasks' => "leaked" \in tasks,
           Head(steps).op = "spawn" => tasks' \ {"leaked"} # {},
           tasks' # tasks => Head(steps).op \in {"spawn", "bind"}
    PROVE  ConnectInv'
<1>1. ConnectTypeInv /\ Head(steps).op \notin {"dial", "ask", "upgrade"}
  BY DEF ConnectInv, EndOps
<1>2. HeldInv'
  BY <1>1, NextHeld
<1>3. /\ steps' \in Seq(Steps) /\ plan' \in Plans /\ outcome' \in {"running", "ok"}
      /\ outcome' = "running" => steps' # <<>> /\ Orderly(plan', steps')
      /\ steps' = Tail(steps)
  BY <1>1, NextSteps
<1>4. ConnectTypeInv'
  BY <1>1, <1>3 DEF ConnectTypeInv
<1>5. Unread' = Unread
  BY DEF Unread
<1>6. awaited = 0 /\ ((~spoke /\ owed = 0 /\ Len(Unread) = 0) \/ ForTheCaller)
  <2>1. ~UnderTls
    BY <1>1, TlsHead DEF UnderTls, Ask
  <2> QED
    BY <2>1, <1>1, QuietModes DEF Asking, BehindSession
<1>7. UnitInv'
  <2>1. CASE ~spoke /\ owed = 0 /\ Len(Unread) = 0
    <3>1. 1 .. Len(Unread) = {}
      BY <2>1
    <3>2. Len(ahead) = 0
      <4>1. ahead \in Seq(Args) /\ wire \in Seq(Args)
        BY <1>1 DEF ConnectTypeInv
      <4> QED
        BY <4>1, <2>1 DEF Unread
    <3>3. ahead = <<>>
      BY <3>2, <1>1 DEF ConnectTypeInv
    <3> QED
      BY <2>1, <3>1, <3>3, <1>3, <1>5, <1>6 DEF UnitInv, OwnReplies
  <2>2. CASE ForTheCaller
    <3>1. EndRun(steps')
      BY <2>2, <1>1, <1>3, EndHead DEF ForTheCaller
    <3>2. Len(Unread) = 1 /\ Unread[1] = LastLayer(plan)
      BY <2>2 DEF ForTheCaller
    <3>3. \A i \in 1 .. Len(Unread) : Unread[i] = LastLayer(plan)
      BY <3>2
    <3>4. ForTheCaller'
      BY <2>2, <3>1, <1>5 DEF ForTheCaller
    <3> QED
      BY <2>2, <3>3, <3>4, <1>3, <1>5 DEF UnitInv, ForTheCaller
  <2> QED
    BY <1>6, <2>1, <2>2
<1> QED
  BY <1>2, <1>4, <1>7 DEF ConnectInv

LEMMA LastSteps == ASSUME ConnectInv, Creates \/ Spawns \/ Binds \/ Probes PROVE ConnectInv'
<1>1. CASE Creates \/ Probes
  BY <1>1, LastStep DEF Creates, Probes, Running, Onwards, quiet, EndOps
<1>2. CASE Spawns
  <2>1. /\ outcome = "running" /\ Head(steps).op = "spawn" /\ OnwardsWith(sockets)
        /\ UNCHANGED <<plan, targets, awaited, owed, wire, ahead, spoke, mishaps>>
        /\ tasks' = tasks \cup (IF plan.userspace THEN {"reader", "writer", "loop"} ELSE {"forward"})
    BY <1>2 DEF Spawns, Running, Onwards, quiet
  <2>2. /\ tasks \subseteq tasks' /\ ("leaked" \in tasks' => "leaked" \in tasks)
        /\ "reader" \in tasks' \/ "forward" \in tasks'
    BY <2>1
  <2>3. tasks' \ {"leaked"} # {}
    BY <2>2
  <2>4. Head(steps).op \in EndOps
    BY <2>1 DEF EndOps
  <2> QED
    BY <2>1, <2>2, <2>3, <2>4, LastStep
<1>3. CASE Binds
  BY <1>3, LastStep DEF Binds, Running, Onwards, quiet, EndOps
<1> QED
  BY <1>1, <1>2, <1>3

\* A call that ends holds nothing, and so does the next attempt.
LEMMA GivesUpStep ==
    ASSUME ConnectInv, outcome = "running", NEW o \in {"err", "dropped"}, GivesUp(o)
    PROVE  ConnectInv'
<1>1. /\ sockets' = {} /\ wire' = <<>> /\ ahead' = <<>> /\ awaited' = 0 /\ owed' = 0 /\ spoke' = FALSE
      /\ tasks' = LeavesTasks /\ plan' = plan /\ mishaps' = mishaps
      /\ (steps' = Procedure(plan) /\ outcome' = "running") \/ (steps' = <<>> /\ outcome' = o)
  BY DEF GivesUp
<1>2. ConnectTypeInv /\ HeldInv /\ plan \in Plans
  BY DEF ConnectInv, ConnectTypeInv
<1>3. /\ Fit(plan, Procedure(plan)) /\ Procedure(plan) # <<>>
      /\ plan.purpose # "values" => Dial("data") \in Range(Procedure(plan))
      /\ plan.purpose \in {"values", "direct", "remote"} => Dial("control") \in Range(Procedure(plan))
      /\ Tunnels(plan) => Step("spawn") \in Range(Procedure(plan))
  BY <1>2, FitProcedure
<1>4. Len(Unread') = 0 /\ 1 .. Len(Unread') = {}
  BY <1>1 DEF Unread
<1>5. UnitInv'
  BY <1>1, <1>4 DEF UnitInv, OwnReplies
<1>6. ConnectTypeInv'
  <2>1. wire' \in Seq(Args) /\ ahead' \in Seq(Args) /\ <<>> \in Seq(Steps)
    BY <1>1
  <2> QED
    <3>1. awaited' \in 0 .. 2 /\ owed' \in 0 .. 2
      BY <1>1
    <3>2. spoke' \in BOOLEAN
      BY <1>1
    <3>3. plan' \in Plans /\ mishaps' = {} /\ outcome' \in {"running", "ok", "err", "dropped"}
      BY <1>1, <1>2 DEF ConnectTypeInv
    <3>4. steps' \in Seq(Steps) /\ (outcome' = "running" => steps' # <<>> /\ Orderly(plan', steps'))
      BY <2>1, <1>1, <1>3 DEF Fit
    <3> QED
      BY <2>1, <3>1, <3>2, <3>3, <3>4 DEF ConnectTypeInv
<1>7. Returned' = Returned /\ \A d \in Returned : Dial(d) \in Range(Procedure(plan))
  <2>1. Returned' = Returned
    BY <1>1 DEF Returned
  <2> QED
    BY <2>1, <1>3, ReturnedFacts
<1>8. "leaked" \in tasks' => plan.userspace
  <2>1. FollowedBy(plan, Head(steps), Tail(steps))
    BY <1>2, StepFacts
  <2>2. "leaked" \in tasks' => "leaked" \in tasks \/ Running("bind")
    BY <1>1 DEF LeavesTasks
  <2> QED
    BY <2>1, <2>2, <1>2 DEF HeldInv, Running, FollowedBy
<1>9. tasks' \subseteq {"leaked"} /\ tasks' \ {"leaked"} = {}
  BY <1>1 DEF LeavesTasks
<1>10. HeldInv'
  BY <1>1, <1>3, <1>7, <1>8, <1>9 DEF HeldInv
<1> QED
  BY <1>5, <1>6, <1>10 DEF ConnectInv

LEMMA UnitsConcat ==
    ASSUME NEW a \in Seq(Args), NEW b \in Seq(Args)
    PROVE  /\ a \o b \in Seq(Args) /\ Len(a \o b) = Len(a) + Len(b)
           /\ Len(a) \in Nat /\ Len(b) \in Nat
           /\ \A i \in 1 .. Len(a) + Len(b) : (a \o b)[i] = IF i <= Len(a) THEN a[i] ELSE b[i - Len(a)]
BY ConcatProperties

\* What is read is the first unit; the rest stays in order, wherever it is kept.
FirstUnits(k, a, w) == a \o SubSeq(w, 1, k)

UnitRead(k, a, w) ==
    LET v == FirstUnits(k, a, w)
        b == SubSeq(w, k + 1, Len(w)) IN
      /\ Tail(v) \in Seq(Args) /\ b \in Seq(Args) /\ Len(Tail(v)) = Len(a) + k - 1
      /\ Len(a \o w) \in Nat \ {0} /\ Head(v) = (a \o w)[1]
      /\ Len(Tail(v) \o b) = Len(a \o w) - 1
      /\ \A i \in 1 .. Len(a \o w) - 1 : (Tail(v) \o b)[i] = (a \o w)[i + 1]

LEMMA ReadUnits ==
    ASSUME NEW k \in Nat, NEW a \in Seq(Args), NEW w \in Seq(Args), k <= Len(w),
           FirstUnits(k, a, w) # <<>>
    PROVE  UnitRead(k, a, w)
<1> DEFINE f == SubSeq(w, 1, k)
           b == SubSeq(w, k + 1, Len(w))
           v == a \o f
           t == Tail(v)
           u == a \o w
           n == t \o b
<1>1. /\ f \in Seq(Args) /\ Len(f) = k /\ \A i \in 1 .. k : f[i] = w[i]
  OBVIOUS
<1>2. /\ b \in Seq(Args) /\ Len(b) = Len(w) - k /\ \A i \in 1 .. Len(w) - k : b[i] = w[i + k]
  OBVIOUS
<1>4. v # <<>>
  BY DEF FirstUnits
<1> HIDE DEF f, b
<1>3. /\ v \in Seq(Args) /\ Len(v) = Len(a) + k /\ Len(a) \in Nat /\ Len(w) \in Nat
      /\ \A i \in 1 .. Len(a) + k : v[i] = IF i <= Len(a) THEN a[i] ELSE f[i - Len(a)]
  BY <1>1, UnitsConcat
<1>8. /\ u \in Seq(Args) /\ Len(u) = Len(a) + Len(w)
      /\ \A i \in 1 .. Len(a) + Len(w) : u[i] = IF i <= Len(a) THEN a[i] ELSE w[i - Len(a)]
  BY UnitsConcat
<1> HIDE DEF v, u
<1>5. Len(v) > 0 /\ Len(a) + k > 0 /\ Head(v) = v[1]
  BY <1>3, <1>4
<1>6. /\ t \in Seq(Args) /\ Len(t) = Len(a) + k - 1 /\ \A i \in 1 .. Len(a) + k - 1 : t[i] = v[i + 1]
  BY <1>3, <1>4
<1> HIDE DEF t
<1>9. \A i \in 1 .. Len(a) + k : v[i] = u[i]
  <2> TAKE i \in 1 .. Len(a) + k
  <2>0. i \in 1 .. Len(a) + Len(w)
    BY <1>3
  <2>1. CASE i <= Len(a)
    BY <2>0, <2>1, <1>3, <1>8
  <2>2. CASE ~(i <= Len(a))
    <3>1. i - Len(a) \in 1 .. k
      BY <2>2, <1>3
    <3>2. v[i] = f[i - Len(a)] /\ u[i] = w[i - Len(a)]
      BY <2>0, <2>2, <1>3, <1>8
    <3> QED
      BY <3>1, <3>2, <1>1
  <2> QED
    BY <2>1, <2>2
<1>10. /\ Len(n) = Len(t) + Len(b)
       /\ \A i \in 1 .. Len(t) + Len(b) : n[i] = IF i <= Len(t) THEN t[i] ELSE b[i - Len(t)]
  BY <1>2, <1>6, UnitsConcat
<1> HIDE DEF n
<1>11. Len(t) + Len(b) = Len(a) + Len(w) - 1
  BY <1>2, <1>3, <1>6
<1>12. ASSUME NEW i \in 1 .. Len(u) - 1 PROVE n[i] = u[i + 1]
  <2>0. i \in 1 .. Len(t) + Len(b) /\ i \in 1 .. Len(a) + Len(w) - 1
    BY <1>8, <1>11
  <2>1. CASE i <= Len(t)
    <3>1. i \in 1 .. Len(a) + k - 1 /\ i + 1 \in 1 .. Len(a) + k
      <4>1. i \in Nat /\ i >= 1 /\ i <= Len(a) + k - 1
        BY <2>0, <2>1, <1>6
      <4> QED
        BY <4>1, <1>3
    <3>2. n[i] = t[i]
      BY <2>0, <2>1, <1>10
    <3> QED
      BY <3>1, <3>2, <1>6, <1>9
  <2>2. CASE ~(i <= Len(t))
    <3>1. /\ i - Len(t) \in 1 .. Len(w) - k /\ (i - Len(t)) + k = (i + 1) - Len(a)
          /\ ~(i + 1 <= Len(a)) /\ i + 1 \in 1 .. Len(a) + Len(w)
      BY <2>0, <2>2, <1>2, <1>3, <1>6
    <3>2. n[i] = b[i - Len(t)]
      BY <2>0, <2>2, <1>10
    <3>3. b[i - Len(t)] = w[(i - Len(t)) + k]
      BY <3>1, <1>2
    <3>4. u[i + 1] = w[(i + 1) - Len(a)]
      BY <3>1, <1>8
    <3> QED
      BY <3>1, <3>2, <3>3, <3>4
  <2> QED
    BY <2>1, <2>2
<1>13. Head(v) = u[1]
  <2>1. 1 \in 1 .. Len(a) + k
    BY <1>3, <1>5
  <2> QED
    BY <2>1, <1>5, <1>9
<1>14. Len(u) \in Nat \ {0} /\ Len(n) = Len(u) - 1
  BY <1>3, <1>5, <1>8, <1>10, <1>11
<1> QED
  BY <1>2, <1>6, <1>12, <1>13, <1>14 DEF UnitRead, FirstUnits, v, f, b, t, u, n

LEMMA ReadsStep == ASSUME ConnectInv, NEW k \in 0 .. 3, Reads(k) PROVE ConnectInv'
<1> DEFINE layer == Head(steps).arg
           avail == ahead \o SubSeq(wire, 1, k)
<1>1. /\ outcome = "running" /\ Head(steps).op = "ask" /\ awaited > 0
      /\ IF Buffered(layer) THEN ahead = <<>> => k > 0 ELSE ahead = <<>> /\ k = 1
      /\ k <= Len(wire) /\ avail # <<>>
      /\ ahead' = Tail(avail) /\ wire' = SubSeq(wire, k + 1, Len(wire))
      /\ mishaps' = mishaps \cup (IF Head(avail) = layer THEN {} ELSE {"misread"})
      /\ awaited' = awaited - 1
      /\ IF awaited = 1 THEN OnwardsWith(sockets) ELSE UNCHANGED <<steps, outcome, sockets>>
      /\ UNCHANGED <<plan, targets, owed, tasks, spoke>>
  BY DEF Reads, Running, Onwards
<1>2. ConnectTypeInv /\ UnitInv /\ HeldInv /\ Asking
  BY <1>1 DEF ConnectInv, Asking
<1>3. /\ ahead \in Seq(Args) /\ wire \in Seq(Args) /\ awaited \in 1 .. 2 /\ owed \in 0 .. 2
      /\ mishaps = {}
  BY <1>1, <1>2 DEF ConnectTypeInv
<1>4. /\ ahead' \in Seq(Args) /\ wire' \in Seq(Args) /\ Len(ahead') = Len(ahead) + k - 1
      /\ Len(Unread) \in Nat \ {0} /\ Head(avail) = Unread[1]
      /\ Len(Unread') = Len(Unread) - 1
      /\ \A i \in 1 .. Len(Unread') : Unread'[i] = Unread[i + 1]
  <2> DEFINE v == FirstUnits(k, ahead, wire)
             b == SubSeq(wire, k + 1, Len(wire))
  <2>1. k \in Nat /\ k <= Len(wire) /\ v # <<>> /\ v = avail
    <3>1. k \in Nat
      OBVIOUS
    <3>2. v = avail
      BY DEF FirstUnits
    <3> HIDE DEF avail, v
    <3>3. k <= Len(wire) /\ avail # <<>>
      BY <1>1
    <3> QED
      BY <3>1, <3>2, <3>3
  <2>2. UnitRead(k, ahead, wire)
    BY <2>1, <1>3, ReadUnits
  <2>3. /\ Tail(v) \in Seq(Args) /\ b \in Seq(Args) /\ Len(Tail(v)) = Len(ahead) + k - 1
        /\ Len(ahead \o wire) \in Nat \ {0} /\ Head(v) = (ahead \o wire)[1]
        /\ Len(Tail(v) \o b) = Len(ahead \o wire) - 1
        /\ \A i \in 1 .. Len(ahead \o wire) - 1 : (Tail(v) \o b)[i] = (ahead \o wire)[i + 1]
    BY <2>2 DEF UnitRead
  <2> HIDE DEF v, avail
  <2>4. ahead' = Tail(v) /\ wire' = b
    BY <2>1, <1>1
  <2> HIDE DEF b
  <2>5. Unread = ahead \o wire /\ Unread' = Tail(v) \o b
    BY <2>4 DEF Unread
  <2> DEFINE u == Unread
             n == Tail(v) \o b
  <2>6. /\ Len(u) \in Nat \ {0} /\ Head(v) = u[1] /\ Len(n) = Len(u) - 1
        /\ \A i \in 1 .. Len(u) - 1 : n[i] = u[i + 1]
    BY <2>3, <2>5
  <2>7. Unread' = n
    BY <2>5
  <2> HIDE DEF n
  <2> QED
    BY <2>1, <2>3, <2>4, <2>6, <2>7
<1>5. OwnReplies \/ Spoken \/ UnderTls
  <2>1. ~ForTheCaller /\ ~BehindSession
    BY <1>1 DEF ForTheCaller, BehindSession
  <2> QED
    BY <2>1, <1>1, <1>2 DEF UnitInv
<1>6. UnderTls => layer = "tls" /\ TlsRun(plan, Tail(steps))
  <2> SUFFICES ASSUME UnderTls PROVE layer = "tls" /\ TlsRun(plan, Tail(steps))
    OBVIOUS
  <2>1. Head(steps) = Ask("tls") /\ TlsRun(plan, Tail(steps))
    BY <1>1, <1>2, TlsHead DEF UnderTls
  <2> QED
    BY <2>1 DEF Ask
<1>7. Unread[1] = layer
  <2>1. CASE OwnReplies
    BY <2>1, <1>4 DEF OwnReplies
  <2>2. CASE Spoken
    BY <2>2, <1>3 DEF Spoken
  <2>3. CASE UnderTls
    BY <2>3, <1>2, <1>4, <1>6 DEF UnderTls
  <2> QED
    BY <1>5, <2>1, <2>2, <2>3
<1>8. mishaps' = {} /\ awaited' \in 0 .. 1 /\ owed' \in 0 .. 2
  <2>1. mishaps' = {}
    BY <1>1, <1>3, <1>4, <1>7
  <2> QED
    BY <2>1, <1>1, <1>3
<1> HIDE DEF avail
<1>9. CASE awaited = 2
  <2>1. UNCHANGED <<plan, steps, outcome, sockets, tasks, owed, spoke>> /\ awaited' = 1
    BY <1>1, <1>9
  <2>2. ConnectTypeInv'
    BY <2>1, <1>2, <1>4, <1>8 DEF ConnectTypeInv
  <2>3. HeldInv'
    BY <2>1, <1>2 DEF HeldInv, Returned
  <2>4. Asking' /\ Following' = Following
    BY <2>1, <1>2 DEF Asking, Following
  <2>5. CASE OwnReplies
    <3>1. ~spoke /\ Len(Unread) = 2 - owed /\ \A i \in 1 .. Len(Unread) : Unread[i] = layer
      BY <2>5, <1>9 DEF OwnReplies
    <3>2. Len(Unread') = 1 - owed
      BY <3>1, <1>3, <1>4
    <3>3. \A i \in 1 .. Len(Unread') : Unread'[i] = layer
      BY <3>1, <1>4
    <3>4. OwnReplies'
      BY <2>1, <2>4, <3>1, <3>2, <3>3 DEF OwnReplies
    <3> QED
      BY <2>1, <2>2, <2>3, <3>4, <1>1 DEF UnitInv, ConnectInv
  <2>6. CASE Spoken
    <3>1. /\ spoke /\ owed = 0 /\ Len(Unread) = 3 /\ Unread[2] = layer
          /\ \/ Following = "upgrade" /\ Unread[3] = "tls"
             \/ Following \in {"end", "spawn", "create"} /\ Unread[3] = LastLayer(plan)
      BY <2>6, <1>9 DEF Spoken
    <3>2. Len(Unread') = 2 /\ Unread'[1] = Unread[2] /\ Unread'[2] = Unread[3]
      BY <3>1, <1>4
    <3>3. \A i \in 1 .. awaited' : Unread'[i] = Head(steps').arg
      BY <2>1, <3>1, <3>2
    <3>4. Unread'[awaited' + 1] = Unread[3] /\ Len(Unread') = awaited' + 1 /\ awaited' > 0
      BY <2>1, <3>2
    <3>5. LastLayer(plan') = LastLayer(plan)
      BY <2>1
    <3>6. Spoken'
      BY <2>1, <2>4, <3>1, <3>3, <3>4, <3>5 DEF Spoken
    <3> QED
      BY <2>1, <2>2, <2>3, <3>6, <1>1 DEF UnitInv, ConnectInv
  <2>7. CASE UnderTls
    <3>1. \A i \in 1 .. Len(Unread') : Unread'[i] = "tls"
      BY <2>7, <1>2, <1>4 DEF UnderTls
    <3>2. UnderTls'
      BY <2>1, <2>4, <2>7, <3>1 DEF UnderTls
    <3> QED
      BY <2>1, <2>2, <2>3, <3>2, <1>1 DEF UnitInv, ConnectInv
  <2> QED
    BY <1>5, <2>5, <2>6, <2>7
<1>10. CASE awaited = 1
  <2>1. OnwardsWith(sockets) /\ UNCHANGED <<plan, tasks, owed, spoke>> /\ awaited' = 0
    BY <1>1, <1>10
  <2>2. HeldInv'
    BY <2>1, <1>1, NextHeld
  <2>3. /\ steps' \in Seq(Steps) /\ plan' \in Plans /\ outcome' \in {"running", "ok"}
        /\ outcome' = "running" => steps' # <<>> /\ Orderly(plan', steps')
        /\ steps' = Tail(steps) /\ (outcome' = "ok" <=> steps' = <<>>)
    BY <2>1, <1>1, <1>2, NextSteps
  <2>4. ConnectTypeInv'
    BY <2>1, <2>3, <1>2, <1>4, <1>8 DEF ConnectTypeInv
  <2>5. Following = After(steps') /\ FollowedBy(plan, Head(steps), steps')
    BY <2>3, <1>1, <1>2, StepFacts
  <2>6. CASE OwnReplies
    <3>1. Len(Unread) = 1 /\ owed = 0 /\ ~spoke
      BY <2>6, <1>3, <1>4, <1>10 DEF OwnReplies
    <3>2. Len(Unread') = 0
      BY <3>1, <1>4
    <3>3. 1 .. Len(Unread') = {} /\ Len(ahead') = 0
      <4>1. Len(Unread') = Len(ahead') + Len(wire')
        <5> DEFINE a == ahead'
                   w == wire'
        <5>1. a \in Seq(Args) /\ w \in Seq(Args)
          BY <1>4
        <5> HIDE DEF a, w
        <5>2. Len(a \o w) = Len(a) + Len(w)
          BY <5>1, UnitsConcat
        <5> QED
          BY <5>2 DEF a, w, Unread
      <4> QED
        BY <3>2, <4>1, <1>4
    <3>4. ahead' = <<>>
      BY <3>3, <1>4
    <3> QED
      BY <2>1, <2>2, <2>4, <3>1, <3>2, <3>3, <3>4 DEF UnitInv, OwnReplies, ConnectInv
  <2>7. CASE Spoken
    <3>1. /\ spoke /\ owed = 0 /\ Len(Unread) = 2
          /\ \/ Following = "upgrade" /\ Unread[2] = "tls"
             \/ Following \in {"end", "spawn", "create"} /\ Unread[2] = LastLayer(plan)
      BY <2>7, <1>10 DEF Spoken
    <3>2. Len(Unread') = 1 /\ Unread'[1] = Unread[2] /\ \A i \in 1 .. Len(Unread') : Unread'[i] = Unread[2]
      BY <3>1, <1>4
    <3>3. steps' # <<>> => Head(steps').op = After(steps')
      BY <2>3 DEF After
    <3>4. After(<<>>) = "end"
      BY AtTheEnd
    <3>5. CASE Following = "upgrade"
      <4>1. outcome' = "running" /\ Head(steps').op = "upgrade" /\ Unread[2] = "tls"
        BY <2>3, <2>5, <3>1, <3>3, <3>4, <3>5
      <4>2. BehindSession'
        BY <4>1, <2>1, <3>1, <3>2 DEF BehindSession
      <4> QED
        BY <4>1, <4>2, <2>2, <2>4 DEF UnitInv, ConnectInv
    <3>6. CASE Following \in {"end", "spawn", "create"}
      <4>1. layer # "plain" /\ (layer = "tls" => LastLayer(plan) = "tls") /\ Unread[2] = LastLayer(plan)
        BY <2>5, <3>1, <3>6, <1>1 DEF FollowedBy
      <4>2. ahead' # <<>> => LastLayer(plan') = "tls"
        <5>1. CASE Buffered(layer)
          BY <5>1, <4>1, <2>1 DEF Buffered
        <5>2. CASE ~Buffered(layer)
          <6>1. Len(ahead') = 0
            BY <5>2, <1>1, <1>4
          <6> QED
            BY <6>1, <1>4
        <5> QED
          BY <5>1, <5>2
      <4>3. outcome' = "running" => ForTheCaller'
        <5> SUFFICES ASSUME outcome' = "running" PROVE ForTheCaller'
          OBVIOUS
        <5>1. Head(steps').op = Following /\ Len(steps') # 0
          BY <2>3, <2>5, <3>3
        <5>2. Head(steps').op \in {"spawn", "create"}
          <6>1. Head(steps') \in Steps
            BY <2>3
          <6>2. Head(steps').op # "end"
            BY <6>1 DEF Steps, EndOps
          <6> QED
            BY <6>2, <5>1, <3>6
        <5>3. FollowedBy(plan', Head(steps'), Tail(steps')) /\ Head(steps') \in Steps
              /\ Tail(steps') \in Seq(Steps) /\ steps' = Pre(Head(steps'), Tail(steps'))
          <6>1. steps' \in Seq(Steps) /\ steps' # <<>> /\ Orderly(plan', steps')
            BY <2>3
          <6> DEFINE s == steps'
                     h == Head(s)
                     t == Tail(s)
                     p == plan'
          <6>2. h \in Steps /\ t \in Seq(Steps) /\ s = Pre(h, t)
            BY <6>1, PreHead
          <6>3. Orderly(p, s)
            BY <6>1
          <6> HIDE DEF s, h, t, p
          <6>4. FollowedBy(p, h, t)
            BY <6>2, <6>3, OrderlyPre
          <6> QED
            BY <6>2, <6>4 DEF s, h, t, p
        <5>4. EndRun(steps')
          <6>1. EndRun(Tail(steps')) /\ Head(steps').op \in EndOps
            BY <5>2, <5>3 DEF FollowedBy, EndOps
          <6> QED
            BY <6>1, <5>3, EndRunPre
        <5> QED
          BY <5>4, <4>1, <4>2, <3>1, <3>2, <2>1 DEF ForTheCaller
      <4>4. outcome' = "ok" =>
              /\ \A i \in 1 .. Len(Unread') : Unread'[i] = LastLayer(plan')
              /\ ahead' # <<>> => LastLayer(plan') = "tls"
        BY <4>1, <4>2, <3>2, <2>1
      <4> QED
        BY <4>3, <4>4, <2>2, <2>4 DEF UnitInv, ConnectInv
    <3> QED
      BY <3>1, <3>5, <3>6
  <2>8. CASE UnderTls
    <3>1. \A i \in 1 .. Len(Unread') : Unread'[i] = "tls"
      BY <2>8, <1>2, <1>4 DEF UnderTls
    <3>2. TlsRun(plan', steps') /\ spoke' /\ ~(awaited' > 0)
      BY <2>1, <2>3, <2>8, <1>6 DEF UnderTls
    <3>3. UnderTls'
      BY <3>1, <3>2 DEF UnderTls
    <3>4. outcome' = "ok" => LastLayer(plan') = "tls"
      BY <3>2, <2>3, AtTheEnd
    <3> QED
      BY <3>1, <3>3, <3>4, <2>2, <2>4 DEF UnitInv, ConnectInv
  <2> QED
    BY <1>5, <2>6, <2>7, <2>8
<1> QED
  BY <1>3, <1>9, <1>10

\* A unit arrives behind the others.
LEMMA UnitArrives ==
    ASSUME ConnectTypeInv, NEW x \in Args, wire' = Append(wire, x), ahead' = ahead
    PROVE  /\ wire' \in Seq(Args) /\ ahead' \in Seq(Args) /\ Len(Unread) \in Nat
           /\ Len(Unread') = Len(Unread) + 1 /\ Unread'[Len(Unread) + 1] = x
           /\ \A i \in 1 .. Len(Unread) : Unread'[i] = Unread[i]
<1> DEFINE u == ahead \o wire
           v == ahead \o Append(wire, x)
<1>1. ahead \in Seq(Args) /\ wire \in Seq(Args)
  BY DEF ConnectTypeInv
<1>2. Append(wire, x) \in Seq(Args) /\ Len(Append(wire, x)) = Len(wire) + 1
      /\ Append(wire, x)[Len(wire) + 1] = x /\ \A i \in 1 .. Len(wire) : Append(wire, x)[i] = wire[i]
  BY <1>1
<1>3. /\ Len(u) = Len(ahead) + Len(wire) /\ Len(ahead) \in Nat /\ Len(wire) \in Nat
      /\ \A i \in 1 .. Len(ahead) + Len(wire) : u[i] = IF i <= Len(ahead) THEN ahead[i] ELSE wire[i - Len(ahead)]
  BY <1>1, UnitsConcat
<1> DEFINE w == Append(wire, x)
<1> HIDE DEF w
<1>4. /\ Len(ahead \o w) = Len(ahead) + Len(w)
      /\ \A i \in 1 .. Len(ahead) + Len(w) : (ahead \o w)[i] = IF i <= Len(ahead) THEN ahead[i] ELSE w[i - Len(ahead)]
  <2>1. w \in Seq(Args)
    BY <1>2 DEF w
  <2> QED
    BY <1>1, <2>1, UnitsConcat
<1>5. /\ v = ahead \o w /\ Len(w) = Len(wire) + 1 /\ w[Len(wire) + 1] = x
      /\ \A i \in 1 .. Len(wire) : w[i] = wire[i]
  BY <1>2 DEF w
<1>6. Unread = u /\ Unread' = v
  BY DEF Unread
<1> HIDE DEF u, v
<1>7. Len(v) = Len(u) + 1 /\ v[Len(u) + 1] = x
  <2>1. Len(v) = Len(u) + 1
    BY <1>3, <1>4, <1>5
  <2>2. /\ Len(u) + 1 \in 1 .. Len(ahead) + Len(w) /\ ~(Len(u) + 1 <= Len(ahead))
        /\ (Len(u) + 1) - Len(ahead) = Len(wire) + 1
    BY <1>3, <1>5
  <2> QED
    BY <2>1, <2>2, <1>4, <1>5
<1>8. ASSUME NEW i \in 1 .. Len(u) PROVE v[i] = u[i]
  <2>1. i \in 1 .. Len(ahead) + Len(w) /\ i \in 1 .. Len(ahead) + Len(wire)
    BY <1>3, <1>5
  <2>2. CASE i <= Len(ahead)
    BY <2>1, <2>2, <1>3, <1>4, <1>5
  <2>3. CASE ~(i <= Len(ahead))
    <3>1. i - Len(ahead) \in 1 .. Len(wire)
      BY <2>1, <2>3, <1>3
    <3>2. v[i] = w[i - Len(ahead)] /\ u[i] = wire[i - Len(ahead)]
      BY <2>1, <2>3, <1>3, <1>4, <1>5
    <3> QED
      BY <3>1, <3>2, <1>5
  <2> QED
    BY <2>2, <2>3
<1>9. Len(u) \in Nat
  BY <1>3
<1> QED
  BY <1>1, <1>2, <1>6, <1>7, <1>8, <1>9

LEMMA DeviceRepliesStep == ASSUME ConnectInv, DeviceReplies PROVE ConnectInv'
<1> DEFINE x == Head(steps).arg
<1>1. /\ outcome = "running" /\ owed > 0 /\ owed' = owed - 1 /\ wire' = Append(wire, x)
      /\ UNCHANGED <<plan, targets, steps, awaited, ahead, sockets, tasks, spoke, outcome, mishaps>>
  BY DEF DeviceReplies
<1>2. ConnectTypeInv /\ UnitInv /\ HeldInv
  BY DEF ConnectInv
<1>3. owed \in 1 .. 2 /\ owed' \in 0 .. 1 /\ awaited \in 0 .. 2
  BY <1>1, <1>2 DEF ConnectTypeInv
<1>4. x \in Args
  <2>1. Head(steps) \in Steps
    BY <1>1, <1>2, StepFacts
  <2> QED
    BY <2>1 DEF Steps
<1>5. /\ wire' \in Seq(Args) /\ ahead' \in Seq(Args) /\ Len(Unread) \in Nat
      /\ Len(Unread') = Len(Unread) + 1 /\ Unread'[Len(Unread) + 1] = x
      /\ \A i \in 1 .. Len(Unread) : Unread'[i] = Unread[i]
  BY <1>1, <1>2, <1>4, UnitArrives
<1> HIDE DEF x
<1>6. ConnectTypeInv'
  BY <1>1, <1>2, <1>3, <1>5 DEF ConnectTypeInv
<1>7. HeldInv'
  BY <1>1, <1>2 DEF HeldInv, Returned
<1>8. Asking' <=> Asking
  BY <1>1 DEF Asking
<1>9. CASE OwnReplies
  <2>1. ~spoke /\ Len(Unread) = awaited - owed /\ \A i \in 1 .. Len(Unread) : Unread[i] = x
    BY <1>9 DEF OwnReplies, x
  <2>2. awaited > 0 /\ Len(Unread') = awaited' - owed'
    BY <2>1, <1>1, <1>3, <1>5
  <2>3. \A i \in 1 .. Len(Unread') : Unread'[i] = x
    BY <2>1, <1>5
  <2>4. OwnReplies'
    BY <2>1, <2>2, <2>3, <1>1, <1>8, <1>9 DEF OwnReplies, x
  <2> QED
    BY <2>4, <1>1, <1>6, <1>7 DEF UnitInv, ConnectInv
<1>10. CASE UnderTls
  <2>1. Asking => x = "tls"
    BY <1>1, <1>2, <1>10, TlsHead DEF UnderTls, Asking, Ask, x
  <2>2. Asking => \A i \in 1 .. Len(Unread') : Unread'[i] = "tls"
    BY <2>1, <1>5, <1>10 DEF UnderTls
  <2>3. UnderTls'
    BY <2>2, <1>1, <1>8, <1>10 DEF UnderTls
  <2> QED
    BY <2>3, <1>1, <1>6, <1>7 DEF UnitInv, ConnectInv
<1> QED
  BY <1>1, <1>2, <1>3, <1>9, <1>10 DEF UnitInv, Spoken, BehindSession, ForTheCaller

LEMMA DeviceSpeaksFirstStep == ASSUME ConnectInv, DeviceSpeaksFirst PROVE ConnectInv'
<1>1. /\ outcome = "running" /\ Head(steps).op = "ask" /\ awaited > 0 /\ owed = 0 /\ ~spoke /\ spoke'
      /\ UNCHANGED <<plan, targets, steps, awaited, owed, ahead, sockets, tasks, outcome, mishaps>>
  BY DEF DeviceSpeaksFirst, Running
<1>2. ConnectTypeInv /\ UnitInv /\ HeldInv
  BY DEF ConnectInv
<1>3. PICK x \in Args :
        /\ wire' = Append(wire, x)
        /\ \/ Following = "upgrade" /\ x = "tls"
           \/ Following \in {"end", "spawn", "create"} /\ x = LastLayer(plan)
  <2>1. plan.purpose \in {"values", "service", "tunnel", "direct", "remote", "shim"}
    BY <1>2, ConnectAssumption DEF ConnectTypeInv, Plans
  <2>2. LastLayer(plan) \in Args /\ "tls" \in Args
    BY <2>1, LastLayers DEF Args
  <2> QED
    BY <2>2 DEF DeviceSpeaksFirst
<1>4. awaited \in 1 .. 2
  BY <1>1, <1>2 DEF ConnectTypeInv
<1>5. /\ wire' \in Seq(Args) /\ ahead' \in Seq(Args) /\ Len(Unread) \in Nat
      /\ Len(Unread') = Len(Unread) + 1 /\ Unread'[Len(Unread) + 1] = x
      /\ \A i \in 1 .. Len(Unread) : Unread'[i] = Unread[i]
  BY <1>1, <1>2, <1>3, UnitArrives
<1>6. ConnectTypeInv'
  <2>1. spoke' \in BOOLEAN
    BY <1>1
  <2> QED
    BY <2>1, <1>1, <1>2, <1>5 DEF ConnectTypeInv
<1>7. HeldInv'
  BY <1>1, <1>2 DEF HeldInv, Returned
<1>8. OwnReplies
  BY <1>1, <1>2 DEF UnitInv, Spoken, BehindSession, UnderTls, ForTheCaller
<1>9. Len(Unread) = awaited /\ \A i \in 1 .. awaited : Unread[i] = Head(steps).arg
  BY <1>1, <1>4, <1>8 DEF OwnReplies
<1>10. /\ Len(Unread') = awaited' + 1 /\ Unread'[awaited' + 1] = x
       /\ \A i \in 1 .. awaited' : Unread'[i] = Head(steps').arg
  BY <1>1, <1>5, <1>9
<1>11. Asking' /\ Following' = Following /\ LastLayer(plan') = LastLayer(plan)
  BY <1>1 DEF Asking, Following
<1>12. Spoken'
  BY <1>1, <1>3, <1>10, <1>11 DEF Spoken
<1> QED
  BY <1>1, <1>6, <1>7, <1>12 DEF UnitInv, ConnectInv

LEMMA ConnectInitInv == ConnectInit => ConnectInv
<1> SUFFICES ASSUME ConnectInit PROVE ConnectInv
  OBVIOUS
<1>1. /\ plan \in Plans /\ steps = Procedure(plan) /\ awaited = 0 /\ owed = 0
      /\ wire = <<>> /\ ahead = <<>> /\ spoke = FALSE
      /\ sockets = {} /\ tasks = {} /\ outcome = "running" /\ mishaps = {}
  BY DEF ConnectInit
<1>2. /\ Fit(plan, steps) /\ steps # <<>>
      /\ plan.purpose # "values" => Dial("data") \in Range(steps)
      /\ plan.purpose \in {"values", "direct", "remote"} => Dial("control") \in Range(steps)
      /\ Tunnels(plan) => Step("spawn") \in Range(steps)
  BY <1>1, FitProcedure
<1>3. ConnectTypeInv
  <2>1. wire \in Seq(Args) /\ ahead \in Seq(Args)
    BY <1>1
  <2>2. spoke \in BOOLEAN
    BY <1>1
  <2> QED
    BY <2>1, <2>2, <1>1, <1>2 DEF ConnectTypeInv, Fit
<1>4. Len(Unread) = 0 /\ 1 .. Len(Unread) = {}
  BY <1>1 DEF Unread
<1>5. UnitInv
  BY <1>1, <1>4 DEF UnitInv, OwnReplies
<1>6. HeldInv
  <2>1. \A d \in Returned : Dial(d) \in Range(steps)
    BY <1>2, ReturnedFacts
  <2> QED
    BY <2>1, <1>1, <1>2 DEF HeldInv
<1> QED
  BY <1>3, <1>5, <1>6 DEF ConnectInv

LEMMA ConnectNextInv == ConnectInv /\ [ConnectNext]_connectVars => ConnectInv'
<1> SUFFICES ASSUME ConnectInv, [ConnectNext]_connectVars PROVE ConnectInv'
  OBVIOUS
<1>1. CASE ConnectStep
  BY <1>1, DialsStep, AsksStep, ReadsStep, UpgradesStep, StripsStep, LastSteps DEF ConnectStep
<1>2. CASE ConnectFails \/ CallerDrops
  BY <1>2, GivesUpStep DEF ConnectFails, CallerDrops
<1>3. CASE DeviceReplies
  BY <1>3, DeviceRepliesStep
<1>4. CASE DeviceSpeaksFirst
  BY <1>4, DeviceSpeaksFirstStep
<1>5. CASE UNCHANGED connectVars
  BY <1>5 DEF connectVars, ConnectInv, ConnectTypeInv, UnitInv, HeldInv, OwnReplies, Spoken,
     BehindSession, UnderTls, ForTheCaller, Unread, Asking, Following, Returned
<1> QED
  BY <1>1, <1>2, <1>3, <1>4, <1>5 DEF ConnectNext

LEMMA ConnectInvariance == ConnectSpec => []ConnectInv
BY ConnectInitInv, ConnectNextInv, PTL DEF ConnectSpec

\* No layer of a connection reads what was sent for another, nothing is lost
\* where layers change, and a call that fails or is dropped leaves no socket and
\* no task: for every purpose, transport and number of targets.
THEOREM ConnectionIsSound == ConnectSpec => []ConnectionSound
<1>1. ConnectInv => LayersKept
  <2> SUFFICES ASSUME ConnectInv PROVE LayersKept
    OBVIOUS
  <2>1. mishaps = {} /\ wire \in Seq(Args) /\ ahead \in Seq(Args)
    BY DEF ConnectInv, ConnectTypeInv
  <2>2. ASSUME outcome = "ok" PROVE Range(wire \o ahead) \subseteq {LastLayer(plan)}
    <3>1. \A i \in 1 .. Len(Unread) : Unread[i] = LastLayer(plan)
      BY <2>2 DEF ConnectInv, UnitInv
    <3>2. /\ Len(Unread) = Len(ahead) + Len(wire) /\ Len(ahead) \in Nat /\ Len(wire) \in Nat
          /\ \A i \in 1 .. Len(ahead) + Len(wire) :
               Unread[i] = IF i <= Len(ahead) THEN ahead[i] ELSE wire[i - Len(ahead)]
      BY <2>1, UnitsConcat DEF Unread
    <3>3. \A i \in 1 .. Len(ahead) : ahead[i] = LastLayer(plan)
      BY <3>1, <3>2
    <3>4. ASSUME NEW i \in 1 .. Len(wire) PROVE wire[i] = LastLayer(plan)
      <4>1. /\ i + Len(ahead) \in 1 .. Len(ahead) + Len(wire) /\ ~(i + Len(ahead) <= Len(ahead))
            /\ (i + Len(ahead)) - Len(ahead) = i
        BY <3>2
      <4> QED
        BY <4>1, <3>1, <3>2
    <3> DEFINE q == wire \o ahead
    <3>5. /\ q \in Seq(Args) /\ Len(q) = Len(wire) + Len(ahead)
          /\ \A i \in 1 .. Len(wire) + Len(ahead) : q[i] = IF i <= Len(wire) THEN wire[i] ELSE ahead[i - Len(wire)]
      BY <2>1, UnitsConcat
    <3> HIDE DEF q
    <3>6. ASSUME NEW i \in 1 .. Len(q) PROVE q[i] = LastLayer(plan)
      <4>1. CASE i <= Len(wire)
        BY <4>1, <3>2, <3>4, <3>5
      <4>2. CASE ~(i <= Len(wire))
        <5>1. i - Len(wire) \in 1 .. Len(ahead)
          BY <4>2, <3>2, <3>5
        <5> QED
          BY <4>2, <5>1, <3>2, <3>3, <3>5
      <4> QED
        BY <4>1, <4>2
    <3>7. Range(q) \subseteq {LastLayer(plan)}
      BY <3>5, <3>6 DEF Range
    <3> QED
      BY <3>7 DEF q
  <2>3. outcome = "ok" => (ahead # <<>> => LastLayer(plan) = "tls")
    BY DEF ConnectInv, UnitInv
  <2>4. mishaps \cap {"dropped", "misread"} = {}
    BY <2>1
  <2> QED
    BY <2>2, <2>3, <2>4 DEF LayersKept
<1>2. ConnectInv => NothingLeftBehind
  <2> SUFFICES ASSUME ConnectInv PROVE NothingLeftBehind
    OBVIOUS
  <2>1. HeldInv
    BY DEF ConnectInv
  <2>2. outcome = "ok" =>
          sockets = IF plan.purpose = "values" THEN {"control"}
                    ELSE {"data"} \cup (IF plan.purpose \in {"direct", "remote"} THEN {"control"} ELSE {})
    BY <2>1, ReturnedFacts DEF HeldInv
  <2>3. outcome = "ok" => (tasks \ {"leaked"} # {} <=> plan.purpose \in {"tunnel", "direct", "remote"})
    BY <2>1 DEF HeldInv, Tunnels
  <2>4. /\ outcome \in {"err", "dropped"} => sockets = {} /\ tasks \subseteq {"leaked"}
        /\ "leaked" \in tasks => plan.userspace
    BY <2>1 DEF HeldInv
  <2> QED
    BY <2>2, <2>3, <2>4 DEF NothingLeftBehind
<1> QED
  BY <1>1, <1>2, ConnectInvariance, PTL DEF ConnectionSound
=============================================================================
