---------------------------- MODULE H2DemuxProof ----------------------------
(***************************************************************************)
(* Proofs about the registry of H2Demux, for every set of streams and      *)
(* every limit.                                                            *)
(*                                                                         *)
(* What keeps a stream from coming back after the framer forgot it is one  *)
(* number: no stream above highest_peer_stream_id was ever admitted        *)
(* (SeenInv), and only a stream above it is admitted.  The rest of the     *)
(* invariant is what the registries, tombstones and FIFOs say of one       *)
(* stream; Admits is the same of the registry a frame leads to.            *)
(***************************************************************************)
EXTENDS H2Demux, FiniteSetTheorems, SequenceTheorems, TLAPS

TypeInv ==
    /\ peer_open_streams \subseteq Ids /\ announced_file_streams \subseteq Ids
    /\ file_stream_candidates \subseteq Ids
    /\ IsFiniteSet(peer_open_streams) /\ IsFiniteSet(announced_file_streams)
    /\ IsFiniteSet(file_stream_candidates)
    /\ closed_streams \subseteq Ids /\ closed_unknown_order \in Seq(Ids)
    /\ reset_streams \subseteq Ids /\ reset_unknown_order \in Seq(Ids)
    /\ locally_open_streams \subseteq Ids
    /\ highest_peer_stream_id \in Nat

\* No two registries list a stream, and what they list was counted.
Registries(open, announced, candidates, highest) ==
    /\ open \cap announced = {} /\ open \cap candidates = {} /\ announced \cap candidates = {}
    /\ Cardinality(open) + Cardinality(candidates) <= MaxUnknown
    /\ Cardinality(announced) <= MaxAnnounced
    /\ \A s \in open \cup announced \cup candidates : s <= highest

LiveInv ==
    /\ Registries(peer_open_streams, announced_file_streams, file_stream_candidates,
                  highest_peer_stream_id)
    /\ Live \cap (closed_streams \cup reset_streams) = {}
    /\ closed_streams \cap reset_streams = {}

\* A FIFO of tombstones.
Fifo(order) == IsInjective(order) /\ Len(order) <= MaxClosed

TombInv ==
    /\ Fifo(closed_unknown_order) /\ Fifo(reset_unknown_order)
    /\ ToSet(closed_unknown_order) = closed_streams \ (Fixed \cup locally_open_streams)
    /\ ToSet(reset_unknown_order) \subseteq reset_streams
    /\ reset_streams \ ToSet(reset_unknown_order) \subseteq Fixed \cup locally_open_streams

\* What was ever admitted is not above the highest ID.
SeenInv == \A s \in seen : s \in Nat /\ s <= highest_peer_stream_id

Inv == TypeInv /\ LiveInv /\ TombInv /\ SeenInv

USE IdsAssumption, LimitsAssumption

-----------------------------------------------------------------------------
\* Sequences.

\* The elements of a sequence are where its indices say.
LEMMA Elements ==
  ASSUME NEW S, NEW q \in Seq(S)
  PROVE  /\ Len(q) \in Nat /\ (Len(q) = 0 <=> q = <<>>)
         /\ DOMAIN q = 1 .. Len(q) /\ \A i \in 1 .. Len(q) : q[i] \in S
OBVIOUS

\* The set of the elements of a sequence.
LEMMA ToSetFacts ==
  ASSUME NEW S, NEW q \in Seq(S)
  PROVE  ToSet(q) \subseteq S /\ \A m : m \in ToSet(q) <=> \E i \in 1 .. Len(q) : q[i] = m
<1>1. DOMAIN q = 1 .. Len(q) /\ \A i \in 1 .. Len(q) : q[i] \in S BY Elements
<1> QED BY <1>1 DEF ToSet

\* Pushing an ID that is not queued.
LEMMA PushFacts ==
  ASSUME NEW q \in Seq(Ids), IsInjective(q), NEW s \in Ids, s \notin ToSet(q)
  PROVE  /\ Append(q, s) \in Seq(Ids) /\ Len(Append(q, s)) = Len(q) + 1
         /\ IsInjective(Append(q, s)) /\ ToSet(Append(q, s)) = ToSet(q) \cup {s}
<1> DEFINE r == Append(q, s)
<1>1. /\ r \in Seq(Ids) /\ Len(r) = Len(q) + 1 /\ \A i \in 1 .. Len(q) : r[i] = q[i]
      /\ r[Len(q) + 1] = s
  BY AppendProperties
<1>2. Len(q) \in Nat /\ DOMAIN q = 1 .. Len(q) BY Elements
<1>3. DOMAIN r = 1 .. Len(q) + 1 BY <1>1, Elements
<1>4. \A m : m \in ToSet(q) <=> \E i \in 1 .. Len(q) : q[i] = m BY ToSetFacts
<1>5. \A m : m \in ToSet(r) <=> \E i \in 1 .. Len(r) : r[i] = m BY <1>1, ToSetFacts
<1> HIDE DEF r
<1>6. IsInjective(r)
  <2> SUFFICES ASSUME NEW i \in 1 .. Len(q) + 1, NEW j \in 1 .. Len(q) + 1, r[i] = r[j] PROVE i = j
    BY <1>3 DEF IsInjective
  <2>1. \A k \in 1 .. Len(q) + 1 : k \in 1 .. Len(q) \/ k = Len(q) + 1 BY <1>2
  <2>2. CASE i \in 1 .. Len(q) /\ j \in 1 .. Len(q) BY <1>1, <1>2, <2>2 DEF IsInjective
  <2>3. CASE i \in 1 .. Len(q) /\ j = Len(q) + 1 BY <1>1, <1>4, <2>3
  <2>4. CASE i = Len(q) + 1 /\ j \in 1 .. Len(q) BY <1>1, <1>4, <2>4
  <2> QED BY <2>1, <2>2, <2>3, <2>4
<1>7. ASSUME NEW m PROVE m \in ToSet(r) <=> m \in ToSet(q) \cup {s}
  <2>1. ASSUME m \in ToSet(r) PROVE m \in ToSet(q) \cup {s}
    <3>1. PICK i \in 1 .. Len(q) + 1 : r[i] = m BY <1>1, <1>5, <2>1
    <3>2. i \in 1 .. Len(q) \/ i = Len(q) + 1 BY <1>2
    <3> QED BY <1>1, <1>4, <3>1, <3>2
  <2>2. ASSUME m \in ToSet(q) PROVE m \in ToSet(r)
    <3>1. PICK i \in 1 .. Len(q) : q[i] = m BY <1>4, <2>2
    <3>2. i \in 1 .. Len(r) /\ r[i] = m BY <1>1, <1>2, <3>1
    <3> QED BY <1>5, <3>2
  <2>3. s \in ToSet(r)
    <3>1. Len(q) + 1 \in 1 .. Len(r) BY <1>1, <1>2
    <3> QED BY <1>1, <1>5, <3>1
  <2> QED BY <2>1, <2>2, <2>3
<1>8. ToSet(r) = ToSet(q) \cup {s} BY <1>7
<1> QED BY <1>1, <1>6, <1>8 DEF r

\* A sequence without its entry k.
LEMMA RemoveAtFacts ==
  ASSUME NEW q \in Seq(Ids), IsInjective(q), NEW k \in 1 .. Len(q)
  PROVE  /\ RemoveAt(q, k) \in Seq(Ids) /\ Len(RemoveAt(q, k)) = Len(q) - 1
         /\ IsInjective(RemoveAt(q, k)) /\ ToSet(RemoveAt(q, k)) = ToSet(q) \ {q[k]}
<1>1. Len(q) \in Nat /\ k \in Nat /\ DOMAIN q = 1 .. Len(q) /\ \A i \in 1 .. Len(q) : q[i] \in Ids
  BY Elements
<1> DEFINE t == SubSeq(q, 1, k - 1)
           u == SubSeq(q, k + 1, Len(q))
           r == t \o u
<1>2. /\ t \in Seq(Ids) /\ Len(t) = k - 1 /\ \A i \in 1 .. k - 1 : t[i] = q[i]
  <2>1. \A i \in 1 .. k - 1 : q[i] \in Ids BY <1>1
  <2> QED BY <1>1, <2>1, SubSeqProperties
<1>3. u \in Seq(Ids) /\ Len(u) = Len(q) - k /\ \A i \in 1 .. Len(q) - k : u[i] = q[i + k]
  <2>1. \A i \in k + 1 .. Len(q) : q[i] \in Ids BY <1>1
  <2>2. /\ u \in Seq(Ids)
        /\ Len(u) = IF k + 1 <= Len(q) THEN Len(q) - (k + 1) + 1 ELSE 0
        /\ \A i \in 1 .. Len(q) - (k + 1) + 1 : u[i] = q[k + 1 + i - 1]
    <3>1. k + 1 \in Int /\ Len(q) \in Int BY <1>1
    <3>2. PICK a \in Int, b \in Int : a = k + 1 /\ b = Len(q) BY <3>1
    <3>3. \A i \in a .. b : q[i] \in Ids BY <2>1, <3>2
    <3>4. /\ SubSeq(q, a, b) \in Seq(Ids)
          /\ Len(SubSeq(q, a, b)) = IF a <= b THEN b - a + 1 ELSE 0
          /\ \A i \in 1 .. b - a + 1 : SubSeq(q, a, b)[i] = q[a + i - 1]
      BY <3>3, SubSeqProperties, SMTT(30)
    <3> QED BY <3>2, <3>4
  <2>3. \A a, b \in Nat : b <= a => /\ a - (b + 1) + 1 = a - b
                                    /\ (IF b + 1 <= a THEN a - (b + 1) + 1 ELSE 0) = a - b
    OBVIOUS
  <2>4. \A i \in 1 .. Len(q) - k : k + 1 + i - 1 = i + k BY <1>1
  <2>5. k <= Len(q) BY <1>1
  <2> HIDE DEF u
  <2> QED BY <1>1, <2>2, <2>3, <2>4, <2>5
<1>5. RemoveAt(q, k) = r BY DEF RemoveAt
<1> HIDE DEF t, u
<1>6. /\ r \in Seq(Ids) /\ Len(r) = Len(t) + Len(u)
      /\ \A i \in 1 .. Len(t) + Len(u) : r[i] = IF i <= Len(t) THEN t[i] ELSE u[i - Len(t)]
  BY <1>2, <1>3, ConcatProperties
<1> HIDE DEF r
<1>7. Len(r) = Len(q) - 1 /\ DOMAIN r = 1 .. Len(r) BY <1>1, <1>2, <1>3, <1>6, Elements
<1>8. ASSUME NEW i \in 1 .. Len(r) PROVE r[i] = IF i < k THEN q[i] ELSE q[i + 1]
  <2>1. i \in 1 .. Len(t) + Len(u) BY <1>6
  <2>2. CASE i < k
    <3>1. i <= Len(t) /\ i \in 1 .. k - 1 BY <1>1, <1>2, <2>2
    <3> QED BY <1>2, <1>6, <2>1, <2>2, <3>1
  <2>3. CASE ~(i < k)
    <3>1. ~(i <= Len(t)) /\ i - Len(t) \in 1 .. Len(q) - k /\ (i - Len(t)) + k = i + 1
      BY <1>1, <1>2, <1>7, <2>3
    <3>2. u[i - Len(t)] = q[i + 1] BY <1>3, <3>1
    <3> QED BY <1>6, <2>1, <2>3, <3>1, <3>2
  <2> QED BY <2>2, <2>3
<1>9. IsInjective(r)
  <2> SUFFICES ASSUME NEW i \in 1 .. Len(r), NEW j \in 1 .. Len(r), r[i] = r[j] PROVE i = j
    BY <1>7 DEF IsInjective
  <2>0. \A a, b \in 1 .. Len(q) : q[a] = q[b] => a = b BY <1>1 DEF IsInjective
  <2>1. \A l \in 1 .. Len(r) : l \in 1 .. Len(q) /\ l + 1 \in 1 .. Len(q) BY <1>1, <1>7
  <2>2. CASE i < k /\ j < k
    <3>1. q[i] = q[j] BY <1>8, <2>2
    <3> QED BY <2>0, <2>1, <3>1
  <2>3. CASE i < k /\ ~(j < k)
    <3>1. q[i] = q[j + 1] BY <1>8, <2>3
    <3>2. i = j + 1 BY <2>0, <2>1, <3>1
    <3> QED BY <1>1, <2>3, <3>2
  <2>4. CASE ~(i < k) /\ j < k
    <3>1. q[i + 1] = q[j] BY <1>8, <2>4
    <3>2. i + 1 = j BY <2>0, <2>1, <3>1
    <3> QED BY <1>1, <2>4, <3>2
  <2>5. CASE ~(i < k) /\ ~(j < k)
    <3>1. q[i + 1] = q[j + 1] BY <1>8, <2>5
    <3>2. i + 1 = j + 1 BY <2>0, <2>1, <3>1
    <3> QED BY <3>2
  <2> QED BY <2>2, <2>3, <2>4, <2>5
<1>10. ToSet(r) = ToSet(q) \ {q[k]}
  <2>1. ASSUME NEW i \in 1 .. Len(r) PROVE \E j \in 1 .. Len(q) : j # k /\ r[i] = q[j]
    <3>1. i \in 1 .. Len(q) /\ i + 1 \in 1 .. Len(q) BY <1>1, <1>7
    <3>2. CASE i < k BY <1>1, <1>8, <3>1, <3>2
    <3>3. CASE ~(i < k)
      <4>1. i + 1 # k BY <1>1, <3>3
      <4> QED BY <1>8, <3>1, <3>3, <4>1
    <3> QED BY <3>2, <3>3
  <2>2. ASSUME NEW j \in 1 .. Len(q), j # k PROVE \E i \in 1 .. Len(r) : r[i] = q[j]
    <3>1. CASE j < k
      <4>1. j \in 1 .. Len(r) BY <1>1, <1>7, <3>1
      <4> QED BY <1>8, <3>1, <4>1
    <3>2. CASE ~(j < k)
      <4>1. j - 1 \in 1 .. Len(r) /\ ~(j - 1 < k) /\ (j - 1) + 1 = j BY <1>1, <1>7, <2>2, <3>2
      <4>2. r[j - 1] = q[j] BY <1>8, <4>1
      <4> QED BY <4>1, <4>2
    <3> QED BY <3>1, <3>2
  <2>3. \A m : m \in ToSet(r) <=> \E i \in 1 .. Len(r) : r[i] = m BY <1>6, ToSetFacts
  <2>4. \A m : m \in ToSet(q) <=> \E i \in 1 .. Len(q) : q[i] = m BY ToSetFacts
  <2>5. \A j \in 1 .. Len(q) : q[j] = q[k] => j = k BY <1>1 DEF IsInjective
  <2>6. ASSUME NEW m \in ToSet(r) PROVE m \in ToSet(q) \ {q[k]}
    <3>1. PICK i \in 1 .. Len(r) : r[i] = m BY <2>3, <2>6
    <3>2. PICK j \in 1 .. Len(q) : j # k /\ r[i] = q[j] BY <2>1
    <3> QED BY <2>4, <2>5, <3>1, <3>2
  <2>7. ASSUME NEW m \in ToSet(q) \ {q[k]} PROVE m \in ToSet(r)
    <3>1. PICK j \in 1 .. Len(q) : q[j] = m BY <2>4, <2>7
    <3>2. PICK i \in 1 .. Len(r) : r[i] = q[j] BY <2>2, <2>7, <3>1
    <3> QED BY <2>3, <3>1, <3>2
  <2> QED BY <2>6, <2>7
<1> QED BY <1>5, <1>6, <1>7, <1>9, <1>10

\* Room for one more tombstone: the oldest is evicted when the FIFO is full.
LEMMA EvictFacts ==
  ASSUME NEW q \in Seq(Ids), Fifo(q)
  PROVE  /\ Evict(q) \in Seq(Ids) /\ IsInjective(Evict(q)) /\ Len(Evict(q)) + 1 <= MaxClosed
         /\ ToSet(Evict(q)) = ToSet(q) \ Evicted(q) /\ Evicted(q) \subseteq ToSet(q)
<1>1. Len(q) \in Nat /\ DOMAIN q = 1 .. Len(q) /\ (Len(q) = 0 <=> q = <<>>) BY Elements
<1>2. MaxClosed \in Nat /\ MaxClosed >= 1 OBVIOUS
<1>3. CASE ~(Len(q) >= MaxClosed)
  <2>1. Evict(q) = q /\ Evicted(q) = {} BY <1>3 DEF Evict, Evicted
  <2>2. Len(q) + 1 <= MaxClosed BY <1>1, <1>2, <1>3
  <2> QED BY <2>1, <2>2 DEF Fifo
<1>4. CASE Len(q) >= MaxClosed
  <2>1. Evict(q) = Tail(q) /\ Evicted(q) = {Head(q)} BY <1>4 DEF Evict, Evicted
  <2>2. q # <<>> /\ 1 \in 1 .. Len(q) BY <1>1, <1>2, <1>4
  <2>3. Head(q) = q[1] BY <2>2
  <2>4. RemoveAt(q, 1) = Tail(q)
    <3>1. RemoveAt(q, 1) = SubSeq(q, 1, 1 - 1) \o SubSeq(q, 1 + 1, Len(q)) BY DEF RemoveAt
    <3>2. Tail(q) = SubSeq(q, 2, Len(q)) /\ Tail(q) \in Seq(Ids) BY <2>2
    <3>3. SubSeq(q, 1, 1 - 1) = <<>> /\ 1 + 1 = 2
      <4>1. 1 \in Int /\ 1 - 1 \in Int /\ 1 - 1 < 1 OBVIOUS
      <4> QED BY <4>1, SubSeqEmpty
    <3>4. <<>> \o Tail(q) = Tail(q) BY <3>2, ConcatEmptySeq
    <3> QED BY <3>1, <3>2, <3>3, <3>4
  <2>5. /\ Tail(q) \in Seq(Ids) /\ Len(Tail(q)) = Len(q) - 1 /\ IsInjective(Tail(q))
        /\ ToSet(Tail(q)) = ToSet(q) \ {q[1]}
    BY <2>2, <2>4, RemoveAtFacts DEF Fifo
  <2>6. Len(Tail(q)) + 1 <= MaxClosed BY <1>1, <1>2, <2>5 DEF Fifo
  <2>7. q[1] \in ToSet(q) BY <2>2, ToSetFacts
  <2> QED BY <2>1, <2>3, <2>5, <2>6, <2>7
<1> QED BY <1>3, <1>4

\* A tombstone that was not queued joins the FIFO.
LEMMA BuryFacts ==
  ASSUME NEW q \in Seq(Ids), Fifo(q), NEW s \in Ids, s \notin ToSet(q)
  PROVE  /\ Append(Evict(q), s) \in Seq(Ids) /\ Fifo(Append(Evict(q), s))
         /\ ToSet(Append(Evict(q), s)) = (ToSet(q) \ Evicted(q)) \cup {s}
         /\ Evicted(q) \subseteq ToSet(q)
<1> DEFINE r == Evict(q)
<1>1. /\ r \in Seq(Ids) /\ IsInjective(r) /\ Len(r) + 1 <= MaxClosed
      /\ ToSet(r) = ToSet(q) \ Evicted(q) /\ Evicted(q) \subseteq ToSet(q)
  BY EvictFacts
<1> HIDE DEF r
<1>2. s \notin ToSet(r) BY <1>1
<1>3. /\ Append(r, s) \in Seq(Ids) /\ Len(Append(r, s)) = Len(r) + 1
      /\ IsInjective(Append(r, s)) /\ ToSet(Append(r, s)) = ToSet(r) \cup {s}
  BY <1>1, <1>2, PushFacts
<1> QED BY <1>1, <1>3 DEF r, Fifo

\* A tombstone is taken out of the FIFO.
LEMMA RetainedFacts ==
  ASSUME NEW q \in Seq(Ids), Fifo(q), NEW s
  PROVE  /\ Retained(q, s) \in Seq(Ids) /\ Fifo(Retained(q, s))
         /\ ToSet(Retained(q, s)) = ToSet(q) \ {s}
<1>1. Len(q) \in Nat /\ DOMAIN q = 1 .. Len(q) BY Elements
<1>2. \A m : m \in ToSet(q) <=> \E i \in 1 .. Len(q) : q[i] = m BY ToSetFacts
<1>3. CASE s \in ToSet(q)
  <2> DEFINE k == CHOOSE i \in DOMAIN q : q[i] = s
  <2>1. k \in 1 .. Len(q) /\ q[k] = s BY <1>1, <1>2, <1>3
  <2>2. Retained(q, s) = RemoveAt(q, k) BY <1>1, <1>2, <1>3 DEF Retained
  <2> HIDE DEF k
  <2>3. /\ RemoveAt(q, k) \in Seq(Ids) /\ Len(RemoveAt(q, k)) = Len(q) - 1
        /\ IsInjective(RemoveAt(q, k)) /\ ToSet(RemoveAt(q, k)) = ToSet(q) \ {q[k]}
    BY <2>1, RemoveAtFacts DEF Fifo
  <2>4. Len(q) - 1 <= MaxClosed BY <1>1 DEF Fifo
  <2> QED BY <2>1, <2>2, <2>3, <2>4 DEF Fifo
<1>4. CASE s \notin ToSet(q)
  <2>1. Retained(q, s) = q BY <1>1, <1>2, <1>4 DEF Retained
  <2> QED BY <1>4, <2>1
<1> QED BY <1>3, <1>4

-----------------------------------------------------------------------------
\* The registries a frame leads to.

\* A registry that lists at most s beside the live streams, and s only as a new stream.
Admits(o, s) ==
    /\ o.open \subseteq Ids /\ o.announced \subseteq Ids /\ o.candidates \subseteq Ids
    /\ IsFiniteSet(o.open) /\ IsFiniteSet(o.announced) /\ IsFiniteSet(o.candidates)
    /\ Registries(o.open, o.announced, o.candidates, o.highest)
    /\ o.highest \in Nat /\ highest_peer_stream_id <= o.highest
    /\ o.open \cup o.announced \cup o.candidates \subseteq Live \cup {s}
    /\ s \in o.open \cup o.announced \cup o.candidates => s \in Live \/ highest_peer_stream_id < s

\* A registry with fewer streams is one.
LEMMA FewerStreams ==
  ASSUME NEW a, NEW b, NEW c, NEW h \in Nat, Registries(a, b, c, h),
         IsFiniteSet(a), IsFiniteSet(b), IsFiniteSet(c), a \cup b \cup c \subseteq Nat,
         NEW d \in SUBSET a, NEW e \in SUBSET b, NEW f \in SUBSET c, NEW g \in Nat, h <= g
  PROVE  /\ IsFiniteSet(d) /\ IsFiniteSet(e) /\ IsFiniteSet(f) /\ Registries(d, e, f, g)
<1>1. IsFiniteSet(d) /\ Cardinality(d) <= Cardinality(a) BY FS_Subset
<1>2. IsFiniteSet(e) /\ Cardinality(e) <= Cardinality(b) BY FS_Subset
<1>3. IsFiniteSet(f) /\ Cardinality(f) <= Cardinality(c) BY FS_Subset
<1>4. /\ Cardinality(a) \in Nat /\ Cardinality(b) \in Nat /\ Cardinality(c) \in Nat
      /\ Cardinality(d) \in Nat /\ Cardinality(e) \in Nat /\ Cardinality(f) \in Nat
  BY <1>1, <1>2, <1>3, FS_CardinalityType
<1>5. Cardinality(d) + Cardinality(f) <= MaxUnknown /\ Cardinality(e) <= MaxAnnounced
  BY <1>1, <1>2, <1>3, <1>4 DEF Registries
<1>6. ASSUME NEW s \in d \cup e \cup f PROVE s <= g
  <2>1. s \in Nat /\ s <= h BY DEF Registries
  <2> QED BY <2>1
<1>7. d \cap e = {} /\ d \cap f = {} /\ e \cap f = {} BY DEF Registries
<1> QED BY <1>1, <1>2, <1>3, <1>5, <1>6, <1>7 DEF Registries

\* A frame of a stream that is already listed changes no list.
LEMMA UnchangedAdmits ==
  ASSUME Inv, NEW s PROVE Admits(Unchanged, s)
BY DEF Inv, TypeInv, LiveInv, Admits, Unchanged, Live

\* A stream that is not admitted changes no list either.
LEMMA SameListsAdmit ==
  ASSUME NEW o, NEW p, NEW s, Admits(o, s), p.open = o.open, p.announced = o.announced,
         p.candidates = o.candidates, p.highest = o.highest
  PROVE  Admits(p, s)
BY DEF Admits

\* track_peer_stream.
LEMMA TrackAdmits ==
  ASSUME Inv, NEW s \in Ids PROVE Admits(Track(s), s)
<1>0. Admits(Unchanged, s) BY UnchangedAdmits
<1>1. CASE s <= highest_peer_stream_id \/ unknown_active_stream_count >= MaxUnknown
  <2>1. Track(s) = [Unchanged EXCEPT !.fate = "refused"] BY <1>1 DEF Track
  <2> QED BY <1>0, <2>1, SameListsAdmit DEF Unchanged
<1>2. CASE ~(s <= highest_peer_stream_id \/ unknown_active_stream_count >= MaxUnknown)
  <2> DEFINE o == Track(s)
             n == peer_open_streams \cup {s}
  <2>1. /\ o.open = n /\ o.announced = announced_file_streams
        /\ o.candidates = file_stream_candidates /\ o.highest = s
    BY <1>2 DEF Track, Unchanged
  <2> HIDE DEF o
  <2>2. s \in Nat /\ highest_peer_stream_id \in Nat /\ highest_peer_stream_id < s
    BY <1>2 DEF Inv, TypeInv
  <2>3. \A t \in Live : t \in Nat /\ t <= highest_peer_stream_id
    BY DEF Inv, TypeInv, LiveInv, Registries, Live
  <2>4. s \notin Live BY <2>2, <2>3
  <2>5. IsFiniteSet(n) /\ Cardinality(n) = Cardinality(peer_open_streams) + 1
    BY <2>4, FS_AddElement DEF Inv, TypeInv, Live
  <2>6. Cardinality(peer_open_streams) \in Nat /\ Cardinality(file_stream_candidates) \in Nat
    BY FS_CardinalityType DEF Inv, TypeInv
  <2>7. Cardinality(n) + Cardinality(file_stream_candidates) <= MaxUnknown
    <3>1. Cardinality(peer_open_streams) + Cardinality(file_stream_candidates) < MaxUnknown
      BY <1>2, <2>6 DEF unknown_active_stream_count
    <3> QED BY <2>5, <2>6, <3>1
  <2>8. Registries(n, announced_file_streams, file_stream_candidates, s)
    <3>1. /\ n \cap announced_file_streams = {} /\ n \cap file_stream_candidates = {}
          /\ announced_file_streams \cap file_stream_candidates = {}
          /\ Cardinality(announced_file_streams) <= MaxAnnounced
      BY <2>4 DEF Inv, LiveInv, Registries, Live
    <3>2. \A t \in n \cup announced_file_streams \cup file_stream_candidates : t <= s
      <4> TAKE t \in n \cup announced_file_streams \cup file_stream_candidates
      <4>1. t \in Live \/ t = s BY DEF Live
      <4> QED BY <2>2, <2>3, <4>1
    <3> QED BY <2>7, <3>1, <3>2 DEF Registries
  <2>9. n \cup announced_file_streams \cup file_stream_candidates \subseteq Live \cup {s}
    BY DEF Live
  <2>10. /\ n \subseteq Ids /\ announced_file_streams \subseteq Ids
         /\ file_stream_candidates \subseteq Ids /\ IsFiniteSet(announced_file_streams)
         /\ IsFiniteSet(file_stream_candidates)
    BY DEF Inv, TypeInv
  <2> HIDE DEF n
  <2> QED BY <2>1, <2>2, <2>5, <2>8, <2>9, <2>10 DEF Admits, o
<1> QED BY <1>1, <1>2

\* register_file_stream_candidate.
LEMMA RegisterAdmits ==
  ASSUME Inv, NEW s \in Ids PROVE Admits(Register(s), s)
<1>0. Admits(Unchanged, s) BY UnchangedAdmits
<1>1. CASE s <= highest_peer_stream_id \/ unknown_active_stream_count >= MaxUnknown
  <2>1. Register(s) = [Unchanged EXCEPT !.fate = "refused"] BY <1>1 DEF Register
  <2> QED BY <1>0, <2>1, SameListsAdmit DEF Unchanged
<1>2. CASE ~(s <= highest_peer_stream_id \/ unknown_active_stream_count >= MaxUnknown)
  <2> DEFINE o == Register(s)
             n == file_stream_candidates \cup {s}
  <2>1. /\ o.open = peer_open_streams /\ o.announced = announced_file_streams
        /\ o.candidates = n /\ o.highest = s
    BY <1>2 DEF Register, Unchanged
  <2> HIDE DEF o
  <2>2. s \in Nat /\ highest_peer_stream_id \in Nat /\ highest_peer_stream_id < s
    BY <1>2 DEF Inv, TypeInv
  <2>3. \A t \in Live : t \in Nat /\ t <= highest_peer_stream_id
    BY DEF Inv, TypeInv, LiveInv, Registries, Live
  <2>4. s \notin Live BY <2>2, <2>3
  <2>5. IsFiniteSet(n) /\ Cardinality(n) = Cardinality(file_stream_candidates) + 1
    BY <2>4, FS_AddElement DEF Inv, TypeInv, Live
  <2>6. Cardinality(peer_open_streams) \in Nat /\ Cardinality(file_stream_candidates) \in Nat
    BY FS_CardinalityType DEF Inv, TypeInv
  <2>7. Cardinality(peer_open_streams) + Cardinality(n) <= MaxUnknown
    <3>1. Cardinality(peer_open_streams) + Cardinality(file_stream_candidates) < MaxUnknown
      BY <1>2, <2>6 DEF unknown_active_stream_count
    <3> QED BY <2>5, <2>6, <3>1
  <2>8. Registries(peer_open_streams, announced_file_streams, n, s)
    <3>1. /\ peer_open_streams \cap announced_file_streams = {} /\ peer_open_streams \cap n = {}
          /\ announced_file_streams \cap n = {}
          /\ Cardinality(announced_file_streams) <= MaxAnnounced
      BY <2>4 DEF Inv, LiveInv, Registries, Live
    <3>2. \A t \in peer_open_streams \cup announced_file_streams \cup n : t <= s
      <4> TAKE t \in peer_open_streams \cup announced_file_streams \cup n
      <4>1. t \in Live \/ t = s BY DEF Live
      <4> QED BY <2>2, <2>3, <4>1
    <3> QED BY <2>7, <3>1, <3>2 DEF Registries
  <2>9. peer_open_streams \cup announced_file_streams \cup n \subseteq Live \cup {s}
    BY DEF Live
  <2>10. /\ n \subseteq Ids /\ announced_file_streams \subseteq Ids
         /\ peer_open_streams \subseteq Ids /\ IsFiniteSet(announced_file_streams)
         /\ IsFiniteSet(peer_open_streams)
    BY DEF Inv, TypeInv
  <2> HIDE DEF n
  <2> QED BY <2>1, <2>2, <2>5, <2>8, <2>9, <2>10 DEF Admits, o
<1> QED BY <1>1, <1>2

\* adopt_file_stream, of a stream that was a candidate or is new.
LEMMA AdoptAdmits ==
  ASSUME Inv, NEW s \in Ids, NEW o, Admits(o, s), s \notin o.open \cup o.candidates,
         o = [fate |-> o.fate, open |-> o.open, announced |-> o.announced,
              candidates |-> o.candidates, cand |-> o.cand, highest |-> o.highest],
         s \in Live \/ highest_peer_stream_id < s
  PROVE  Admits(Adopt(o, s), s)
<1>1. CASE s \in o.announced BY <1>1 DEF Adopt
<1>2. CASE s \notin o.announced /\ Cardinality(o.announced) >= MaxAnnounced
  <2>1. Adopt(o, s) = [o EXCEPT !.fate = "refused"] BY <1>2 DEF Adopt
  <2>2. /\ Adopt(o, s).open = o.open /\ Adopt(o, s).announced = o.announced
        /\ Adopt(o, s).candidates = o.candidates /\ Adopt(o, s).highest = o.highest
    BY <2>1
  <2> QED BY <2>2, SameListsAdmit
<1>3. CASE s \notin o.announced /\ ~(Cardinality(o.announced) >= MaxAnnounced)
  <2> DEFINE n == o.announced \cup {s}
             m == Max({o.highest, s})
             p == Adopt(o, s)
  <2>1. p = [o EXCEPT !.announced = n, !.highest = m] BY <1>3 DEF Adopt
  <2>2. /\ p.open = o.open /\ p.announced = n /\ p.candidates = o.candidates /\ p.highest = m
    BY <2>1
  <2>3. s \in Nat /\ o.highest \in Nat /\ highest_peer_stream_id \in Nat
        /\ highest_peer_stream_id <= o.highest
    BY DEF Inv, TypeInv, Admits
  <2>4. m \in Nat /\ m >= o.highest /\ m >= s
    <3>1. \E x \in {o.highest, s} : \A y \in {o.highest, s} : x >= y BY <2>3
    <3>2. m \in {o.highest, s} /\ \A y \in {o.highest, s} : m >= y BY <3>1 DEF Max
    <3> QED BY <2>3, <3>2
  <2> HIDE DEF p, m
  <2>5. IsFiniteSet(n) /\ Cardinality(n) = Cardinality(o.announced) + 1
    BY <1>3, FS_AddElement DEF Admits
  <2>6. Cardinality(o.announced) \in Nat BY FS_CardinalityType DEF Admits
  <2>7. Cardinality(n) <= MaxAnnounced BY <1>3, <2>5, <2>6
  <2>8. Registries(o.open, n, o.candidates, m)
    <3>1. /\ o.open \cap n = {} /\ o.open \cap o.candidates = {} /\ n \cap o.candidates = {}
          /\ Cardinality(o.open) + Cardinality(o.candidates) <= MaxUnknown
      BY DEF Admits, Registries
    <3>2. \A t \in o.open \cup n \cup o.candidates : t <= m
      <4> TAKE t \in o.open \cup n \cup o.candidates
      <4>1. t = s \/ (t \in Nat /\ t <= o.highest) BY DEF Admits, Registries
      <4> QED BY <2>3, <2>4, <4>1
    <3> QED BY <2>7, <3>1, <3>2 DEF Registries
  <2>9. o.open \cup n \cup o.candidates \subseteq Live \cup {s} BY DEF Admits
  <2>10. n \subseteq Ids /\ o.open \subseteq Ids /\ o.candidates \subseteq Ids
         /\ IsFiniteSet(o.open) /\ IsFiniteSet(o.candidates)
    BY DEF Admits
  <2>11. highest_peer_stream_id <= m BY <2>3, <2>4
  <2> HIDE DEF n
  <2> QED BY <2>2, <2>4, <2>5, <2>8, <2>9, <2>10, <2>11 DEF Admits, p
<1> QED BY <1>1, <1>2, <1>3

\* observe_peer_headers.
LEMMA HeadersAdmit ==
  ASSUME Inv, NEW s \in Ids PROVE Admits(observe_peer_headers(s), s)
BY UnchangedAdmits, RegisterAdmits, TrackAdmits DEF observe_peer_headers

\* A stream the frame checks let through is listed, or above every stream seen so far.
LEMMA NewIsHigher ==
  ASSUME Inv, NEW s \in Ids, ~Refuses(s), ~is_known_stream(s), s \notin Live
  PROVE  highest_peer_stream_id < s
<1>1. ~(s <= highest_peer_stream_id) BY DEF Refuses, Reused
<1>2. s \in Nat /\ highest_peer_stream_id \in Nat BY DEF Inv, TypeInv
<1> QED BY <1>1, <1>2

\* observe_peer_data_stream.
LEMMA DataAdmits ==
  ASSUME Inv, NEW s \in Ids, NEW n, NEW good, ~Refuses(s)
  PROVE  Admits(observe_peer_data_stream(s, n, good), s)
<1> DEFINE c == Extended(candidate[s], n, good)
           dropped == [Unchanged EXCEPT !.candidates = @ \ {s},
                                        !.cand = [@ EXCEPT ![s] = NoCandidate]]
           o == observe_peer_data_stream(s, n, good)
<1>0. Admits(Unchanged, s) BY UnchangedAdmits
<1>1. CASE is_known_stream(s) \/ s \in peer_open_streams
  <2>1. o = Unchanged BY <1>1 DEF observe_peer_data_stream
  <2> QED BY <1>0, <2>1
<1>2. CASE ~(is_known_stream(s) \/ s \in peer_open_streams) /\ s \in file_stream_candidates
  <2>1. /\ dropped.open = peer_open_streams /\ dropped.announced = announced_file_streams
        /\ dropped.candidates = file_stream_candidates \ {s}
        /\ dropped.highest = highest_peer_stream_id
        /\ dropped = [fate |-> dropped.fate, open |-> dropped.open,
                      announced |-> dropped.announced, candidates |-> dropped.candidates,
                      cand |-> dropped.cand, highest |-> dropped.highest]
    <3>1. PICK u : u = Unchanged OBVIOUS
    <3>2. PICK d : d = [u.cand EXCEPT ![s] = NoCandidate] OBVIOUS
    <3>3. u = [fate |-> "ok", open |-> peer_open_streams,
               announced |-> announced_file_streams, candidates |-> file_stream_candidates,
               cand |-> candidate, highest |-> highest_peer_stream_id]
      BY <3>1 DEF Unchanged
    <3>4. dropped = [u EXCEPT !.candidates = u.candidates \ {s}, !.cand = d] BY <3>1, <3>2
    <3> HIDE DEF dropped
    <3>5. dropped = [fate |-> "ok", open |-> peer_open_streams,
                     announced |-> announced_file_streams,
                     candidates |-> file_stream_candidates \ {s}, cand |-> d,
                     highest |-> highest_peer_stream_id]
      BY <3>3, <3>4
    <3> QED BY <3>5
  <2>2. Admits(dropped, s)
    <3>1. /\ highest_peer_stream_id \in Nat /\ highest_peer_stream_id <= highest_peer_stream_id
          /\ peer_open_streams \cup announced_file_streams \cup file_stream_candidates \subseteq Nat
          /\ peer_open_streams \in SUBSET peer_open_streams
          /\ announced_file_streams \in SUBSET announced_file_streams
          /\ file_stream_candidates \ {s} \in SUBSET file_stream_candidates
      BY DEF Inv, TypeInv
    <3>2. /\ IsFiniteSet(file_stream_candidates \ {s})
          /\ Registries(peer_open_streams, announced_file_streams, file_stream_candidates \ {s},
                        highest_peer_stream_id)
      BY <3>1, FewerStreams, SMTT(30) DEF Inv, TypeInv, LiveInv
    <3>3. /\ peer_open_streams \cup announced_file_streams \cup (file_stream_candidates \ {s})
               \subseteq Live \cup {s}
          /\ s \in Live
      BY <1>2 DEF Live
    <3> HIDE DEF dropped
    <3> QED BY <2>1, <3>1, <3>2, <3>3 DEF Admits, Inv, TypeInv
  <2>3. CASE c.len < PreambleLen
    <3>1. o = [Unchanged EXCEPT !.cand = [@ EXCEPT ![s] = c]]
      BY <1>2, <2>3 DEF observe_peer_data_stream
    <3>2. /\ o.open = Unchanged.open /\ o.announced = Unchanged.announced
          /\ o.candidates = Unchanged.candidates /\ o.highest = Unchanged.highest
      BY <3>1 DEF Unchanged
    <3> HIDE DEF o
    <3> QED BY <1>0, <3>2, SameListsAdmit DEF o
  <2>4. CASE ~(c.len < PreambleLen) /\ ~c.good
    <3>1. o = [dropped EXCEPT !.fate = "invalid"] BY <1>2, <2>4 DEF observe_peer_data_stream
    <3>2. /\ o.open = dropped.open /\ o.announced = dropped.announced
          /\ o.candidates = dropped.candidates /\ o.highest = dropped.highest
      BY <3>1 DEF Unchanged
    <3> HIDE DEF o, dropped
    <3> QED BY <2>2, <3>2, SameListsAdmit DEF o
  <2>5. CASE ~(c.len < PreambleLen) /\ c.good
    <3>1. o = Adopt(dropped, s) BY <1>2, <2>5 DEF observe_peer_data_stream
    <3>2. s \in Live /\ s \notin dropped.open \cup dropped.candidates BY <1>2, <2>1 DEF Live
    <3> HIDE DEF o, dropped
    <3>3. Admits(Adopt(dropped, s), s) BY <2>1, <2>2, <3>2, AdoptAdmits
    <3> QED BY <3>1, <3>3 DEF o
  <2> QED BY <2>3, <2>4, <2>5
<1>3. CASE /\ ~(is_known_stream(s) \/ s \in peer_open_streams) /\ s \notin file_stream_candidates
           /\ s % 2 = 0 /\ n = PreambleLen /\ good
  <2>1. o = Adopt(Unchanged, s) BY <1>3 DEF observe_peer_data_stream
  <2>2. s \notin Live BY <1>3 DEF Live, is_known_stream
  <2>3. highest_peer_stream_id < s BY <1>3, <2>2, NewIsHigher
  <2> DEFINE u == Unchanged
  <2>4. /\ s \notin u.open \cup u.candidates
        /\ u = [fate |-> u.fate, open |-> u.open, announced |-> u.announced,
                candidates |-> u.candidates, cand |-> u.cand, highest |-> u.highest]
    BY <1>3 DEF Unchanged
  <2>5. Admits(u, s) BY <1>0
  <2> HIDE DEF o, u
  <2>6. Admits(Adopt(u, s), s) BY <2>3, <2>4, <2>5, AdoptAdmits
  <2> QED BY <2>1, <2>6 DEF o, u
<1>4. CASE /\ ~(is_known_stream(s) \/ s \in peer_open_streams) /\ s \notin file_stream_candidates
           /\ ~(s % 2 = 0 /\ n = PreambleLen /\ good)
  <2>1. o = Track(s) BY <1>4 DEF observe_peer_data_stream
  <2> QED BY <2>1, TrackAdmits
<1> QED BY <1>1, <1>2, <1>3, <1>4

-----------------------------------------------------------------------------
\* Steps.

\* The history follows the highest ID.
LEMMA NotedSeen ==
  ASSUME Inv, NEW o, NEW s, Admits(o, s), Noted(o)
  PROVE  SeenInv' /\ highest_peer_stream_id' \in Nat
         /\ highest_peer_stream_id <= highest_peer_stream_id'
<1>1. /\ highest_peer_stream_id \in Nat /\ highest_peer_stream_id' \in Nat
      /\ highest_peer_stream_id <= highest_peer_stream_id' /\ highest_peer_stream_id' = o.highest
  BY DEF Inv, TypeInv, Admits, Noted
<1>2. ASSUME NEW t \in seen' PROVE t \in Nat /\ t <= highest_peer_stream_id'
  <2>1. CASE t \in seen
    <3>1. t \in Nat /\ t <= highest_peer_stream_id BY <2>1 DEF Inv, SeenInv
    <3> QED BY <1>1, <3>1
  <2>2. CASE t \in o.open \cup o.announced \cup o.candidates
    <3>1. t \in Nat /\ t <= o.highest BY <2>2 DEF Admits, Registries
    <3> QED BY <1>1, <3>1
  <2> QED BY <1>2, <2>1, <2>2 DEF Noted
<1> QED BY <1>1, <1>2 DEF SeenInv

\* mark_end_stream on a stream that is neither ended nor reset.
LEMMA EndEffect ==
  ASSUME TypeInv, LiveInv, TombInv, NEW s \in Ids, NEW fin, mark_end_stream(s, fin),
         s \notin closed_streams, s \notin reset_streams,
         UNCHANGED <<reset_streams, reset_unknown_order, locally_open_streams>>
  PROVE  /\ TombInv' /\ closed_streams' \subseteq Ids /\ closed_unknown_order' \in Seq(Ids)
         /\ closed_streams' \subseteq closed_streams \cup {s}
         /\ ~fin => closed_streams' = closed_streams
         /\ closed_streams' \cap reset_streams' = {}
<1>1. CASE ~fin
  BY <1>1 DEF TypeInv, LiveInv, TombInv, mark_end_stream
<1>2. CASE fin /\ s \in Fixed \cup locally_open_streams
  <2>1. closed_streams' = closed_streams \cup {s} /\ closed_unknown_order' = closed_unknown_order
    BY <1>2 DEF mark_end_stream
  <2> QED BY <1>2, <2>1 DEF TypeInv, LiveInv, TombInv
<1>3. CASE fin /\ s \notin Fixed \cup locally_open_streams
  <2> DEFINE q == closed_unknown_order
             r == Append(Evict(q), s)
  <2>1. closed_streams' = (closed_streams \ Evicted(q)) \cup {s} /\ closed_unknown_order' = r
    BY <1>3 DEF mark_end_stream
  <2>2. q \in Seq(Ids) /\ Fifo(q) /\ s \notin ToSet(q) BY DEF TypeInv, TombInv
  <2>3. /\ r \in Seq(Ids) /\ Fifo(r) /\ ToSet(r) = (ToSet(q) \ Evicted(q)) \cup {s}
        /\ Evicted(q) \subseteq ToSet(q)
    BY <2>2, BuryFacts
  <2> HIDE DEF r
  <2>4. ToSet(r) = closed_streams' \ (Fixed \cup locally_open_streams')
    BY <1>3, <2>1, <2>3 DEF TombInv
  <2>5. Fifo(closed_unknown_order)' /\ Fifo(reset_unknown_order)' BY <2>1, <2>3 DEF TombInv, Fifo
  <2>6. TombInv' BY <2>1, <2>4, <2>5 DEF TombInv
  <2> QED BY <1>3, <2>1, <2>3, <2>6 DEF TypeInv, LiveInv
<1> QED BY <1>1, <1>2, <1>3

\* A frame, with or without END_STREAM, on a stream that the checks let through.
LEMMA FrameEffect ==
  ASSUME Inv, NEW s \in Ids, NEW o, Admits(o, s), ~Refuses(s), NEW fin \in BOOLEAN, Noted(o),
         Registry(o.open, o.announced, o.candidates, o.cand, s, fin), mark_end_stream(s, fin),
         UNCHANGED <<reset_streams, reset_unknown_order, locally_open_streams>>
  PROVE  Inv' /\ (Live' \ Live) \cap seen = {}
<1>0. TypeInv /\ LiveInv /\ TombInv /\ SeenInv BY DEF Inv
<1>1. s \notin closed_streams /\ s \notin reset_streams BY DEF Refuses, Unavailable
<1>2. /\ TombInv' /\ closed_streams' \subseteq Ids /\ closed_unknown_order' \in Seq(Ids)
      /\ closed_streams' \subseteq closed_streams \cup {s}
      /\ ~fin => closed_streams' = closed_streams
      /\ closed_streams' \cap reset_streams' = {}
  BY <1>0, <1>1, EndEffect
<1>3. SeenInv' /\ highest_peer_stream_id' \in Nat
      /\ highest_peer_stream_id <= highest_peer_stream_id'
  BY NotedSeen
<1>4. /\ peer_open_streams' \subseteq o.open /\ announced_file_streams' \subseteq o.announced
      /\ file_stream_candidates' \subseteq o.candidates
      /\ fin => s \notin Live'
  BY DEF Registry, Live
<1>5. /\ IsFiniteSet(peer_open_streams') /\ IsFiniteSet(announced_file_streams')
      /\ IsFiniteSet(file_stream_candidates')
      /\ Registries(peer_open_streams', announced_file_streams', file_stream_candidates',
                    highest_peer_stream_id')
  <2>1. PICK a, b, c, h : a = o.open /\ b = o.announced /\ c = o.candidates /\ h = o.highest
    OBVIOUS
  <2>2. h \in Nat /\ h <= h /\ highest_peer_stream_id' = h BY <2>1 DEF Admits, Noted
  <2>3. a \cup b \cup c \subseteq Nat BY <2>1 DEF Admits
  <2>4. IsFiniteSet(a) /\ IsFiniteSet(b) /\ IsFiniteSet(c) /\ Registries(a, b, c, h)
    BY <2>1 DEF Admits
  <2>5. PICK d \in SUBSET a, e \in SUBSET b, f \in SUBSET c :
           d = peer_open_streams' /\ e = announced_file_streams' /\ f = file_stream_candidates'
    BY <1>4, <2>1
  <2>6. /\ IsFiniteSet(d) /\ IsFiniteSet(e) /\ IsFiniteSet(f) /\ Registries(d, e, f, h)
    BY ONLY <2>2, <2>3, <2>4, d \in SUBSET a, e \in SUBSET b, f \in SUBSET c, FewerStreams, ZenonT(60)
  <2> QED BY <2>2, <2>5, <2>6
<1>6. Live' \subseteq Live \cup {s} /\ (s \in Live' => s \in Live \/ highest_peer_stream_id < s)
  BY <1>4 DEF Admits, Live
<1>7. Live' \cap (closed_streams' \cup reset_streams') = {}
  <2>1. Live \cap (closed_streams \cup reset_streams) = {} BY <1>0 DEF LiveInv
  <2>2. CASE fin BY <1>1, <1>2, <1>4, <1>6, <2>1, <2>2
  <2>3. CASE ~fin BY <1>1, <1>2, <1>6, <2>1, <2>3
  <2> QED BY <2>2, <2>3
<1>8. TypeInv'
  <2>1. /\ peer_open_streams' \subseteq Ids /\ announced_file_streams' \subseteq Ids
        /\ file_stream_candidates' \subseteq Ids
    BY <1>4 DEF Admits
  <2> QED BY <1>0, <1>2, <1>3, <1>5, <2>1 DEF TypeInv
<1>9. LiveInv' BY <1>2, <1>5, <1>7 DEF LiveInv
<1>10. (Live' \ Live) \cap seen = {}
  <2>1. ASSUME NEW t \in (Live' \ Live) \cap seen PROVE FALSE
    <3>1. t = s /\ highest_peer_stream_id < s BY <1>6, <2>1
    <3>2. s \in Nat /\ s <= highest_peer_stream_id /\ highest_peer_stream_id \in Nat
      BY <1>0, <2>1, <3>1 DEF SeenInv, TypeInv
    <3> QED BY <3>1, <3>2
  <2> QED BY <2>1
<1> QED BY <1>2, <1>3, <1>8, <1>9, <1>10 DEF Inv

\* clear_stream_buffer takes one stream out of every registry and out of the tombstones.
LEMMA ClearEffect ==
  ASSUME Inv, NEW s \in Ids, clear_stream_buffer(s), locally_open_streams' = locally_open_streams,
         highest_peer_stream_id' \in Nat, highest_peer_stream_id <= highest_peer_stream_id'
  PROVE  /\ peer_open_streams' \subseteq Ids /\ announced_file_streams' \subseteq Ids
         /\ file_stream_candidates' \subseteq Ids
         /\ IsFiniteSet(peer_open_streams') /\ IsFiniteSet(announced_file_streams')
         /\ IsFiniteSet(file_stream_candidates')
         /\ Registries(peer_open_streams', announced_file_streams', file_stream_candidates',
                       highest_peer_stream_id')
         /\ Live' \subseteq Live \ {s} /\ closed_streams' = closed_streams \ {s}
         /\ closed_unknown_order' \in Seq(Ids) /\ Fifo(closed_unknown_order')
         /\ ToSet(closed_unknown_order')
              = closed_streams' \ (Fixed \cup locally_open_streams')
<1>0. TypeInv /\ LiveInv /\ TombInv BY DEF Inv
<1>1. /\ peer_open_streams' = peer_open_streams \ {s}
      /\ announced_file_streams' = announced_file_streams \ {s}
      /\ file_stream_candidates' = file_stream_candidates \ {s}
      /\ closed_streams' = closed_streams \ {s}
  BY DEF clear_stream_buffer
<1>2. Live' \subseteq Live \ {s} BY <1>1 DEF Live
<1>3. /\ IsFiniteSet(peer_open_streams') /\ IsFiniteSet(announced_file_streams')
      /\ IsFiniteSet(file_stream_candidates')
      /\ Registries(peer_open_streams', announced_file_streams', file_stream_candidates',
                    highest_peer_stream_id')
  <2>1. PICK a, b, c, h : /\ a = peer_open_streams /\ b = announced_file_streams
                          /\ c = file_stream_candidates /\ h = highest_peer_stream_id
    OBVIOUS
  <2>2. h \in Nat BY <1>0, <2>1 DEF TypeInv
  <2>3. PICK g \in Nat : g = highest_peer_stream_id' OBVIOUS
  <2>4. h <= g BY <2>1, <2>3
  <2>5. a \cup b \cup c \subseteq Nat BY <1>0, <2>1 DEF TypeInv
  <2>6. IsFiniteSet(a) /\ IsFiniteSet(b) /\ IsFiniteSet(c) /\ Registries(a, b, c, h)
    BY <1>0, <2>1 DEF TypeInv, LiveInv
  <2>7. PICK d \in SUBSET a, e \in SUBSET b, f \in SUBSET c :
           d = peer_open_streams' /\ e = announced_file_streams' /\ f = file_stream_candidates'
    BY <1>1, <2>1
  <2>8. /\ IsFiniteSet(d) /\ IsFiniteSet(e) /\ IsFiniteSet(f) /\ Registries(d, e, f, g)
    BY ONLY <2>2, <2>4, <2>5, <2>6, d \in SUBSET a, e \in SUBSET b, f \in SUBSET c, g \in Nat,
       FewerStreams, ZenonT(60)
  <2> QED BY <2>3, <2>7, <2>8
<1>4. CASE is_known_stream(s)
  <2>1. closed_unknown_order' = closed_unknown_order BY <1>4 DEF clear_stream_buffer
  <2>2. s \in Fixed \cup locally_open_streams \/ s \notin closed_streams
    BY <1>0, <1>4 DEF is_known_stream, LiveInv, Live
  <2>3. ToSet(closed_unknown_order) = closed_streams' \ (Fixed \cup locally_open_streams)
    BY <1>0, <1>1, <2>2 DEF TombInv
  <2> QED BY <1>0, <1>1, <1>2, <1>3, <2>1, <2>3 DEF TypeInv, TombInv
<1>5. CASE ~is_known_stream(s)
  <2> DEFINE q == closed_unknown_order
             r == Retained(q, s)
  <2>1. closed_unknown_order' = r BY <1>5 DEF clear_stream_buffer
  <2>2. r \in Seq(Ids) /\ Fifo(r) /\ ToSet(r) = ToSet(q) \ {s}
    BY <1>0, RetainedFacts DEF TypeInv, TombInv
  <2> HIDE DEF r
  <2>3. ToSet(r) = closed_streams' \ (Fixed \cup locally_open_streams)
    BY <1>0, <1>1, <2>2 DEF TombInv
  <2> QED BY <1>0, <1>1, <1>2, <1>3, <2>1, <2>2, <2>3 DEF TypeInv
<1> QED BY <1>4, <1>5

\* A stream whose bytes are dropped.
LEMMA DropEffect ==
  ASSUME Inv, NEW s \in Ids, NEW o, Admits(o, s), Noted(o), Drop(s),
         UNCHANGED <<reset_streams, reset_unknown_order>>
  PROVE  Inv' /\ Live' \subseteq Live
<1>0. TypeInv /\ LiveInv /\ TombInv BY DEF Inv
<1>1. clear_stream_buffer(s) /\ locally_open_streams' = locally_open_streams
  BY DEF Drop, StreamError
<1>2. SeenInv' /\ highest_peer_stream_id' \in Nat
      /\ highest_peer_stream_id <= highest_peer_stream_id'
  BY NotedSeen
<1>3. /\ peer_open_streams' \subseteq Ids /\ announced_file_streams' \subseteq Ids
      /\ file_stream_candidates' \subseteq Ids
      /\ IsFiniteSet(peer_open_streams') /\ IsFiniteSet(announced_file_streams')
      /\ IsFiniteSet(file_stream_candidates')
      /\ Registries(peer_open_streams', announced_file_streams', file_stream_candidates',
                    highest_peer_stream_id')
      /\ Live' \subseteq Live \ {s} /\ closed_streams' = closed_streams \ {s}
      /\ closed_unknown_order' \in Seq(Ids) /\ Fifo(closed_unknown_order')
      /\ ToSet(closed_unknown_order') = closed_streams' \ (Fixed \cup locally_open_streams')
  BY <1>1, <1>2, ClearEffect
<1>4. TypeInv' BY <1>0, <1>1, <1>2, <1>3 DEF TypeInv
<1>5. LiveInv'
  <2>1. Live' \cap (closed_streams' \cup reset_streams') = {} /\ closed_streams' \cap reset_streams' = {}
    BY <1>0, <1>3 DEF LiveInv
  <2> QED BY <1>3, <2>1 DEF LiveInv
<1>6. TombInv'
  <2>1. Fifo(reset_unknown_order') BY <1>0 DEF TombInv
  <2> QED BY <1>0, <1>1, <1>3, <2>1 DEF TombInv, Fifo
<1> QED BY <1>2, <1>3, <1>4, <1>5, <1>6 DEF Inv

\* RST_STREAM.
LEMMA ResetEffect ==
  ASSUME Inv, NEW s \in Ids, ReceiveReset(s)
  PROVE  Inv' /\ Live' \subseteq Live
<1>0. TypeInv /\ LiveInv /\ TombInv /\ SeenInv BY DEF Inv
<1> DEFINE idle == ~is_known_stream(s) /\ s \notin Live \cup closed_streams \cup reset_streams
           mine == Fixed \cup locally_open_streams
<1>1. CASE idle
  <2>1. UNCHANGED <<peerStreams, tombstones, locally_open_streams>>
    BY <1>1 DEF ReceiveReset, ConnectionError
  <2> QED BY <1>0, <2>1 DEF Inv, TypeInv, LiveInv, TombInv, SeenInv, peerStreams, tombstones,
                            Live, Fifo, Registries
<1>2. CASE ~idle
  <2>1. /\ clear_stream_buffer(s)
        /\ UNCHANGED <<highest_peer_stream_id, seen, locally_open_streams>>
        /\ IF s \in reset_streams \/ s \in mine
           THEN /\ reset_streams' = reset_streams \cup {s}
                /\ UNCHANGED reset_unknown_order
           ELSE /\ reset_streams' = (reset_streams \ Evicted(reset_unknown_order)) \cup {s}
                /\ reset_unknown_order' = Append(Evict(reset_unknown_order), s)
    BY <1>2 DEF ReceiveReset
  <2>2. highest_peer_stream_id' \in Nat /\ highest_peer_stream_id <= highest_peer_stream_id'
    BY <1>0, <2>1 DEF TypeInv
  <2>3. /\ peer_open_streams' \subseteq Ids /\ announced_file_streams' \subseteq Ids
        /\ file_stream_candidates' \subseteq Ids
        /\ IsFiniteSet(peer_open_streams') /\ IsFiniteSet(announced_file_streams')
        /\ IsFiniteSet(file_stream_candidates')
        /\ Registries(peer_open_streams', announced_file_streams', file_stream_candidates',
                      highest_peer_stream_id')
        /\ Live' \subseteq Live \ {s} /\ closed_streams' = closed_streams \ {s}
        /\ closed_unknown_order' \in Seq(Ids) /\ Fifo(closed_unknown_order')
        /\ ToSet(closed_unknown_order') = closed_streams' \ (Fixed \cup locally_open_streams')
    BY <2>1, <2>2, ClearEffect
  <2>4. /\ reset_streams' \subseteq reset_streams \cup {s}
        /\ reset_unknown_order' \in Seq(Ids) /\ Fifo(reset_unknown_order')
        /\ ToSet(reset_unknown_order') \subseteq reset_streams'
        /\ reset_streams' \ ToSet(reset_unknown_order') \subseteq mine
    <3>1. CASE s \in reset_streams \/ s \in mine
      <4>1. reset_streams' = reset_streams \cup {s} /\ reset_unknown_order' = reset_unknown_order
        BY <2>1, <3>1
      <4> QED BY <1>0, <3>1, <4>1 DEF TypeInv, TombInv
    <3>2. CASE ~(s \in reset_streams \/ s \in mine)
      <4> DEFINE q == reset_unknown_order
                 r == Append(Evict(q), s)
      <4>1. reset_streams' = (reset_streams \ Evicted(q)) \cup {s} /\ reset_unknown_order' = r
        BY <2>1, <3>2
      <4>2. q \in Seq(Ids) /\ Fifo(q) /\ s \notin ToSet(q) BY <1>0, <3>2 DEF TypeInv, TombInv
      <4>3. /\ r \in Seq(Ids) /\ Fifo(r) /\ ToSet(r) = (ToSet(q) \ Evicted(q)) \cup {s}
            /\ Evicted(q) \subseteq ToSet(q)
        BY <4>2, BuryFacts
      <4>4. ToSet(q) \subseteq reset_streams /\ reset_streams \ ToSet(q) \subseteq mine
        BY <1>0 DEF TombInv
      <4> HIDE DEF r, q, mine
      <4> QED BY <4>1, <4>3, <4>4
    <3> QED BY <3>1, <3>2
  <2>5. TypeInv' BY <1>0, <2>1, <2>2, <2>3, <2>4 DEF TypeInv
  <2>6. LiveInv'
    <3>1. Live' \cap (closed_streams' \cup reset_streams') = {} /\ closed_streams' \cap reset_streams' = {}
      BY <1>0, <2>3, <2>4 DEF LiveInv
    <3> QED BY <2>3, <3>1 DEF LiveInv
  <2>7. TombInv' BY <1>0, <2>1, <2>3, <2>4 DEF TombInv, Fifo
  <2>8. SeenInv' BY <1>0, <2>1 DEF SeenInv
  <2> QED BY <2>3, <2>5, <2>6, <2>7, <2>8 DEF Inv
<1> QED BY <1>1, <1>2

\* The part of the state the invariant is about.
registry == <<peer_open_streams, announced_file_streams, file_stream_candidates,
              highest_peer_stream_id, seen, tombstones, locally_open_streams>>

\* Steps that only read the registry.
LEMMA QuietEffect ==
  ASSUME Inv, UNCHANGED registry
  PROVE  Inv' /\ Live' = Live
BY DEF Inv, TypeInv, LiveInv, TombInv, SeenInv, registry, tombstones, Live, Fifo, Registries

\* A refused frame, a full queue: the registry is noted but nothing ends.
LEMMA ForgetEffect ==
  ASSUME Inv, NEW s \in Ids, NEW o, Admits(o, s), ~Refuses(s), Noted(o), Forget(o),
         UNCHANGED <<reset_streams, reset_unknown_order, locally_open_streams>>
  PROVE  Inv' /\ (Live' \ Live) \cap seen = {}
<1>1. Registry(o.open, o.announced, o.candidates, o.cand, s, FALSE) BY DEF Forget, Registry
<1>2. mark_end_stream(s, FALSE) BY DEF Forget, mark_end_stream
<1>3. FALSE \in BOOLEAN OBVIOUS
<1> QED BY <1>1, <1>2, <1>3, FrameEffect

\* A DATA frame.
LEMMA DataStep ==
  ASSUME Inv, NEW s \in Ids, NEW n, NEW fin \in BOOLEAN, NEW good, ReceiveData(s, n, fin, good)
  PROVE  Inv' /\ (Live' \ Live) \cap seen = {}
<1> DEFINE o == observe_peer_data_stream(s, n, good)
<1>1. CASE Refuses(s)
  <2>1. UNCHANGED registry
    BY <1>1 DEF ReceiveData, StreamError, registry, peerStreams, tombstones
  <2> QED BY <2>1, QuietEffect
<1>2. CASE ~Refuses(s)
  <2>1. Admits(o, s) BY <1>2, DataAdmits
  <2>2. /\ Noted(o) /\ UNCHANGED <<reset_streams, reset_unknown_order>>
        /\ \/ Drop(s)
           \/ Forget(o) /\ StreamError
           \/ Forget(o) /\ ConnectionError
           \/ Admit(s, n, fin, o)
    BY <1>2 DEF ReceiveData
  <2> HIDE DEF o
  <2>3. CASE Drop(s) BY <2>1, <2>2, <2>3, DropEffect
  <2>4. CASE Forget(o) /\ (StreamError \/ ConnectionError)
    <3>1. locally_open_streams' = locally_open_streams BY <2>4 DEF StreamError, ConnectionError
    <3> QED BY <1>2, <2>1, <2>2, <2>4, <3>1, ForgetEffect
  <2>5. CASE Admit(s, n, fin, o)
    <3>1. /\ Registry(o.open, o.announced, o.candidates, o.cand, s, fin) /\ mark_end_stream(s, fin)
          /\ locally_open_streams' = locally_open_streams
      BY <2>5 DEF Admit
    <3> QED BY <1>2, <2>1, <2>2, <3>1, FrameEffect
  <2> QED BY <2>2, <2>3, <2>4, <2>5
<1> QED BY <1>1, <1>2

\* A HEADERS frame.
LEMMA HeadersStep ==
  ASSUME Inv, NEW s \in Ids, NEW fin \in BOOLEAN, ReceiveHeaders(s, fin)
  PROVE  Inv' /\ (Live' \ Live) \cap seen = {}
<1> DEFINE o == observe_peer_headers(s)
<1>1. CASE Refuses(s) \/ o.fate # "ok"
  <2>1. UNCHANGED registry
    BY <1>1 DEF ReceiveHeaders, StreamError, registry, peerStreams, tombstones
  <2> QED BY <2>1, QuietEffect
<1>2. CASE ~(Refuses(s) \/ o.fate # "ok")
  <2>1. Admits(o, s) /\ ~Refuses(s) BY <1>2, HeadersAdmit
  <2>2. /\ Noted(o) /\ UNCHANGED <<reset_streams, reset_unknown_order, locally_open_streams>>
        /\ Registry(o.open, o.announced, o.candidates, o.cand, s, fin) /\ mark_end_stream(s, fin)
    BY <1>2 DEF ReceiveHeaders
  <2> HIDE DEF o
  <2> QED BY <2>1, <2>2, FrameEffect
<1> QED BY <1>1, <1>2

\* open_stream takes a stream from the peer's registries: it has no tombstone.
LEMMA OpenStep ==
  ASSUME Inv, NEW s \in Ids, OpenLocal(s)
  PROVE  Inv' /\ Live' \subseteq Live
<1>0. TypeInv /\ LiveInv /\ TombInv /\ SeenInv BY DEF Inv
<1>1. /\ locally_open_streams' = locally_open_streams \cup {s}
      /\ s \notin closed_streams /\ s \notin reset_streams
      /\ UNCHANGED <<highest_peer_stream_id, seen, tombstones>>
      /\ peer_open_streams' = peer_open_streams \ {s}
      /\ announced_file_streams' = announced_file_streams \ {s}
      /\ file_stream_candidates' = file_stream_candidates \ {s}
  BY DEF OpenLocal, Unavailable, Registry
<1>2. Live' \subseteq Live BY <1>1 DEF Live
<1>3. /\ IsFiniteSet(peer_open_streams') /\ IsFiniteSet(announced_file_streams')
      /\ IsFiniteSet(file_stream_candidates')
      /\ Registries(peer_open_streams', announced_file_streams', file_stream_candidates',
                    highest_peer_stream_id')
  <2>1. PICK a, b, c, h : /\ a = peer_open_streams /\ b = announced_file_streams
                          /\ c = file_stream_candidates /\ h = highest_peer_stream_id
    OBVIOUS
  <2>2. h \in Nat BY <1>0, <2>1 DEF TypeInv
  <2>3. PICK g \in Nat : g = h /\ g = highest_peer_stream_id' BY <1>1, <2>1, <2>2
  <2>4. h <= g BY <2>2, <2>3
  <2>5. a \cup b \cup c \subseteq Nat BY <1>0, <2>1 DEF TypeInv
  <2>6. IsFiniteSet(a) /\ IsFiniteSet(b) /\ IsFiniteSet(c) /\ Registries(a, b, c, h)
    BY <1>0, <2>1 DEF TypeInv, LiveInv
  <2>7. PICK d \in SUBSET a, e \in SUBSET b, f \in SUBSET c :
           d = peer_open_streams' /\ e = announced_file_streams' /\ f = file_stream_candidates'
    BY <1>1, <2>1
  <2>8. /\ IsFiniteSet(d) /\ IsFiniteSet(e) /\ IsFiniteSet(f) /\ Registries(d, e, f, g)
    BY ONLY <2>2, <2>4, <2>5, <2>6, d \in SUBSET a, e \in SUBSET b, f \in SUBSET c, g \in Nat,
       FewerStreams, ZenonT(60)
  <2> QED BY <2>3, <2>7, <2>8
<1>4. TypeInv'
  <2>1. /\ peer_open_streams' \subseteq Ids /\ announced_file_streams' \subseteq Ids
        /\ file_stream_candidates' \subseteq Ids /\ locally_open_streams' \subseteq Ids
    BY <1>0, <1>1 DEF TypeInv
  <2> QED BY <1>0, <1>1, <1>3, <2>1 DEF TypeInv, tombstones
<1>5. LiveInv'
  <2>1. Live' \cap (closed_streams' \cup reset_streams') = {} /\ closed_streams' \cap reset_streams' = {}
    BY <1>0, <1>1, <1>2 DEF LiveInv, tombstones
  <2> QED BY <1>3, <2>1 DEF LiveInv
<1>6. TombInv'
  <2>1. /\ closed_unknown_order' = closed_unknown_order /\ reset_unknown_order' = reset_unknown_order
        /\ closed_streams' = closed_streams /\ reset_streams' = reset_streams
    BY <1>1 DEF tombstones
  <2>2. closed_streams \ (Fixed \cup locally_open_streams')
          = closed_streams \ (Fixed \cup locally_open_streams)
    BY <1>1
  <2> QED BY <1>0, <1>1, <2>1, <2>2 DEF TombInv, Fifo
<1>7. SeenInv' BY <1>0, <1>1 DEF SeenInv
<1> QED BY <1>2, <1>4, <1>5, <1>6, <1>7 DEF Inv

\* A new framer.
LEMMA InitInv == Init => Inv
<1> SUFFICES ASSUME Init PROVE Inv OBVIOUS
<1>1. IsFiniteSet({}) /\ Cardinality({}) = 0 BY FS_EmptySet
<1>2. Fifo(<<>>) /\ ToSet(<<>>) = {} /\ <<>> \in Seq(Ids) BY DEF Fifo, IsInjective, ToSet
<1>3. TypeInv BY <1>1, <1>2 DEF Init, TypeInv
<1>4. LiveInv
  <2>1. Registries({}, {}, {}, 0) BY <1>1 DEF Registries
  <2> QED BY <2>1 DEF Init, LiveInv, Live
<1>5. TombInv BY <1>2 DEF Init, TombInv
<1>6. SeenInv BY DEF Init, SeenInv
<1> QED BY <1>3, <1>4, <1>5, <1>6 DEF Inv

\* Every frame and every operation keeps the invariant, and revives no stream.
LEMMA InvStep ==
  ASSUME Inv, [Next]_vars
  PROVE  Inv' /\ (Live' \ Live) \cap seen = {}
<1>1. CASE UNCHANGED registry BY <1>1, QuietEffect
<1>2. ASSUME NEW s \in Ids, NEW n \in Lengths, NEW fin \in BOOLEAN, NEW good \in BOOLEAN,
             ReceiveData(s, n, fin, good)
      PROVE  Inv' /\ (Live' \ Live) \cap seen = {}
  BY <1>2, DataStep
<1>3. ASSUME NEW s \in Ids, NEW fin \in BOOLEAN, ReceiveHeaders(s, fin)
      PROVE  Inv' /\ (Live' \ Live) \cap seen = {}
  BY <1>3, HeadersStep
<1>4. ASSUME NEW s \in Ids, ReceiveReset(s)
      PROVE  Inv' /\ (Live' \ Live) \cap seen = {}
  BY <1>4, ResetEffect
<1>5. ASSUME NEW s \in Openable, OpenLocal(s)
      PROVE  Inv' /\ (Live' \ Live) \cap seen = {}
  <2>1. s \in Ids OBVIOUS
  <2> QED BY <1>5, <2>1, OpenStep
<1>6. ASSUME UNCHANGED rest PROVE UNCHANGED registry
  BY <1>6 DEF rest, registry, peerStreams
<1>7. ASSUME NEW s \in Ids, ReceiveGoaway(s) PROVE UNCHANGED registry
  BY <1>7 DEF ReceiveGoaway, ConnectionError, registry, peerStreams
<1>8. CASE ReceiveMalformed
  <2>1. UNCHANGED registry BY <1>8 DEF ReceiveMalformed, ConnectionError, registry, peerStreams
  <2> QED BY <1>1, <2>1
<1>9. CASE (\E s \in Ids, n \in Reads : ReadStart(s, n)) \/ ReadDone \/ ReadFails \/ AnyStart
           \/ WriterWaits \/ NextStart \/ NextDone \/ Return
  <2>1. UNCHANGED rest
    BY <1>9 DEF ReadStart, ReadDone, ReadFails, AnyStart, WriterWaits, NextStart, NextDone, Return
  <2> QED BY <1>1, <1>6, <2>1
<1>10. CASE UNCHANGED vars
  <2>1. UNCHANGED registry BY <1>10 DEF vars, registry, peerStreams
  <2> QED BY <1>1, <2>1
<1>11. CASE Operation
  <2>1. CASE Refused BY <1>10, <2>1 DEF Refused
  <2> QED BY <1>5, <1>9, <1>11, <2>1 DEF Operation
<1>12. CASE Control BY <1>1, <1>3, <1>4, <1>7, <1>8, <1>12 DEF Control
<1> QED BY <1>2, <1>10, <1>11, <1>12 DEF Next

\* The invariant holds in every reachable state.
LEMMA Invariance == Spec => []Inv
<1>1. Inv /\ [Next]_vars => Inv' BY InvStep
<1> QED BY <1>1, InitInv, PTL DEF Spec

\* For every set of streams and every limit, whatever is announced, admitted, ended, reset,
\* evicted or opened in whatever order: a live stream of the peer is in one registry and has
\* no tombstone, the streams not recognised yet and the announced ones stay within their
\* limits, and the tombstone FIFOs list exactly the tombstones that may be evicted.
THEOREM RegistryStaysConsistent == Spec => []RegistryConsistent
<1>1. Inv => RegistryConsistent
  <2> SUFFICES ASSUME Inv PROVE RegistryConsistent OBVIOUS
  <2>1. TypeInv /\ LiveInv /\ TombInv BY DEF Inv
  <2>2. Cardinality(peer_open_streams \cup file_stream_candidates) <= MaxUnknown
    <3> DEFINE a == peer_open_streams
               c == file_stream_candidates
    <3>1. IsFiniteSet(a) /\ IsFiniteSet(c) /\ Cardinality(a) + Cardinality(c) <= MaxUnknown
          /\ a \cap c = {}
      BY <2>1 DEF TypeInv, LiveInv, Registries
    <3> HIDE DEF a, c
    <3>2. Cardinality(a \cup c) = Cardinality(a) + Cardinality(c) - Cardinality(a \cap c)
      BY <3>1, FS_Union
    <3>3. Cardinality(a) \in Nat /\ Cardinality(c) \in Nat /\ Cardinality(a \cap c) = 0
      BY <3>1, FS_CardinalityType, FS_EmptySet
    <3>4. Cardinality(a \cup c) <= MaxUnknown BY <3>1, <3>2, <3>3
    <3> QED BY <3>4 DEF a, c
  <2>3. LiveConsistent BY <2>1, <2>2 DEF LiveConsistent, LiveInv, Registries, Live
  <2>4. TombstonesConsistent BY <2>1 DEF TombstonesConsistent, TombInv, Fifo
  <2> QED BY <2>3, <2>4 DEF RegistryConsistent
<1> QED BY <1>1, Invariance, PTL

\* A peer stream that ended, was reset or was dropped never becomes live again, although its
\* tombstone may be evicted (ensure_peer_stream_not_reused in h2_raw.rs).
THEOREM StreamsNeverReopened == Spec => NeverReopened
<1>1. Inv /\ [Next]_vars => [(Live' \ Live) \cap seen = {}]_vars BY InvStep
<1> QED BY <1>1, Invariance, PTL DEF Spec, NeverReopened

=============================================================================
