-------------------------- MODULE BlockchainProofs --------------------------
(***************************************************************************)
(* Proofs about Blockchain for every set of transactions and callbacks,    *)
(* every set of faults and every bound.                                    *)
(***************************************************************************)
EXTENDS Blockchain, SequenceTheorems, FiniteSetTheorems, TLAPS

\* A pending block of the right type whose index is within its transactions.
WellFormed(p) == p \in PendingBlocks /\ p.index \in 0..Len(p.txs)

\* q is p after some execution: same place in the chain, same transactions.
SameBlock(p, q) ==
    /\ q.height = p.height /\ q.view = p.view /\ q.parent = p.parent
    /\ q.txs = p.txs

\* The transactions of p that succeeded.
Successes(p) == {t \in Txs : p.results[t] = "ok"}

\* What ties the results and the ledger of a pending block to its transactions
\* and to the ledger below it.
Sound(p, base) ==
    /\ \A i, j \in 1..Len(p.txs) : p.txs[i] = p.txs[j] => i = j
    /\ \A t \in Txs : p.results[t] # "none" => \E i \in 1..(p.index) : p.txs[i] = t
    /\ p.ledger.applied = base.applied \cup Successes(p)

Carries(p, q) == \A base : Sound(p, base) => Sound(q, base)

\* No fatal error has skipped a transaction of p.
Clean(p) == \A i \in 1..(p.index) : p.results[p.txs[i]] # "none"

\* A block that can still be committed has the events of its executions, and
\* has done nothing to the ledger but apply what succeeded.
Orderly(p, base) ==
    ~p.finalized => /\ Clean(p) => p.events = SubSeq(p.txs, 1, p.index)
                    /\ p.ledger = AppliedTo(base, Successes(p))

Follows(p, q) == \A base \in Ledgers : Sound(p, base) /\ Orderly(p, base) => Orderly(q, base)

\* q is p with more executed, as a well formed block.
Ran(p, q) ==
    /\ WellFormed(q) /\ SameBlock(p, q) /\ q.finalized = p.finalized
    /\ Carries(p, q)

\* The callbacks found due are a sequence of callbacks that are scheduled.
LEMMA DueListType ==
  ASSUME NEW p, NEW due \in DueLists(p)
  PROVE  /\ due \in Seq(Callbacks)
         /\ \A c \in Range(due) : p.ledger.cb[c] = "scheduled"
         /\ IsInjective(due)
  <1> DEFINE ready == {c \in Callbacks : p.ledger.cb[c] = "scheduled"}
  <1>0. IsInjective(due)
    <2>1. \A s \in DueLists(p) : s = <<>> \/ IsInjective(s)
      BY DEF DueLists
    <2> QED BY <2>1 DEF IsInjective
  <1>1. CASE due = <<>>
    BY <1>0, <1>1 DEF Range
  <1>2. CASE \E n \in Nat : due \in [1..n -> ready]
    <2>1. PICK n \in Nat : due \in [1..n -> ready]
      BY <1>2
    <2>2. Range(due) \subseteq ready
      BY <2>1 DEF Range
    <2> QED BY <1>0, <2>1, <2>2
  <1>3. due # <<>> => \E n \in 0..Cardinality(ready) : due \in [1..n -> ready]
    <2>1. DueLists(p) \subseteq {<<>>} \cup UNION {[1..n -> ready] : n \in 0..Cardinality(ready)}
      BY DEF DueLists
    <2> QED BY <2>1
  <1>4. 0..Cardinality(ready) \subseteq Nat
    OBVIOUS
  <1> QED BY <1>1, <1>2, <1>3, <1>4

\* A segment of the pending transactions is a sequence of transactions.
LEMMA SegmentType ==
  ASSUME NEW S, NEW s \in Seq(S), NEW a \in Nat, NEW b \in 0..Len(s)
  PROVE  /\ SubSeq(s, a + 1, b) \in Seq(S)
         /\ Range(SubSeq(s, a + 1, b)) \subseteq Range(s)
         /\ Range(s) \subseteq S
  <1>1. \A i \in (a + 1)..b : s[i] \in S
    OBVIOUS
  <1>2. SubSeq(s, a + 1, b) \in Seq(S)
    BY <1>1, SubSeqProperties
  <1>3. /\ DOMAIN SubSeq(s, a + 1, b) = 1..Len(SubSeq(s, a + 1, b))
        /\ Len(SubSeq(s, a + 1, b)) = IF a + 1 <= b THEN b - (a + 1) + 1 ELSE 0
        /\ \A i \in 1..(b - (a + 1) + 1) : SubSeq(s, a + 1, b)[i] = s[(a + 1) + i - 1]
    BY <1>1, <1>2, SubSeqProperties, LenProperties
  <1>4. Range(SubSeq(s, a + 1, b)) \subseteq Range(s)
    BY <1>3, LenProperties DEF Range
  <1>5. Range(s) \subseteq S
    BY LenProperties DEF Range
  <1> QED BY <1>2, <1>4, <1>5

\* Adding a transaction keeps the block well formed.
LEMMA AddedType ==
  ASSUME NEW p, WellFormed(p), NEW t \in Txs
  PROVE  /\ WellFormed(Added(p, t))
         /\ Added(p, t) = [p EXCEPT !.txs = Append(p.txs, t)]
         /\ Added(p, t).txs = Append(p.txs, t)
  <1>1. /\ p.txs \in Seq(Txs) /\ Append(p.txs, t) \in Seq(Txs)
        /\ Len(Append(p.txs, t)) = Len(p.txs) + 1 /\ p.index \in 0..Len(p.txs)
    BY DEF WellFormed, PendingBlocks
  <1>2. Added(p, t) = [p EXCEPT !.txs = Append(p.txs, t)]
    BY DEF Added
  <1>3. Added(p, t) \in PendingBlocks
    BY <1>1, <1>2 DEF WellFormed, PendingBlocks
  <1>4. Added(p, t).txs = Append(p.txs, t) /\ Added(p, t).index = p.index
    BY <1>1, <1>2 DEF WellFormed, PendingBlocks
  <1> QED BY <1>1, <1>2, <1>3, <1>4 DEF WellFormed

\* Applying transactions to a ledger gives a ledger.
LEMMA AppliedType ==
  ASSUME NEW l \in Ledgers, NEW S \in SUBSET Txs
  PROVE  AppliedTo(l, S) \in Ledgers
  BY DEF AppliedTo, Ledgers

\* The types of the fields of a well formed block.
LEMMA FieldTypes ==
  ASSUME NEW p, WellFormed(p)
  PROVE  /\ p \in PendingBlocks /\ p.txs \in Seq(Txs) /\ p.index \in 0..Len(p.txs)
         /\ p.events \in Seq(Emitters) /\ p.ledger \in Ledgers /\ p.results \in Results
         /\ p.finalized \in BOOLEAN /\ p.height \in Nat /\ p.view \in Nat
         /\ p.parent \in BlockIDs
         /\ Len(p.txs) \in Nat /\ p.index \in Nat
  BY DEF WellFormed, PendingBlocks

\* What the execution of p up to position m runs, which of it succeeds under
\* the outcomes out, and the results it leaves.
Segment(p, m) == SubSeq(p.txs, p.index + 1, m)
Succeeded(seg, out) == {t \in Range(seg) : out[t] = "ok"}
Recorded(p, seg, out) == [t \in Txs |-> IF t \in Range(seg) THEN out[t] ELSE p.results[t]]

\* Running the transactions up to position m keeps the block well formed.
LEMMA ExecutedType ==
  ASSUME NEW p, WellFormed(p), NEW m \in (p.index)..Len(p.txs), NEW out \in Outcomes
  PROVE  /\ WellFormed(Executed(p, m, out))
         /\ Executed(p, m, out).index = m
         /\ SameBlock(p, Executed(p, m, out))
         /\ Executed(p, m, out).finalized = p.finalized
         /\ Executed(p, m, out).results = Recorded(p, Segment(p, m), out)
         /\ Executed(p, m, out).events = p.events \o Segment(p, m)
         /\ Executed(p, m, out).ledger = AppliedTo(p.ledger, Succeeded(Segment(p, m), out))
  <1> DEFINE seg == SubSeq(p.txs, p.index + 1, m)
             res == [t \in Txs |-> IF t \in Range(seg) THEN out[t] ELSE p.results[t]]
             ev  == p.events \o seg
             led == AppliedTo(p.ledger, {t \in Range(seg) : out[t] = "ok"})
  <1>1. m \in 0..Len(p.txs)
    BY FieldTypes
  <1>2. seg \in Seq(Txs) /\ Range(seg) \subseteq Txs
    BY <1>1, FieldTypes, SegmentType
  <1>3. ev \in Seq(Emitters)
    <2>1. seg \in Seq(Emitters)
      BY <1>2, SeqMonotonic DEF Emitters
    <2> QED BY FieldTypes, <2>1, ConcatProperties
  <1>4. led \in Ledgers
    BY FieldTypes, <1>2, AppliedType
  <1>5. res \in Results
    BY FieldTypes DEF Results, Outcomes
  <1>6. Executed(p, m, out) =
          [p EXCEPT !.index = m, !.results = res, !.events = ev, !.ledger = led]
    BY DEF Executed
  <1> HIDE DEF seg, res, ev, led
  <1> DEFINE q == Executed(p, m, out)
  <1> HIDE DEF q
  <1>7. q = [p EXCEPT !.index = m, !.results = res, !.events = ev, !.ledger = led]
    BY <1>6 DEF q
  <1>p. p \in PendingBlocks /\ m \in Nat
    BY <1>1, FieldTypes
  <1>8. q \in PendingBlocks
    BY <1>p, <1>3, <1>4, <1>5, <1>7 DEF PendingBlocks
  <1>9. /\ q.index = m /\ q.finalized = p.finalized /\ SameBlock(p, q)
        /\ q.results = res /\ q.events = ev /\ q.ledger = led
    BY <1>p, <1>7 DEF PendingBlocks, SameBlock
  <1>10. WellFormed(q)
    BY <1>1, <1>8, <1>9 DEF WellFormed, SameBlock
  <1> QED BY <1>9, <1>10 DEF q, seg, res, ev, led, Segment, Succeeded, Recorded

\* The members of a segment of a sequence.
Elements(s, a, b) == {s[i] : i \in (a + 1)..b}

LEMMA SegmentElements ==
  ASSUME NEW S, NEW s \in Seq(S), NEW a \in Nat, NEW b \in 0..Len(s)
  PROVE  Range(SubSeq(s, a + 1, b)) = Elements(s, a, b)
  <1>1. \A i \in (a + 1)..b : s[i] \in S
    OBVIOUS
  <1> DEFINE seg == SubSeq(s, a + 1, b)
  <1>2. /\ seg \in Seq(S)
        /\ Len(seg) = IF a + 1 <= b THEN b - (a + 1) + 1 ELSE 0
        /\ \A i \in 1..(b - (a + 1) + 1) : seg[i] = s[(a + 1) + i - 1]
    BY <1>1, SubSeqProperties
  <1> HIDE DEF seg
  <1>3. DOMAIN seg = 1..Len(seg)
    BY <1>2, LenProperties
  <1>4. ASSUME NEW x \in Range(seg)
        PROVE  \E i \in (a + 1)..b : s[i] = x
    <2>1. PICK k \in 1..Len(seg) : seg[k] = x
      BY <1>3 DEF Range
    <2>2. /\ a + 1 <= b /\ k \in 1..(b - (a + 1) + 1)
          /\ (a + 1) + k - 1 \in (a + 1)..b
      BY <1>2, <2>1
    <2> QED BY <1>2, <2>1, <2>2
  <1>5. ASSUME NEW i \in (a + 1)..b
        PROVE  s[i] \in Range(seg)
    <2>0. Len(seg) = IF a + 1 <= b THEN b - (a + 1) + 1 ELSE 0
      BY <1>2
    <2>1. i - a \in 1..(b - (a + 1) + 1) /\ (a + 1) + (i - a) - 1 = i /\ i - a \in 1..Len(seg)
      BY <2>0
    <2>2. seg[i - a] = s[i]
      BY <1>2, <2>1
    <2> QED BY <1>3, <2>1, <2>2 DEF Range
  <1> QED BY <1>4, <1>5 DEF seg, Elements

\* Two segments that meet are one.
LEMMA SegmentsMeet ==
  ASSUME NEW S, NEW s \in Seq(S), NEW b \in 0..Len(s), NEW a \in 0..b
  PROVE  SubSeq(s, 1, a) \o SubSeq(s, a + 1, b) = SubSeq(s, 1, b)
  OBVIOUS

\* Applying two sets of transactions one after the other applies both.
LEMMA AppliedTwice ==
  ASSUME NEW l \in Ledgers, NEW A \in SUBSET Txs, NEW B \in SUBSET Txs
  PROVE  AppliedTo(AppliedTo(l, A), B) = AppliedTo(l, A \cup B)
  BY DEF AppliedTo, Ledgers

\* Executing ties results, events and ledger to the transactions that ran.
LEMMA ExecutedCarries ==
  ASSUME NEW p, WellFormed(p), NEW m \in (p.index)..Len(p.txs), NEW out \in Outcomes
  PROVE  Carries(p, Executed(p, m, out)) /\ Follows(p, Executed(p, m, out))
  <1> DEFINE q   == Executed(p, m, out)
             seg == Segment(p, m)
             new == Succeeded(seg, out)
  <1>t. /\ p.txs \in Seq(Txs) /\ p.index \in 0..Len(p.txs) /\ m \in 0..Len(p.txs)
        /\ p.index \in Nat /\ Len(p.txs) \in Nat /\ p.index <= m /\ m \in Nat
        /\ p.ledger \in Ledgers /\ p.results \in Results
    BY FieldTypes
  <1>q. /\ q.index = m /\ q.txs = p.txs /\ q.finalized = p.finalized
        /\ q.results = Recorded(p, seg, out) /\ q.events = p.events \o seg
        /\ q.ledger = AppliedTo(p.ledger, new)
    <2>1. SameBlock(p, q)
      BY ExecutedType
    <2>2. q.txs = p.txs
      BY <2>1 DEF SameBlock
    <2> QED BY <2>2, ExecutedType
  <1>s. /\ \A x : x \in Range(seg) <=> \E i \in (p.index + 1)..m : p.txs[i] = x
        /\ Range(seg) \subseteq Txs
    <2>1. seg \in Seq(Txs) /\ seg = SubSeq(p.txs, p.index + 1, m)
      BY <1>t, SegmentType DEF Segment
    <2>2. Range(SubSeq(p.txs, p.index + 1, m)) = Elements(p.txs, p.index, m)
      BY <1>t, SegmentElements
    <2>3. Range(SubSeq(p.txs, p.index + 1, m)) \subseteq Txs
      BY <1>t, SegmentType
    <2> QED BY <2>1, <2>2, <2>3 DEF Elements
  <1>m. p.events = SubSeq(p.txs, 1, p.index) => q.events = SubSeq(p.txs, 1, m)
    <2>1. SubSeq(p.txs, 1, p.index) \o seg = SubSeq(p.txs, 1, m)
      <3>1. p.index \in 0..m
        BY <1>t
      <3> QED BY <1>t, <3>1, SegmentsMeet DEF Segment
    <2> QED BY <1>q, <2>1
  <1>a. q.ledger.applied = p.ledger.applied \cup new
    BY <1>t, <1>q DEF AppliedTo, Ledgers
  <1>o. \A t \in Txs : out[t] # "none"
    BY DEF Outcomes, Completed
  <1> HIDE DEF q, seg
  <1>1. ASSUME NEW base, Sound(p, base)
        PROVE  /\ Sound(q, base)
               /\ Successes(q) = Successes(p) \cup new
               /\ Clean(q) => Clean(p)
    <2>1. \A i \in 1..(p.index) : p.txs[i] \notin Range(seg)
      BY <1>1, <1>t, <1>s DEF Sound
    <2>2. \A t \in Txs : p.results[t] # "none" => t \notin Range(seg)
      BY <1>1, <2>1 DEF Sound
    <2>3. Successes(q) = Successes(p) \cup new
      BY <1>q, <1>s, <2>2 DEF Successes, Recorded, Succeeded
    <2>4. \A t \in Txs : q.results[t] # "none" => \E i \in 1..m : p.txs[i] = t
      <3> SUFFICES ASSUME NEW t \in Txs, q.results[t] # "none"
                   PROVE  \E i \in 1..m : p.txs[i] = t
        OBVIOUS
      <3>1. CASE t \in Range(seg)
        BY <1>t, <1>s, <3>1
      <3>2. CASE t \notin Range(seg)
        <4>1. p.results[t] # "none"
          BY <1>q, <3>2 DEF Recorded
        <4> QED BY <1>1, <1>t, <4>1 DEF Sound
      <3> QED BY <3>1, <3>2
    <2>5. Sound(q, base)
      BY <1>1, <1>q, <1>a, <2>3, <2>4 DEF Sound
    <2>6. Clean(q) => Clean(p)
      <3> SUFFICES ASSUME Clean(q), NEW i \in 1..(p.index)
                   PROVE  p.results[p.txs[i]] # "none"
        BY DEF Clean
      <3>1. i \in 1..m /\ p.txs[i] \in Txs
        BY <1>t
      <3> QED BY <1>q, <2>1, <3>1 DEF Clean, Recorded
    <2> QED BY <2>3, <2>5, <2>6
  <1>2. ASSUME NEW base \in Ledgers, Sound(p, base), Orderly(p, base)
        PROVE  Orderly(q, base)
    <2> SUFFICES ASSUME ~q.finalized
                 PROVE  /\ Clean(q) => q.events = SubSeq(q.txs, 1, q.index)
                        /\ q.ledger = AppliedTo(base, Successes(q))
      BY DEF Orderly
    <2>1. Clean(q) => q.events = SubSeq(q.txs, 1, q.index)
      BY <1>1, <1>2, <1>q, <1>m DEF Orderly
    <2>2. p.ledger = AppliedTo(base, Successes(p))
      BY <1>2, <1>q DEF Orderly
    <2>3. Successes(p) \in SUBSET Txs /\ new \in SUBSET Txs
      BY <1>s DEF Successes, Succeeded
    <2>4. q.ledger = AppliedTo(base, Successes(p) \cup new)
      BY <1>q, <2>2, <2>3, AppliedTwice
    <2> QED BY <1>1, <1>2, <2>1, <2>4
  <1> QED BY <1>1, <1>2 DEF Carries, Follows, q

\* A fatal error consumes an index and keeps the block well formed.
LEMMA FailedAtType ==
  ASSUME NEW p, WellFormed(p), p.index < Len(p.txs), NEW fault
  PROVE  /\ WellFormed(FailedAt(p, fault))
         /\ SameBlock(p, FailedAt(p, fault))
         /\ FailedAt(p, fault).finalized = p.finalized
         /\ Carries(p, FailedAt(p, fault)) /\ Follows(p, FailedAt(p, fault))
  <1> DEFINE n  == p.index + 1
             ev == IF fault = "merge" THEN Append(p.events, p.txs[p.index + 1]) ELSE p.events
  <1>1. p.txs[p.index + 1] \in Emitters
    BY FieldTypes, ElementOfSeq DEF Emitters
  <1>2. ev \in Seq(Emitters)
    BY FieldTypes, <1>1
  <1>3. FailedAt(p, fault) = [p EXCEPT !.index = n, !.events = ev]
    BY DEF FailedAt
  <1>5. n \in 0..Len(p.txs)
    BY FieldTypes
  <1> HIDE DEF n, ev
  <1> DEFINE q == FailedAt(p, fault)
  <1> HIDE DEF q
  <1>6. q = [p EXCEPT !.index = n, !.events = ev]
    BY <1>3 DEF q
  <1>p. p \in PendingBlocks /\ n \in Nat
    BY <1>5, FieldTypes
  <1>7. q \in PendingBlocks
    BY <1>p, <1>2, <1>6 DEF PendingBlocks
  <1>8. /\ q.index = n /\ q.finalized = p.finalized /\ SameBlock(p, q)
        /\ q.results = p.results /\ q.ledger = p.ledger /\ q.txs = p.txs
    BY <1>p, <1>6 DEF PendingBlocks, SameBlock
  <1>t. /\ p.txs \in Seq(Txs) /\ p.index \in Nat /\ Len(p.txs) \in Nat
        /\ n = p.index + 1 /\ n \in 1..Len(p.txs) /\ p.txs[n] \in Txs
    BY <1>5, FieldTypes, ElementOfSeq DEF n
  <1>9. ASSUME NEW base, Sound(p, base)
        PROVE  Sound(q, base) /\ ~Clean(q) /\ Successes(q) = Successes(p)
    <2>1. Successes(q) = Successes(p)
      BY <1>8 DEF Successes
    <2>2. Sound(q, base)
      BY <1>8, <1>9, <1>t, <2>1 DEF Sound
    <2>3. p.results[p.txs[n]] = "none"
      <3> SUFFICES ASSUME p.results[p.txs[n]] # "none"
                   PROVE  FALSE
        OBVIOUS
      <3>1. PICK i \in 1..(p.index) : p.txs[i] = p.txs[n]
        BY <1>9, <1>t DEF Sound
      <3>2. i \in 1..Len(p.txs) /\ i # n
        BY <1>5, <1>t, FieldTypes
      <3> QED BY <1>9, <1>t, <3>1, <3>2 DEF Sound
    <2>4. n \in 1..(q.index)
      BY <1>8, <1>t
    <2> QED BY <1>8, <2>1, <2>2, <2>3, <2>4 DEF Clean
  <1>10. Carries(p, q)
    BY <1>9 DEF Carries
  <1>11. Follows(p, q)
    BY <1>8, <1>9 DEF Follows, Orderly
  <1> QED BY <1>5, <1>7, <1>8, <1>10, <1>11 DEF WellFormed, SameBlock, q

\* executeBlock only runs transactions, whether it completes or aborts.
LEMMA RunsType ==
  ASSUME NEW p, WellFormed(p), NEW q \in CompleteRuns(p) \cup AbortedRuns(p)
  PROVE  Ran(p, q) /\ Follows(p, q)
  <1>1. CASE q \in CompleteRuns(p)
    <2>1. PICK out \in Outcomes : q = Executed(p, Len(p.txs), out)
      BY <1>1 DEF CompleteRuns
    <2>2. Len(p.txs) \in (p.index)..Len(p.txs)
      BY FieldTypes
    <2> QED BY <2>1, <2>2, ExecutedType, ExecutedCarries DEF Ran
  <1>2. CASE q \in AbortedRuns(p)
    <2>1. PICK m \in (p.index)..(Len(p.txs) - 1), out \in Outcomes, fault \in TxFaults(p) :
             q = FailedAt(Executed(p, m, out), fault)
      BY <1>2 DEF AbortedRuns
    <2> DEFINE r == Executed(p, m, out)
    <2>2. m \in (p.index)..Len(p.txs) /\ m < Len(p.txs)
      BY FieldTypes
    <2>c. Carries(p, r) /\ Follows(p, r)
      BY <2>2, ExecutedCarries
    <2>3. WellFormed(r) /\ r.index = m /\ SameBlock(p, r) /\ r.finalized = p.finalized
      BY <2>2, ExecutedType
    <2> HIDE DEF r
    <2>4. r.index < Len(r.txs)
      BY <2>2, <2>3 DEF SameBlock
    <2>6. q = FailedAt(r, fault)
      BY <2>1 DEF r
    <2>5. WellFormed(q) /\ SameBlock(r, q) /\ q.finalized = r.finalized
          /\ Carries(r, q) /\ Follows(r, q)
      BY <2>3, <2>4, <2>6, FailedAtType
    <2>7. Ran(p, q)
      BY <2>3, <2>5, <2>c DEF Ran, SameBlock, Carries
    <2> QED BY <2>5, <2>7, <2>c DEF Follows, Carries
  <1> QED BY <1>1, <1>2

\* A block with the same transactions, index, results and applied set is as sound.
LEMMA SameCarries ==
  ASSUME NEW p, NEW q, q.txs = p.txs, q.index = p.index, q.results = p.results,
         q.ledger.applied = p.ledger.applied
  PROVE  Carries(p, q) /\ Successes(q) = Successes(p) /\ (Clean(q) <=> Clean(p))
  BY DEF Carries, Sound, Successes, Clean

\* Adding events is a way of running.
LEMMA MoreEvents ==
  ASSUME NEW p, WellFormed(p), NEW e \in Emitters
  PROVE  /\ Ran(p, [p EXCEPT !.events = Append(p.events, e)])
         /\ [p EXCEPT !.events = Append(p.events, e)].results = p.results
         /\ [p EXCEPT !.events = Append(p.events, e)].ledger = p.ledger
         /\ [p EXCEPT !.events = Append(p.events, e)].events = Append(p.events, e)
  <1> DEFINE ev == Append(p.events, e)
             q == [p EXCEPT !.events = ev]
  <1>1. p \in PendingBlocks /\ ev \in Seq(Emitters) /\ p.index \in 0..Len(p.txs)
    BY FieldTypes
  <1> HIDE DEF ev
  <1>2. q \in PendingBlocks
    BY <1>1 DEF PendingBlocks
  <1>3. /\ q.index = p.index /\ q.finalized = p.finalized /\ SameBlock(p, q)
        /\ q.txs = p.txs /\ q.results = p.results /\ q.ledger = p.ledger /\ q.events = ev
    BY <1>1 DEF PendingBlocks, SameBlock
  <1> HIDE DEF q
  <1>4. Carries(p, q)
    BY <1>3, SameCarries
  <1>5. Ran(p, q)
    BY <1>1, <1>2, <1>3, <1>4 DEF Ran, WellFormed
  <1> QED BY <1>3, <1>5 DEF ev, q

\* Running callbacks changes the ledger and the events only.
LEMMA CallbacksType ==
  ASSUME NEW p, WellFormed(p), NEW due \in Seq(Callbacks), NEW k \in 0..Len(due)
  PROVE  /\ Ran(p, AfterCallbacks(p, due, k))
         /\ AfterCallbacks(p, due, k).results = p.results
         /\ AfterCallbacks(p, due, k).ledger =
              IF ScheduledTransactionsEnabled THEN CallbacksRun(p.ledger, due, k) ELSE p.ledger
         /\ AfterCallbacks(p, due, k).events =
              IF ScheduledTransactionsEnabled
              THEN p.events \o (<<Process>> \o SubSeq(due, 1, k)) ELSE p.events
         /\ AfterCallbacks(p, due, k).ledger.applied = p.ledger.applied
  <1> DEFINE seg == SubSeq(due, 1, k)
             ev == p.events \o (<<Process>> \o seg)
             led == CallbacksRun(p.ledger, due, k)
  <1>1. seg \in Seq(Callbacks) /\ Range(seg) \subseteq Callbacks
    <2>1. SubSeq(due, 0 + 1, k) = seg
      OBVIOUS
    <2> HIDE DEF seg
    <2> QED BY <2>1, SegmentType
  <1>2. ev \in Seq(Emitters)
    <2>1. seg \in Seq(Emitters)
      BY <1>1, SeqMonotonic DEF Emitters
    <2>2. <<Process>> \in Seq(Emitters)
      BY DEF Emitters
    <2>3. <<Process>> \o seg \in Seq(Emitters)
      BY <2>1, <2>2, ConcatProperties
    <2> QED BY FieldTypes, <2>3, ConcatProperties
  <1>3. led \in Ledgers
    BY <1>1, FieldTypes DEF CallbacksRun, Ledgers
  <1> DEFINE q == [p EXCEPT !.events = ev, !.ledger = led]
  <1>4. AfterCallbacks(p, due, k) = IF ScheduledTransactionsEnabled THEN q ELSE p
    BY DEF AfterCallbacks
  <1>a. led.applied = p.ledger.applied
    BY FieldTypes DEF CallbacksRun, Ledgers
  <1> HIDE DEF seg, ev, led
  <1>5. p \in PendingBlocks /\ p.index \in 0..Len(p.txs)
    BY FieldTypes
  <1>6. q \in PendingBlocks
    BY <1>2, <1>3, <1>5 DEF PendingBlocks
  <1>7. /\ q.index = p.index /\ q.finalized = p.finalized /\ SameBlock(p, q)
        /\ q.txs = p.txs /\ q.results = p.results /\ q.ledger = led /\ q.events = ev
    BY <1>5 DEF PendingBlocks, SameBlock
  <1> HIDE DEF q
  <1>8. Ran(p, q)
    BY <1>5, <1>6, <1>7, <1>a, SameCarries DEF Ran, WellFormed, SameBlock
  <1>9. Ran(p, p)
    BY DEF Ran, SameBlock, Carries
  <1>10. CASE ScheduledTransactionsEnabled
    BY <1>4, <1>7, <1>8, <1>10, <1>a DEF seg, ev, led
  <1>11. CASE ~ScheduledTransactionsEnabled
    BY <1>4, <1>9, <1>11
  <1> QED BY <1>10, <1>11

\* Ran is transitive.
LEMMA RanTrans ==
  ASSUME NEW p, NEW q, NEW r, Ran(p, q), Ran(q, r)
  PROVE  Ran(p, r)
  BY DEF Ran, SameBlock, Carries

\* The system chunk adds its event.
LEMMA ChunkType ==
  ASSUME NEW p, WellFormed(p), NEW due \in Seq(Callbacks)
  PROVE  /\ Ran(p, AfterChunk(p, due))
         /\ AfterChunk(p, due).results = p.results
         /\ AfterChunk(p, due).ledger.applied = p.ledger.applied
         /\ AfterChunk(p, due).ledger =
              IF ScheduledTransactionsEnabled THEN CallbacksRun(p.ledger, due, Len(due)) ELSE p.ledger
         /\ AfterChunk(p, due).events = p.events \o SystemTransactions(due)
  <1> DEFINE q == AfterCallbacks(p, due, Len(due))
  <1>1. /\ Ran(p, q) /\ q.results = p.results /\ q.ledger.applied = p.ledger.applied
        /\ q.ledger = IF ScheduledTransactionsEnabled
                      THEN CallbacksRun(p.ledger, due, Len(due)) ELSE p.ledger
        /\ q.events = IF ScheduledTransactionsEnabled
                      THEN p.events \o (<<Process>> \o SubSeq(due, 1, Len(due))) ELSE p.events
    BY CallbacksType, LenProperties
  <1>2. AfterChunk(p, due) = [q EXCEPT !.events = Append(q.events, Chunk)]
    BY DEF AfterChunk
  <1> HIDE DEF q
  <1>3. WellFormed(q) /\ Chunk \in Emitters
    BY <1>1 DEF Ran, Emitters
  <1> DEFINE r == [q EXCEPT !.events = Append(q.events, Chunk)]
  <1>4. Ran(q, r) /\ r.results = q.results /\ r.ledger = q.ledger /\ r.events = Append(q.events, Chunk)
    BY <1>3, MoreEvents
  <1>5. r = AfterChunk(p, due)
    BY <1>2
  <1> HIDE DEF r
  <1>6. r.events = p.events \o SystemTransactions(due)
    <2>1. /\ SubSeq(due, 1, Len(due)) = due /\ due \in Seq(Emitters) /\ <<Process>> \in Seq(Emitters)
          /\ p.events \in Seq(Emitters) /\ Chunk \in Emitters
      BY FieldTypes, SeqMonotonic DEF Emitters
    <2>2. CASE ScheduledTransactionsEnabled
      <3>1. q.events = p.events \o (<<Process>> \o due)
        BY <1>1, <2>1, <2>2
      <3>2. Append(p.events \o (<<Process>> \o due), Chunk) = p.events \o (<<Process>> \o due \o <<Chunk>>)
        <4> DEFINE ev == p.events
        <4>1. ev \in Seq(Emitters)
          BY <2>1
        <4> HIDE DEF ev
        <4>2. /\ <<Process>> \o due \in Seq(Emitters) /\ <<Chunk>> \in Seq(Emitters)
              /\ ev \o (<<Process>> \o due) \in Seq(Emitters)
          BY <2>1, <4>1, ConcatProperties
        <4>3. Append(ev \o (<<Process>> \o due), Chunk) = (ev \o (<<Process>> \o due)) \o <<Chunk>>
          BY <2>1, <4>2, AppendIsConcat
        <4>4. (ev \o (<<Process>> \o due)) \o <<Chunk>> = ev \o (<<Process>> \o due \o <<Chunk>>)
          BY <4>1, <4>2, ConcatAssociative
        <4> QED BY <4>3, <4>4 DEF ev
      <3> QED BY <1>4, <2>2, <3>1, <3>2 DEF SystemTransactions
    <2>3. CASE ~ScheduledTransactionsEnabled
      <3>1. Append(p.events, Chunk) = p.events \o <<Chunk>>
        BY <2>1
      <3> QED BY <1>1, <1>4, <2>3, <3>1 DEF SystemTransactions
    <2> QED BY <2>2, <2>3
  <1>7. Ran(p, r)
    BY <1>1, <1>4, RanTrans
  <1>8. r.results = p.results /\ r.ledger = q.ledger
    BY <1>1, <1>4
  <1> QED BY <1>1, <1>5, <1>6, <1>7, <1>8

\* A commit that fails before the store leaves the same block, further run.
LEMMA FailuresType ==
  ASSUME NEW p, WellFormed(p), NEW due \in Seq(Callbacks),
         NEW q \in ScheduledFailures(p, due) \cup ChunkFailures(p, due)
  PROVE  Ran(p, q)
  <1>1. CASE q = p
    BY <1>1 DEF Ran, SameBlock, Carries
  <1>2. CASE q = [p EXCEPT !.events = Append(p.events, Process)]
    BY <1>2, MoreEvents DEF Emitters
  <1>3. CASE \E k \in 0..Len(due) : q = AfterCallbacks(p, due, k)
    BY <1>3, CallbacksType
  <1>4. CASE \E k \in 0..(Len(due) - 1) :
                q = [AfterCallbacks(p, due, k) EXCEPT !.events = Append(@, due[k + 1])]
    <2>1. PICK k \in 0..(Len(due) - 1) :
                q = [AfterCallbacks(p, due, k) EXCEPT !.events = Append(@, due[k + 1])]
      BY <1>4
    <2> DEFINE r == AfterCallbacks(p, due, k)
               e == due[k + 1]
    <2>2. k \in 0..Len(due) /\ e \in Emitters
      BY LenProperties, ElementOfSeq DEF Emitters
    <2>3. Ran(p, r)
      BY <2>2, CallbacksType
    <2>4. q = [r EXCEPT !.events = Append(r.events, e)]
      BY <2>1
    <2> HIDE DEF r, e
    <2>5. WellFormed(r)
      BY <2>3 DEF Ran
    <2>6. Ran(r, q)
      BY <2>2, <2>4, <2>5, MoreEvents
    <2> QED BY <2>3, <2>6, RanTrans
  <1>5. CASE q = AfterChunk(p, due)
    BY <1>5, ChunkType
  <1> QED BY <1>1, <1>2, <1>3, <1>4, <1>5, LenProperties DEF ScheduledFailures, ChunkFailures

-----------------------------------------------------------------------------
(* The shape of a step.  The invariants speak of the place of the pending  *)
(* block in the chain, of its transactions and of the stored blocks, so    *)
(* the operations fall into three kinds.                                   *)

\* The scheduled transactions and the system chunk of a commit never fail.
SystemNeverFails == Faults \cap {"scheduled", "chunk"} = {}

\* q is the pending block after an acceptable transaction may have been added
\* and transactions may have run.
Kept(q) ==
    /\ WellFormed(q)
    /\ q.height = pending.height /\ q.view = pending.view /\ q.parent = pending.parent
    /\ \/ q.txs = pending.txs
       \/ \E t \in Txs : Acceptable(pending, t) /\ q.txs = Append(pending.txs, t)
    /\ pending.finalized => q.finalized
    /\ Carries(pending, q)
    /\ SystemNeverFails => Follows(pending, q)

Prepared(q) == Kept(q) /\ q.finalized = pending.finalized

KeepStep ==
    /\ Kept(pending')
    /\ UNCHANGED <<blocks, latest, entropy>>

RenewStep ==
    /\ pending' \in NewPendingBlocks(blocks[latest])
    /\ UNCHANGED <<blocks, latest>>
    /\ entropy' \in {entropy, ZeroID}

StoreStep(p, due) ==
    /\ Prepared(p) /\ ~p.finalized /\ CountsMatch(p)
    /\ due \in Seq(Callbacks) /\ \A c \in Range(due) : p.ledger.cb[c] = "scheduled"
    /\ IsInjective(due)
    /\ Store(BlockOf(p, due))
    /\ \/ pending' \in NewPendingBlocks(BlockOf(p, due)) /\ entropy' = BlockID(p)
       \/ pending' = Finalize(AfterChunk(p, due)) /\ UNCHANGED entropy /\ "index" \in Faults

Shape == KeepStep \/ RenewStep \/ \E p, due : StoreStep(p, due)

\* A block that only ran further is still the prepared one.
LEMMA RanPrepared ==
  ASSUME NEW p, NEW q, Prepared(p), Ran(p, q), SystemNeverFails => Follows(p, q)
  PROVE  Prepared(q)
  <1>1. Carries(pending, q)
    BY DEF Prepared, Kept, Ran, Carries
  <1>2. SystemNeverFails => Follows(pending, q)
    BY DEF Prepared, Kept, Carries, Follows
  <1> QED BY <1>1, <1>2 DEF Prepared, Kept, Ran, SameBlock

\* A block is the block it was.
LEMMA SelfKept ==
  ASSUME WellFormed(pending)
  PROVE  Prepared(pending)
  BY DEF Prepared, Kept, Carries, Follows

\* Finalizing keeps everything else.
LEMMA FinalizeType ==
  ASSUME NEW p, WellFormed(p)
  PROVE  /\ WellFormed(Finalize(p)) /\ SameBlock(p, Finalize(p))
         /\ Finalize(p).finalized = TRUE
         /\ Finalize(p).events = p.events /\ Finalize(p).ledger = p.ledger
         /\ Finalize(p).results = p.results /\ Finalize(p).index = p.index
         /\ Carries(p, Finalize(p)) /\ Follows(p, Finalize(p))
  <1>1. p \in PendingBlocks /\ p.index \in 0..Len(p.txs)
    BY FieldTypes
  <1>2. Finalize(p) = [p EXCEPT !.finalized = TRUE]
    BY DEF Finalize
  <1>3. Finalize(p) \in PendingBlocks
    BY <1>1, <1>2 DEF PendingBlocks
  <1>4. /\ SameBlock(p, Finalize(p)) /\ Finalize(p).index = p.index
        /\ Finalize(p).finalized = TRUE
        /\ Finalize(p).events = p.events /\ Finalize(p).ledger = p.ledger
        /\ Finalize(p).results = p.results /\ Finalize(p).txs = p.txs
    BY <1>1, <1>2 DEF PendingBlocks, SameBlock
  <1>5. Carries(p, Finalize(p))
    BY <1>4, SameCarries
  <1>6. Follows(p, Finalize(p))
    BY <1>4 DEF Follows, Orderly
  <1> QED BY <1>1, <1>3, <1>4, <1>5, <1>6 DEF WellFormed, SameBlock

\* Every way out of commitBlock has one of the three shapes.
LEMMA CommitShape ==
  ASSUME NEW p, Prepared(p), Commit(p)
  PROVE  Shape
  <1> USE DEF Shape
  <1>w. WellFormed(p)
    BY DEF Prepared, Kept
  <1>1. CASE pending' = p /\ UNCHANGED <<blocks, latest, entropy>>
    BY <1>1 DEF KeepStep, Prepared
  <1>2. ASSUME NEW due \in DueLists(p), ~p.finalized,
               SealBlock(p, due) \/ FailAfterStore(p, due)
        PROVE  Shape
    <2>1. /\ due \in Seq(Callbacks) /\ \A c \in Range(due) : p.ledger.cb[c] = "scheduled"
          /\ IsInjective(due)
      BY DueListType
    <2> QED BY <1>2, <2>1 DEF SealBlock, FailAfterStore, StoreStep
  <1>3. ASSUME NEW due \in DueLists(p), ~p.finalized, FailBeforeStore(p, due)
        PROVE  Shape
    <2>1. due \in Seq(Callbacks)
      BY DueListType
    <2>2. CASE /\ pending' \in ScheduledFailures(p, due) \cup ChunkFailures(p, due)
               /\ ~SystemNeverFails
      <3>1. Ran(p, pending')
        BY <1>w, <2>1, <2>2, FailuresType
      <3>2. Prepared(pending')
        BY <3>1, <2>2, RanPrepared
      <3> QED BY <3>2, <1>3 DEF KeepStep, FailBeforeStore, Prepared
    <2>3. CASE pending' = Finalize(AfterChunk(p, due))
      <3> DEFINE q == AfterChunk(p, due)
      <3>1. Ran(p, q)
        BY <1>w, <2>1, ChunkType
      <3>3. pending' = Finalize(q)
        BY <2>3
      <3> HIDE DEF q
      <3>4. /\ WellFormed(pending') /\ SameBlock(q, pending') /\ pending'.finalized = TRUE
            /\ Carries(q, pending')
        BY <3>1, <3>3, FinalizeType DEF Ran
      <3>5. Carries(pending, pending')
        BY <3>1, <3>4 DEF Prepared, Kept, Ran, Carries
      <3>6. Follows(pending, pending')
        BY <3>4 DEF Follows, Orderly
      <3>7. Kept(pending')
        BY <3>1, <3>4, <3>5, <3>6 DEF Prepared, Kept, Ran, SameBlock
      <3> QED BY <3>7, <1>3 DEF KeepStep, FailBeforeStore
    <2>4. /\ "scheduled" \in Faults => ~SystemNeverFails
          /\ "chunk" \in Faults => ~SystemNeverFails
      BY DEF SystemNeverFails
    <2> QED BY <1>3, <2>2, <2>3, <2>4 DEF FailBeforeStore
  <1> QED BY <1>1, <1>2, <1>3 DEF Commit

\* So has every way out of executeAndCommitBlock.
LEMMA ExecuteAndCommitShape ==
  ASSUME NEW p, Prepared(p), ExecuteAndCommit(p)
  PROVE  Shape
  <1>w. WellFormed(p)
    BY DEF Prepared, Kept
  <1>1. CASE pending' = p /\ UNCHANGED <<blocks, latest, entropy>>
    BY <1>1 DEF Shape, KeepStep, Prepared
  <1>2. ASSUME NEW q \in CompleteRuns(p), Commit(q)
        PROVE  Shape
    BY <1>w, <1>2, RunsType, RanPrepared, CommitShape
  <1>3. CASE pending' \in AbortedRuns(p) /\ UNCHANGED <<blocks, latest, entropy>>
    <2>1. Prepared(pending')
      BY <1>w, <1>3, RunsType, RanPrepared
    <2> QED BY <1>3, <2>1 DEF Shape, KeepStep, Prepared
  <1> QED BY <1>1, <1>2, <1>3 DEF ExecuteAndCommit

\* Every step of the specification has one of the three shapes.
LEMMA StepShape ==
  ASSUME TypeOK, [Next]_vars
  PROVE  Shape /\ autoMine' \in BOOLEAN
  <1>w. WellFormed(pending)
    BY DEF TypeOK, WellFormed
  <1>p. Prepared(pending)
    BY <1>w, SelfKept
  <1>1. ASSUME NEW t \in Txs, Acceptable(pending, t)
        PROVE  Prepared(Added(pending, t))
    <2>1. /\ WellFormed(Added(pending, t))
          /\ Added(pending, t) = [pending EXCEPT !.txs = Append(pending.txs, t)]
          /\ Added(pending, t).txs = Append(pending.txs, t)
      BY <1>w, AddedType
    <2>2. pending \in PendingBlocks /\ pending.txs \in Seq(Txs) /\ pending.index = 0
      BY <1>w, <1>1, FieldTypes DEF Acceptable, ExecutionStarted
    <2>3. /\ Added(pending, t).height = pending.height
          /\ Added(pending, t).view = pending.view
          /\ Added(pending, t).parent = pending.parent
          /\ Added(pending, t).finalized = pending.finalized
          /\ Added(pending, t).index = 0
          /\ Added(pending, t).results = pending.results
          /\ Added(pending, t).ledger = pending.ledger
          /\ Added(pending, t).events = pending.events
      BY <2>1, <2>2 DEF PendingBlocks
    <2> DEFINE q == Added(pending, t)
    <2> HIDE DEF q
    <2>4. \A i \in 1..Len(pending.txs) : pending.txs[i] # t
      <3>1. t \notin Range(pending.txs)
        BY <1>1 DEF Acceptable, ContainsTransaction
      <3> QED BY <2>2, <3>1, LenProperties DEF Range
    <2>5. Successes(q) = Successes(pending)
      BY <2>3 DEF Successes, q
    <2>6. ASSUME NEW base, Sound(pending, base)
          PROVE  Sound(q, base)
      <3>1. /\ Len(q.txs) = Len(pending.txs) + 1 /\ q.txs[Len(pending.txs) + 1] = t
            /\ \A i \in 1..Len(pending.txs) : q.txs[i] = pending.txs[i]
            /\ Len(pending.txs) \in Nat
        BY <2>1, <2>2 DEF q
      <3>2. \A i, j \in 1..Len(q.txs) : q.txs[i] = q.txs[j] => i = j
        <4>1. \A i, j \in 1..Len(pending.txs) : pending.txs[i] = pending.txs[j] => i = j
          BY <2>6 DEF Sound
        <4>2. \A i \in 1..Len(q.txs) : i \in 1..Len(pending.txs) \/ i = Len(pending.txs) + 1
          BY <3>1
        <4>3. \A i \in 1..Len(pending.txs) : q.txs[i] # t
          BY <2>4, <3>1
        <4> QED BY <3>1, <4>1, <4>2, <4>3
      <3>3. 1..(pending.index) = {} /\ q.results = pending.results
        BY <2>2, <2>3 DEF q
      <3> QED BY <2>3, <2>5, <2>6, <3>2, <3>3 DEF Sound, q
    <2>7. ASSUME NEW base, Orderly(pending, base)
          PROVE  Orderly(q, base)
      <3>1. SubSeq(q.txs, 1, 0) = <<>> /\ SubSeq(pending.txs, 1, 0) = <<>> /\ 1..0 = {}
        BY <2>1, <2>2 DEF q
      <3> QED BY <2>2, <2>3, <2>5, <2>7, <3>1 DEF Orderly, Clean, q
    <2>8. Carries(pending, q) /\ Follows(pending, q)
      BY <2>6, <2>7 DEF Carries, Follows
    <2> QED BY <1>1, <2>1, <2>3, <2>8 DEF Prepared, Kept, q
  <1>2. ASSUME NEW t \in Txs, AddTransaction(t)
        PROVE  Shape /\ autoMine' \in BOOLEAN
    <2>1. Acceptable(pending, t) /\ pending' = Added(pending, t) /\ UNCHANGED <<blocks, latest, autoMine, entropy>>
      BY <1>2 DEF AddTransaction
    <2> QED BY <1>1, <2>1 DEF Shape, KeepStep, Prepared, TypeOK
  <1>3. ASSUME NEW t \in Txs, SendTransaction(t)
        PROVE  Shape /\ autoMine' \in BOOLEAN
    <2>1. CASE autoMine
      BY <1>1, <1>3, <2>1, ExecuteAndCommitShape DEF SendTransaction, TypeOK
    <2>2. CASE ~autoMine
      <3>1. Acceptable(pending, t) /\ pending' = Added(pending, t) /\ UNCHANGED <<blocks, latest, autoMine, entropy>>
        BY <1>3, <2>2 DEF SendTransaction
      <3> QED BY <1>1, <3>1 DEF Shape, KeepStep, Prepared, TypeOK
    <2> QED BY <2>1, <2>2
  <1>4. CASE ExecuteBlock
    <2>1. Prepared(pending')
      BY <1>w, <1>p, <1>4, RunsType, RanPrepared DEF ExecuteBlock
    <2> QED BY <1>4, <2>1 DEF ExecuteBlock, Shape, KeepStep, Prepared, TypeOK
  <1>5. CASE ExecuteNextTransaction
    <2>1. pending.index < Len(pending.txs) /\ pending.index + 1 \in (pending.index)..Len(pending.txs)
      BY <1>w, <1>5, FieldTypes DEF ExecuteNextTransaction, ExecutionComplete
    <2>2. Ran(pending, pending') /\ Follows(pending, pending')
      <3>1. ASSUME NEW out \in Outcomes, pending' = Executed(pending, pending.index + 1, out)
            PROVE  Ran(pending, pending') /\ Follows(pending, pending')
        BY <1>w, <2>1, <3>1, ExecutedType, ExecutedCarries DEF Ran
      <3>2. ASSUME NEW fault, pending' = FailedAt(pending, fault)
            PROVE  Ran(pending, pending') /\ Follows(pending, pending')
        BY <1>w, <2>1, <3>2, FailedAtType DEF Ran
      <3> QED BY <1>5, <3>1, <3>2 DEF ExecuteNextTransaction
    <2>3. Prepared(pending')
      BY <1>p, <2>2, RanPrepared
    <2> QED BY <1>5, <2>3 DEF ExecuteNextTransaction, Shape, KeepStep, Prepared, TypeOK
  <1>6. CASE CommitBlock
    BY <1>6, <1>p, CommitShape DEF CommitBlock, TypeOK
  <1>7. CASE ExecuteAndCommitBlock
    BY <1>7, <1>p, ExecuteAndCommitShape DEF ExecuteAndCommitBlock, TypeOK
  <1>8. CASE ResetPendingBlock
    BY <1>8 DEF ResetPendingBlock, Shape, RenewStep, TypeOK
  <1>9. CASE Restart
    BY <1>9 DEF Restart, Shape, RenewStep, TypeOK
  <1>10. CASE EnableAutoMine \/ DisableAutoMine
    <2>1. /\ pending' = pending /\ UNCHANGED <<blocks, latest, entropy>> /\ autoMine' \in BOOLEAN
      BY <1>10 DEF EnableAutoMine, DisableAutoMine
    <2>2. Kept(pending')
      BY <1>p, <2>1 DEF Prepared
    <2> QED BY <2>1, <2>2 DEF Shape, KeepStep
  <1>11. CASE UNCHANGED vars
    <2>1. Kept(pending')
      BY <1>11, <1>p DEF vars, Prepared
    <2> QED BY <1>11, <2>1 DEF vars, Shape, KeepStep, TypeOK
  <1> QED BY <1>2, <1>3, <1>4, <1>5, <1>6, <1>7, <1>8, <1>9, <1>10, <1>11 DEF Next

\* Only a restart starts a process, and only a restart forgets the latest block.
LEMMA StartsStep ==
  ASSUME [Next]_vars
  PROVE  \/ UNCHANGED starts /\ (UNCHANGED entropy \/ entropy' # ZeroID)
         \/ /\ starts' = starts \cup {latest} /\ entropy' = ZeroID
            /\ UNCHANGED <<blocks, latest>> /\ pending' \in NewPendingBlocks(blocks[latest])
  <1>0. \A p : BlockID(p) # ZeroID
    BY DEF BlockID, ZeroID
  <1>a. ASSUME NEW p, Commit(p) PROVE UNCHANGED entropy \/ entropy' # ZeroID
    BY <1>0, <1>a DEF Commit, SealBlock, FailAfterStore, FailBeforeStore
  <1>b. ASSUME NEW p, ExecuteAndCommit(p) PROVE UNCHANGED entropy \/ entropy' # ZeroID
    BY <1>a, <1>b DEF ExecuteAndCommit
  <1>1. CASE UNCHANGED vars
    BY <1>1 DEF vars
  <1>2. ASSUME NEW t \in Txs, AddTransaction(t) \/ SendTransaction(t)
        PROVE  UNCHANGED starts /\ (UNCHANGED entropy \/ entropy' # ZeroID)
    BY <1>2, <1>b DEF AddTransaction, SendTransaction
  <1>3. CASE ExecuteBlock \/ ExecuteNextTransaction \/ ResetPendingBlock
    BY <1>3 DEF ExecuteBlock, ExecuteNextTransaction, ResetPendingBlock
  <1>4. CASE CommitBlock \/ ExecuteAndCommitBlock
    BY <1>4, <1>a, <1>b DEF CommitBlock, ExecuteAndCommitBlock
  <1>5. CASE EnableAutoMine \/ DisableAutoMine
    BY <1>5 DEF EnableAutoMine, DisableAutoMine
  <1>6. CASE Restart
    BY <1>6 DEF Restart
  <1> QED BY <1>1, <1>2, <1>3, <1>4, <1>5, <1>6 DEF Next

-----------------------------------------------------------------------------
(* Types and the links of the chain                                        *)

\* The identifier of a block or of a pending block is an identifier.
LEMMA BlockIDType ==
  ASSUME NEW b, b.height \in Nat, b.view \in Nat, b.txs \in Seq(Txs)
  PROVE  BlockID(b) \in BlockIDs
  BY DEF BlockID, BlockIDs

\* What is handed to storage is a block with the header, the transactions and
\* the results of the pending block.
LEMMA BlockOfType ==
  ASSUME NEW p, WellFormed(p), NEW due \in Seq(Callbacks), entropy \in BlockIDs
  PROVE  /\ BlockOf(p, due) \in Blocks
         /\ BlockOf(p, due).height = p.height /\ BlockOf(p, due).view = p.view
         /\ BlockOf(p, due).parent = p.parent /\ BlockOf(p, due).txs = p.txs
         /\ BlockOf(p, due).results = p.results
         /\ BlockOf(p, due).sys = SystemTransactions(due)
         /\ BlockOf(p, due).events = p.events \o SystemTransactions(due)
         /\ BlockOf(p, due).ledger =
              IF ScheduledTransactionsEnabled THEN CallbacksRun(p.ledger, due, Len(due)) ELSE p.ledger
         /\ BlockOf(p, due).ledger.applied = p.ledger.applied
         /\ BlockOf(p, due).random = entropy
         /\ BlockID(BlockOf(p, due)) = BlockID(p)
  <1> DEFINE q == AfterChunk(p, due)
             sys == SystemTransactions(due)
  <1>1. q.events \in Seq(Emitters) /\ q.ledger \in Ledgers
    BY ChunkType, FieldTypes DEF Ran
  <1>2. sys \in Seq(Emitters)
    <2>1. due \in Seq(Emitters) /\ <<Process>> \in Seq(Emitters) /\ <<Chunk>> \in Seq(Emitters)
      BY SeqMonotonic DEF Emitters
    <2>2. <<Process>> \o due \o <<Chunk>> \in Seq(Emitters)
      BY <2>1, ConcatProperties
    <2> QED BY <2>1, <2>2 DEF SystemTransactions
  <1>3. BlockOf(p, due) =
          [height |-> p.height, view |-> p.view, parent |-> p.parent, txs |-> p.txs,
           results |-> p.results, sys |-> sys, events |-> q.events,
           ledger |-> q.ledger, random |-> entropy]
    BY DEF BlockOf
  <1>4. /\ q.events = p.events \o sys /\ q.ledger.applied = p.ledger.applied
        /\ q.ledger = IF ScheduledTransactionsEnabled
                      THEN CallbacksRun(p.ledger, due, Len(due)) ELSE p.ledger
    BY ChunkType
  <1> HIDE DEF q
  <1>5. sys = SystemTransactions(due)
    OBVIOUS
  <1> HIDE DEF sys
  <1>6. BlockOf(p, due) \in Blocks /\ BlockID(BlockOf(p, due)) = BlockID(p)
    BY <1>1, <1>2, <1>3, FieldTypes DEF Blocks, BlockID
  <1> QED BY <1>3, <1>4, <1>5, <1>6

\* A new pending block is well formed and sits on top of its predecessor.
LEMMA NewPendingType ==
  ASSUME NEW prev \in Blocks, NEW q \in NewPendingBlocks(prev)
  PROVE  /\ WellFormed(q) /\ q.txs = <<>> /\ ~q.finalized
         /\ q.height = prev.height + 1 /\ q.parent = BlockID(prev)
         /\ q.view \in (prev.view + 1)..(prev.view + MaxViewIncrease)
         /\ q.ledger = prev.ledger /\ q.results = NoResults
  <1>1. PICK v \in 1..MaxViewIncrease : q = PendingOn(prev, v)
    BY DEF NewPendingBlocks
  <1>2. /\ prev.height \in Nat /\ prev.view \in Nat /\ prev.txs \in Seq(Txs)
        /\ prev.ledger \in Ledgers
    BY DEF Blocks
  <1>3. BlockID(prev) \in BlockIDs /\ NoResults \in Results
    BY <1>2, BlockIDType DEF NoResults, Results
  <1>4. MaxViewIncrease \in Nat
    BY ConstantsAssumption
  <1>5. v \in Nat /\ prev.view + v \in (prev.view + 1)..(prev.view + MaxViewIncrease)
    BY <1>2, <1>4
  <1> HIDE DEF BlockID
  <1>6. q \in PendingBlocks /\ q.index = 0 /\ q.txs = <<>>
    BY <1>1, <1>2, <1>3, <1>5 DEF PendingOn, PendingBlocks
  <1> QED BY <1>1, <1>2, <1>5, <1>6 DEF PendingOn, WellFormed

\* The inductive invariant behind the links of the chain.
ChainInv == TypeOK /\ ChainLinked

\* What the store holds after a block was committed on top of the chain.
LEMMA StoreFacts ==
  ASSUME ChainInv, NEW p, NEW due, StoreStep(p, due)
  PROVE  /\ p.height = latest + 1 /\ latest' = latest + 1
         /\ DOMAIN blocks' = 0..(latest + 1)
         /\ \A h \in 0..latest : blocks'[h] = blocks[h]
         /\ blocks'[latest + 1] = BlockOf(p, due)
         /\ BlockOf(p, due) \in Blocks
         /\ WellFormed(p) /\ ~pending.finalized /\ latest \in Nat
  <1>1. WellFormed(p) /\ p.height = pending.height /\ ~pending.finalized
    BY DEF StoreStep, Prepared, Kept
  <1>2. p.height = latest + 1 /\ latest \in Nat /\ DOMAIN blocks = 0..latest
    BY <1>1 DEF ChainInv, ChainLinked, TypeOK
  <1>3. BlockOf(p, due) \in Blocks /\ BlockOf(p, due).height = p.height
    BY <1>1, BlockOfType DEF StoreStep, ChainInv, TypeOK
  <1> DEFINE b == BlockOf(p, due)
  <1> HIDE DEF b
  <1>4. /\ blocks' = [h \in DOMAIN blocks \cup {b.height} |->
                        IF h = b.height THEN b ELSE blocks[h]]
        /\ latest' = IF b.height >= latest THEN b.height ELSE latest
    BY DEF StoreStep, Store, b
  <1>5. b.height = latest + 1
    BY <1>2, <1>3 DEF b
  <1> QED BY <1>1, <1>2, <1>3, <1>4, <1>5 DEF b

\* The genesis block is a block.
LEMMA GenesisType == GenesisBlock \in Blocks /\ GenesisBlock.height = 0
  <1>1. <<Bootstrap>> \in Seq(Emitters)
    BY DEF Emitters
  <1> QED BY <1>1 DEF GenesisBlock, Blocks, EmptyLedger, Ledgers, NoResults, Results, ZeroID, BlockIDs

\* Every step keeps the invariant.
LEMMA ChainInvStep ==
  ASSUME ChainInv, [Next]_vars
  PROVE  ChainInv'
  <1>0. /\ latest \in Nat /\ DOMAIN blocks = 0..latest /\ blocks[latest] \in Blocks
        /\ blocks \in [0..latest -> Blocks] /\ blocks[latest].height = latest
        /\ entropy \in BlockIDs /\ ZeroID \in BlockIDs /\ pending.height \in Nat
    BY DEF ChainInv, TypeOK, ChainLinked, BlockIDs, PendingBlocks
  <1>1. Shape /\ autoMine' \in BOOLEAN
    BY StepShape DEF ChainInv
  <1>s. starts' \subseteq Nat
    BY <1>0, StartsStep DEF ChainInv, TypeOK
  <1>2. CASE KeepStep
    <2>1. TypeOK'
      BY <1>1, <1>s, <1>2 DEF KeepStep, Kept, WellFormed, ChainInv, TypeOK
    <2>2. ChainLinked'
      BY <1>2 DEF KeepStep, Kept, ChainInv, ChainLinked, BlockID
    <2> QED BY <2>1, <2>2 DEF ChainInv
  <1>3. CASE RenewStep
    <2>1. /\ WellFormed(pending') /\ pending'.height = latest + 1
          /\ pending'.parent = BlockID(blocks[latest])
          /\ pending'.view \in (blocks[latest].view + 1)..(blocks[latest].view + MaxViewIncrease)
      BY <1>0, <1>3, NewPendingType DEF RenewStep
    <2>2. TypeOK'
      BY <1>0, <1>1, <1>s, <1>3, <2>1 DEF RenewStep, WellFormed, ChainInv, TypeOK
    <2>3. ChainLinked'
      <3>1. pending'.height - 1 = latest
        BY <1>0, <2>1
      <3> QED BY SMTT(30), <1>0, <1>3, <2>1, <3>1 DEF RenewStep, ChainInv, ChainLinked, BlockID
    <2> QED BY <2>2, <2>3 DEF ChainInv
  <1>4. ASSUME NEW p, NEW due, StoreStep(p, due)
        PROVE  ChainInv'
    <2> DEFINE b == BlockOf(p, due)
    <2>1. /\ p.height = latest + 1 /\ latest' = latest + 1
          /\ DOMAIN blocks' = 0..(latest + 1)
          /\ \A h \in 0..latest : blocks'[h] = blocks[h]
          /\ blocks'[latest + 1] = b
          /\ b \in Blocks
          /\ WellFormed(p)
      BY <1>4, StoreFacts
    <2>2. /\ p.parent = pending.parent /\ p.view = pending.view /\ p.height = pending.height
          /\ due \in Seq(Callbacks) /\ ~pending.finalized
      BY <1>4, StoreFacts DEF StoreStep, Prepared, Kept
    <2>3. /\ b.height = latest + 1 /\ b.parent = p.parent /\ b.view = p.view
          /\ BlockID(b) = BlockID(p) /\ b.txs = p.txs
      BY <1>0, <2>1, <2>2, BlockOfType
    <2> HIDE DEF b
    <2>4. pending.parent = BlockID(blocks[latest]) /\ pending.height - 1 = latest
          /\ pending.view \in (blocks[latest].view + 1)..(blocks[latest].view + MaxViewIncrease)
      BY <1>0, <2>1, <2>2 DEF ChainInv, ChainLinked
    <2>5. \/ /\ pending' \in NewPendingBlocks(b) /\ entropy' = BlockID(p)
          \/ /\ pending' = Finalize(AfterChunk(p, due)) /\ entropy' = entropy
      BY <1>4 DEF StoreStep, b
    <2>6. entropy' \in BlockIDs
      BY <1>0, <2>1, <2>5, FieldTypes, BlockIDType
    <2>7. /\ blocks' \in [DOMAIN blocks' -> Blocks] /\ DOMAIN blocks' \subseteq Nat
          /\ latest' \in Nat
      <3>1. \A h \in DOMAIN blocks' : blocks'[h] \in Blocks
        BY <1>0, <2>1
      <3>2. blocks' = [h \in DOMAIN blocks' |-> blocks'[h]]
        BY <1>4 DEF StoreStep, Store
      <3> QED BY <1>0, <2>1, <3>1, <3>2
    <2>8. \A h \in 0..latest' : blocks'[h].height = h
      BY <1>0, <2>1, <2>3 DEF ChainInv, ChainLinked
    <2>9. \A h \in 1..latest' :
            /\ blocks'[h].parent = BlockID(blocks'[h - 1])
            /\ blocks'[h].view \in (blocks'[h - 1].view + 1)..(blocks'[h - 1].view + MaxViewIncrease)
      <3> SUFFICES ASSUME NEW h \in 1..latest'
                   PROVE  /\ blocks'[h].parent = BlockID(blocks'[h - 1])
                          /\ blocks'[h].view \in (blocks'[h - 1].view + 1)
                                                 ..(blocks'[h - 1].view + MaxViewIncrease)
        OBVIOUS
      <3>1. CASE h = latest + 1
        <4>1. blocks'[h] = b /\ blocks'[h - 1] = blocks[latest]
          BY <1>0, <2>1, <3>1
        <4> QED BY <2>2, <2>3, <2>4, <4>1
      <3>2. CASE h \in 1..latest
        <4>1. blocks'[h] = blocks[h] /\ blocks'[h - 1] = blocks[h - 1]
          BY <1>0, <2>1, <3>2
        <4> QED BY <3>2, <4>1 DEF ChainInv, ChainLinked
      <3> QED BY <1>0, <2>1, <3>1, <3>2
    <2>10. CASE pending' \in NewPendingBlocks(b)
      <3>1. /\ WellFormed(pending') /\ pending'.height = latest + 2
            /\ pending'.parent = BlockID(b)
            /\ pending'.view \in (b.view + 1)..(b.view + MaxViewIncrease)
        BY <1>0, <2>1, <2>3, <2>10, NewPendingType
      <3>2. pending'.height - 1 = latest + 1 /\ blocks'[latest + 1] = b
        BY <1>0, <2>1, <3>1
      <3>3. TypeOK'
        BY <1>1, <1>s, <2>6, <2>7, <3>1 DEF TypeOK, WellFormed
      <3>4. ChainLinked'
        BY <1>0, <2>1, <2>8, <2>9, <3>1, <3>2 DEF ChainLinked, BlockID
      <3> QED BY <3>3, <3>4 DEF ChainInv
    <2>11. CASE pending' = Finalize(AfterChunk(p, due))
      <3> DEFINE q == AfterChunk(p, due)
      <3>1. Ran(p, q)
        BY <2>1, <2>2, ChunkType
      <3> HIDE DEF q
      <3>2. WellFormed(Finalize(q)) /\ SameBlock(q, Finalize(q)) /\ Finalize(q).finalized = TRUE
        BY <3>1, FinalizeType DEF Ran
      <3>3. /\ WellFormed(pending') /\ pending'.finalized /\ pending'.height = latest + 1
            /\ pending'.parent = pending.parent /\ pending'.view = pending.view
        BY <2>1, <2>2, <2>11, <3>1, <3>2 DEF q, Ran, SameBlock
      <3>4. pending'.height - 1 = latest /\ blocks'[latest] = blocks[latest]
        BY <1>0, <2>1, <3>3
      <3>5. TypeOK'
        BY <1>1, <1>s, <2>6, <2>7, <3>3 DEF TypeOK, WellFormed
      <3>6. ChainLinked'
        BY <1>0, <2>1, <2>4, <2>8, <2>9, <3>3, <3>4 DEF ChainLinked, BlockID
      <3> QED BY <3>5, <3>6 DEF ChainInv
    <2> QED BY <2>5, <2>10, <2>11
  <1> QED BY <1>1, <1>2, <1>3, <1>4 DEF Shape

\* The invariant holds initially.
LEMMA ChainInvInit == Init => ChainInv
  <1> SUFFICES ASSUME Init PROVE ChainInv
    OBVIOUS
  <1>1. GenesisBlock \in Blocks /\ GenesisBlock.height = 0
    BY GenesisType
  <1>2. /\ WellFormed(pending) /\ pending.height = 1
        /\ pending.parent = BlockID(GenesisBlock)
        /\ pending.view \in (GenesisBlock.view + 1)..(GenesisBlock.view + MaxViewIncrease)
    BY <1>1, NewPendingType DEF Init
  <1>3. /\ blocks = [h \in {0} |-> GenesisBlock] /\ latest = 0 /\ autoMine = FALSE
        /\ entropy \in BlockIDs /\ starts = {0}
    BY DEF Init, ZeroID, BlockIDs
  <1>4. DOMAIN blocks = 0..0 /\ blocks[0] = GenesisBlock /\ 1..0 = {}
    BY <1>3
  <1>5. TypeOK
    <2>1. DOMAIN blocks \subseteq Nat /\ blocks \in [DOMAIN blocks -> Blocks]
      BY <1>1, <1>3
    <2>2. latest \in Nat /\ autoMine \in BOOLEAN
      BY <1>3
    <2>4. starts \subseteq Nat
      <3>1. starts = {0}
        BY <1>3
      <3> QED BY <3>1
    <2>3. entropy \in BlockIDs
      BY <1>3
    <2> QED BY <1>2, <2>1, <2>2, <2>3, <2>4 DEF TypeOK, WellFormed
  <1>6. ChainLinked
    BY <1>1, <1>2, <1>3, <1>4 DEF ChainLinked
  <1> QED BY <1>5, <1>6 DEF ChainInv

LEMMA ChainInvariant == Spec => []ChainInv
  BY ChainInvInit, ChainInvStep, PTL DEF Spec

\* Every reachable state is well typed: whatever fails in an execution or a
\* commit, the execution index stays within the pending transactions.
THEOREM TypeCorrect == Spec => []TypeOK
  <1>1. ChainInv => TypeOK
    BY DEF ChainInv
  <1> QED BY <1>1, ChainInvariant, PTL

\* The chain in storage is linked and the pending block continues it, in every
\* reachable state.
THEOREM ChainIsLinked == Spec => []ChainLinked
  <1>1. ChainInv => ChainLinked
    BY DEF ChainInv
  <1> QED BY <1>1, ChainInvariant, PTL

\* A step keeps the blocks that are stored.
LEMMA BlocksStay ==
  ASSUME ChainInv, [Next]_vars
  PROVE  \A h \in DOMAIN blocks : h \in DOMAIN blocks' /\ blocks'[h] = blocks[h]
  <1>1. Shape
    BY StepShape DEF ChainInv
  <1>2. CASE KeepStep \/ RenewStep
    BY <1>2 DEF KeepStep, RenewStep
  <1>3. ASSUME NEW p, NEW due, StoreStep(p, due)
        PROVE  \A h \in DOMAIN blocks : h \in DOMAIN blocks' /\ blocks'[h] = blocks[h]
    <2>1. DOMAIN blocks = 0..latest
      BY DEF ChainInv, ChainLinked
    <2> QED BY <1>3, <2>1, StoreFacts
  <1> QED BY <1>1, <1>2, <1>3 DEF Shape

\* No operation on the pending block replaces or removes a stored block: a
\* store is always at the height above the latest one.
THEOREM StoredBlocksStay == Spec => ChainIsAppendOnly
  <1>1. ChainInv /\ [Next]_vars =>
          [\A h \in DOMAIN blocks : h \in DOMAIN blocks' /\ blocks'[h] = blocks[h]]_vars
    BY BlocksStay
  <1> QED BY <1>1, ChainInvariant, PTL DEF Spec, ChainIsAppendOnly

-----------------------------------------------------------------------------
(* A transaction is sealed at most once                                    *)

\* The transactions of a pending block are pairwise different, and those of a
\* block that can still be committed are not in storage.
PoolInv ==
    /\ \A i, j \in 1..Len(pending.txs) : pending.txs[i] = pending.txs[j] => i = j
    /\ SealedAtMostOnce

\* What a kept block holds is new and without repetition.
LEMMA KeptFresh ==
  ASSUME ChainInv, PoolInv, NEW p, Kept(p)
  PROVE  /\ \A i, j \in 1..Len(p.txs) : p.txs[i] = p.txs[j] => i = j
         /\ ~p.finalized => \A i \in 1..Len(p.txs) : ~Stored(p.txs[i])
  <1>0. pending.txs \in Seq(Txs) /\ Range(pending.txs) = {pending.txs[i] : i \in 1..Len(pending.txs)}
    BY LenProperties DEF ChainInv, TypeOK, PendingBlocks, Range
  <1>f. ~p.finalized => \A i \in 1..Len(pending.txs) : ~Stored(pending.txs[i])
    BY <1>0 DEF PoolInv, SealedAtMostOnce, Kept
  <1>1. CASE p.txs = pending.txs
    BY <1>f, <1>1 DEF PoolInv
  <1>2. ASSUME NEW t \in Txs, Acceptable(pending, t), p.txs = Append(pending.txs, t)
        PROVE  /\ \A i, j \in 1..Len(p.txs) : p.txs[i] = p.txs[j] => i = j
               /\ ~p.finalized => \A i \in 1..Len(p.txs) : ~Stored(p.txs[i])
    <2>1. /\ Len(p.txs) = Len(pending.txs) + 1 /\ Len(pending.txs) \in Nat
          /\ p.txs[Len(p.txs)] = t
          /\ \A i \in 1..Len(pending.txs) : p.txs[i] = pending.txs[i]
      BY <1>0, <1>2
    <2>2. ~Stored(t) /\ \A i \in 1..Len(pending.txs) : pending.txs[i] # t
      BY <1>0, <1>2 DEF Acceptable, ContainsTransaction
    <2>3. \A i \in 1..Len(p.txs) : i \in 1..Len(pending.txs) \/ i = Len(p.txs)
      BY <2>1
    <2>4. \A i, j \in 1..Len(p.txs) : p.txs[i] = p.txs[j] => i = j
      BY <2>1, <2>2, <2>3 DEF PoolInv
    <2> QED BY <1>f, <2>1, <2>2, <2>3, <2>4
  <1> QED BY <1>1, <1>2 DEF Kept

LEMMA PoolInvStep ==
  ASSUME ChainInv, ChainInv', PoolInv, [Next]_vars
  PROVE  PoolInv'
  <1>0. /\ latest \in Nat /\ DOMAIN blocks = 0..latest
        /\ \A h \in DOMAIN blocks : blocks[h] \in Blocks /\ blocks[h].txs \in Seq(Txs)
    BY DEF ChainInv, TypeOK, ChainLinked, Blocks
  <1>1. Shape
    BY StepShape DEF ChainInv
  <1>r. /\ pending'.txs \in Seq(Txs)
        /\ Range(pending'.txs) = {pending'.txs[i] : i \in 1..Len(pending'.txs)}
    BY LenProperties DEF ChainInv, TypeOK, PendingBlocks, Range
  <1>2. CASE KeepStep
    <2>1. /\ \A i, j \in 1..Len(pending'.txs) : pending'.txs[i] = pending'.txs[j] => i = j
          /\ ~pending'.finalized => \A i \in 1..Len(pending'.txs) : ~Stored(pending'.txs[i])
      BY <1>2, KeptFresh DEF KeepStep
    <2> QED BY <1>2, <1>r, <2>1 DEF KeepStep, PoolInv, SealedAtMostOnce, Stored
  <1>3. CASE RenewStep
    <2>1. pending'.txs = <<>> /\ Len(pending'.txs) = 0 /\ Range(pending'.txs) = {}
      <3>1. pending'.txs = <<>>
        BY <1>0, <1>3, NewPendingType DEF RenewStep
      <3> QED BY <1>r, <3>1
    <2> QED BY <1>3, <2>1 DEF RenewStep, PoolInv, SealedAtMostOnce, Stored
  <1>4. ASSUME NEW p, NEW due, StoreStep(p, due)
        PROVE  PoolInv'
    <2> DEFINE b == BlockOf(p, due)
    <2>1. /\ latest' = latest + 1 /\ DOMAIN blocks' = 0..(latest + 1)
          /\ \A h \in 0..latest : blocks'[h] = blocks[h]
          /\ blocks'[latest + 1] = b /\ b \in Blocks
          /\ WellFormed(p)
      BY <1>4, StoreFacts
    <2>2. b.txs = p.txs /\ due \in Seq(Callbacks) /\ p.txs \in Seq(Txs)
      BY <1>4, <2>1, BlockOfType, FieldTypes DEF StoreStep, ChainInv, TypeOK
    <2> HIDE DEF b
    <2>3. /\ \A i, j \in 1..Len(p.txs) : p.txs[i] = p.txs[j] => i = j
          /\ \A i \in 1..Len(p.txs) : ~Stored(p.txs[i])
      BY <1>4, KeptFresh DEF StoreStep, Prepared
    <2>4. \A h \in 0..latest : \A i \in 1..Len(blocks[h].txs), j \in 1..Len(p.txs) :
             blocks[h].txs[i] # p.txs[j]
      <3> SUFFICES ASSUME NEW h \in 0..latest, NEW i \in 1..Len(blocks[h].txs),
                          NEW j \in 1..Len(p.txs), blocks[h].txs[i] = p.txs[j]
                   PROVE  FALSE
        OBVIOUS
      <3>1. blocks[h].txs[i] \in Range(blocks[h].txs)
        BY <1>0, LenProperties DEF Range
      <3>2. Stored(p.txs[j])
        BY <1>0, <3>1 DEF Stored
      <3> QED BY <2>3, <3>2
    <2>5. \A g, h \in 0..(latest + 1) :
            \A i \in 1..Len(blocks'[g].txs), j \in 1..Len(blocks'[h].txs) :
               blocks'[g].txs[i] = blocks'[h].txs[j] => g = h /\ i = j
      <3> SUFFICES ASSUME NEW g \in 0..(latest + 1), NEW h \in 0..(latest + 1),
                          NEW i \in 1..Len(blocks'[g].txs), NEW j \in 1..Len(blocks'[h].txs),
                          blocks'[g].txs[i] = blocks'[h].txs[j]
                   PROVE  g = h /\ i = j
        OBVIOUS
      <3>1. CASE g \in 0..latest /\ h \in 0..latest
        BY SMTT(30), <1>0, <2>1, <3>1 DEF PoolInv, SealedAtMostOnce
      <3>2. CASE g = latest + 1 /\ h = latest + 1
        BY <2>1, <2>2, <2>3, <3>2
      <3>3. CASE g = latest + 1 /\ h \in 0..latest
        BY SMTT(30), <2>1, <2>2, <2>4, <3>3
      <3>4. CASE g \in 0..latest /\ h = latest + 1
        BY SMTT(30), <2>1, <2>2, <2>4, <3>4
      <3> QED BY <1>0, <3>1, <3>2, <3>3, <3>4
    <2>6. CASE pending' \in NewPendingBlocks(b)
      <3>1. pending'.txs = <<>>
        BY <2>1, <2>6, NewPendingType
      <3>2. Len(pending'.txs) = 0 /\ Range(pending'.txs) = {}
        BY <1>r, <3>1
      <3> QED BY <2>1, <2>5, <3>2 DEF PoolInv, SealedAtMostOnce, Stored
    <2>7. CASE pending' = Finalize(AfterChunk(p, due))
      <3>1. Ran(p, AfterChunk(p, due))
        BY <2>1, <2>2, ChunkType
      <3>2. pending'.txs = p.txs /\ pending'.finalized
        BY <2>7, <3>1, FinalizeType DEF Ran, SameBlock
      <3> QED BY <2>1, <2>3, <2>5, <3>2 DEF PoolInv, SealedAtMostOnce
    <2> QED BY <1>4, <2>6, <2>7 DEF StoreStep, b
  <1> QED BY <1>1, <1>2, <1>3, <1>4 DEF Shape

LEMMA PoolInvariant == Spec => []PoolInv
  <1>1. Init => PoolInv
    <2> SUFFICES ASSUME Init PROVE PoolInv
      OBVIOUS
    <2>1. pending.txs = <<>> /\ blocks = [h \in {0} |-> GenesisBlock] /\ GenesisBlock.txs = <<>>
      BY DEF Init, NewPendingBlocks, PendingOn, GenesisBlock
    <2>2. Range(pending.txs) = {} /\ Len(pending.txs) = 0 /\ Len(GenesisBlock.txs) = 0
      BY <2>1 DEF Range
    <2> QED BY <2>1, <2>2 DEF PoolInv, SealedAtMostOnce
  <1>2. ChainInv /\ ChainInv' /\ PoolInv /\ [Next]_vars => PoolInv'
    BY PoolInvStep
  <1> QED BY <1>1, <1>2, ChainInvariant, PTL DEF Spec

\* No transaction is sealed twice, in any behaviour: neither by two submissions,
\* nor by a retry after a commit that failed before or behind the store.
THEOREM AtMostOnce == Spec => []SealedAtMostOnce
  <1>1. PoolInv => SealedAtMostOnce
    BY DEF PoolInv
  <1> QED BY <1>1, PoolInvariant, PTL

-----------------------------------------------------------------------------
(* Results and ledgers                                                     *)

\* The counts that storage compares are equal only if no transaction of the
\* block was left without a result.
LEMMA CountsComplete ==
  ASSUME NEW p, WellFormed(p), CountsMatch(p)
  PROVE  \A t \in Range(p.txs) : p.results[t] # "none"
  <1> DEFINE R == Range(p.txs)
             D == {t \in R : p.results[t] # "none"}
             n == Len(p.txs)
  <1>1. p.txs \in Seq(Txs) /\ n \in Nat /\ DOMAIN p.txs = 1..n
    BY FieldTypes, LenProperties
  <1>2. p.txs \in Surjection(1..n, R)
    BY <1>1 DEF Surjection, Range
  <1>3. IsFiniteSet(1..n) /\ Cardinality(1..n) = n
    BY <1>1, FS_Interval
  <1>4. IsFiniteSet(R) /\ Cardinality(R) <= n
    BY <1>2, <1>3, FS_Surjection
  <1>5. D \in SUBSET R /\ Cardinality(D) = n
    BY DEF CountsMatch
  <1> HIDE DEF R, D, n
  <1>6. /\ Cardinality(D) <= Cardinality(R) /\ Cardinality(R) \in Nat
        /\ Cardinality(R) = Cardinality(D) => R = D
    BY <1>4, <1>5, FS_Subset, FS_CardinalityType
  <1>7. R = D
    BY <1>1, <1>4, <1>5, <1>6
  <1> QED BY <1>7 DEF R, D

\* The inductive invariant behind the results and the ledgers: the pending block
\* owes its ledger to the block below it and to its own successful transactions,
\* and has results for nothing but what it executed.
LedgerInv ==
    /\ Sound(pending, blocks[pending.height - 1].ledger)
    /\ SealedHasResult
    /\ LedgerIsHistory

\* A new pending block is sound.
LEMMA NewPendingSound ==
  ASSUME NEW prev \in Blocks, NEW q \in NewPendingBlocks(prev)
  PROVE  Sound(q, prev.ledger) /\ Successes(q) = {}
  <1>1. q.txs = <<>> /\ q.ledger = prev.ledger /\ q.results = NoResults
    BY NewPendingType
  <1>2. Successes(q) = {}
    BY <1>1 DEF Successes, NoResults
  <1> QED BY <1>1, <1>2 DEF Sound, NoResults

\* Every transaction of a stored block has its result, and nothing else has one
\* there.
LEMMA StoredResults ==
  ASSUME NEW p, WellFormed(p), CountsMatch(p), NEW base, Sound(p, base)
  PROVE  \A t \in Txs : (p.results[t] # "none") <=> (t \in Range(p.txs))
  <1>1. p.txs \in Seq(Txs) /\ p.index \in 0..Len(p.txs) /\ DOMAIN p.txs = 1..Len(p.txs)
    BY FieldTypes, LenProperties
  <1>2. \A t \in Txs : p.results[t] # "none" => t \in Range(p.txs)
    BY <1>1 DEF Sound, Range
  <1> QED BY <1>2, CountsComplete

LEMMA LedgerInvStep ==
  ASSUME ChainInv, ChainInv', LedgerInv, [Next]_vars
  PROVE  LedgerInv'
  <1>0. /\ latest \in Nat /\ DOMAIN blocks = 0..latest /\ blocks[latest] \in Blocks
        /\ blocks[latest].height = latest /\ pending.height \in Nat
        /\ entropy \in BlockIDs
    BY DEF ChainInv, TypeOK, ChainLinked, PendingBlocks
  <1>1. Shape
    BY StepShape DEF ChainInv
  <1>2. CASE KeepStep
    <2>1. blocks' = blocks /\ pending'.height = pending.height /\ Carries(pending, pending')
      BY <1>2 DEF KeepStep, Kept
    <2>2. Sound(pending', blocks[pending.height - 1].ledger)
      BY <2>1 DEF LedgerInv, Carries
    <2>3. Sound(pending, blocks[pending.height - 1].ledger)'
      BY <2>1, <2>2 DEF Sound, Successes
    <2>4. SealedHasResult' /\ LedgerIsHistory'
      BY <2>1 DEF LedgerInv, SealedHasResult, LedgerIsHistory
    <2> QED BY <2>3, <2>4 DEF LedgerInv
  <1>3. CASE RenewStep
    <2>1. blocks' = blocks /\ pending' \in NewPendingBlocks(blocks[latest])
      BY <1>3 DEF RenewStep
    <2>2. pending'.height - 1 = latest
      BY <1>0, <2>1, NewPendingType
    <2>3. Sound(pending', blocks[latest].ledger)
      BY <1>0, <2>1, NewPendingSound
    <2>4. Sound(pending, blocks[pending.height - 1].ledger)'
      BY <2>1, <2>2, <2>3 DEF Sound, Successes
    <2>5. SealedHasResult' /\ LedgerIsHistory'
      BY <2>1 DEF LedgerInv, SealedHasResult, LedgerIsHistory
    <2> QED BY <2>4, <2>5 DEF LedgerInv
  <1>4. ASSUME NEW p, NEW due, StoreStep(p, due)
        PROVE  LedgerInv'
    <2> DEFINE b == BlockOf(p, due)
    <2>1. /\ p.height = latest + 1 /\ DOMAIN blocks' = 0..(latest + 1)
          /\ \A h \in 0..latest : blocks'[h] = blocks[h]
          /\ blocks'[latest + 1] = b /\ b \in Blocks
          /\ WellFormed(p)
      BY <1>4, StoreFacts
    <2>2. /\ due \in Seq(Callbacks) /\ CountsMatch(p) /\ p.height = pending.height
          /\ Carries(pending, p)
      BY <1>4 DEF StoreStep, Prepared, Kept
    <2>3. /\ b.txs = p.txs /\ b.results = p.results /\ b.ledger.applied = p.ledger.applied
          /\ b.height = latest + 1
      BY <1>0, <2>1, <2>2, BlockOfType
    <2>4. \/ pending' \in NewPendingBlocks(b)
          \/ pending' = Finalize(AfterChunk(p, due))
      BY <1>4 DEF StoreStep
    <2> HIDE DEF b
    <2>5. Sound(p, blocks[latest].ledger)
      <3>1. pending.height - 1 = latest
        BY <1>0, <2>1, <2>2
      <3> QED BY <2>2, <3>1 DEF LedgerInv, Carries
    <2>6. SealedHasResult'
      <3> SUFFICES ASSUME NEW h \in 0..(latest + 1), NEW t \in Txs
                   PROVE  (blocks'[h].results[t] # "none") <=> (t \in Range(blocks'[h].txs))
        BY <2>1 DEF SealedHasResult
      <3>1. CASE h = latest + 1
        BY <2>1, <2>2, <2>3, <2>5, <3>1, StoredResults
      <3>2. CASE h \in 0..latest
        BY <1>0, <2>1, <3>2 DEF LedgerInv, SealedHasResult
      <3> QED BY <1>0, <3>1, <3>2
    <2>7. LedgerIsHistory'
      <3> SUFFICES ASSUME NEW h \in 0..(latest + 1)
                   PROVE  blocks'[h].ledger.applied =
                            {t \in Txs : \E g \in 0..(latest + 1) :
                                            g <= h /\ blocks'[g].results[t] = "ok"}
        BY <2>1 DEF LedgerIsHistory
      <3>1. \A k \in 0..latest : blocks[k].ledger.applied =
              {t \in Txs : \E g \in 0..latest : g <= k /\ blocks[g].results[t] = "ok"}
        BY <1>0 DEF LedgerInv, LedgerIsHistory
      <3>2. CASE h = latest + 1
        <4>1. blocks'[h].ledger.applied = blocks[latest].ledger.applied \cup Successes(p)
          BY <2>1, <2>3, <2>5, <3>2 DEF Sound
        <4>2. \A t \in Txs : t \in blocks[latest].ledger.applied <=>
                             \E g \in 0..latest : blocks'[g].results[t] = "ok"
          BY <1>0, <2>1, <3>1
        <4>3. \A t \in Txs : t \in Successes(p) <=> blocks'[latest + 1].results[t] = "ok"
          BY <2>1, <2>3 DEF Successes
        <4>4. blocks[latest].ledger.applied \subseteq Txs /\ Successes(p) \subseteq Txs
          BY <1>0 DEF Blocks, Ledgers, Successes
        <4>5. \A g : g \in 0..(latest + 1) <=> (g \in 0..latest \/ g = latest + 1)
          BY <1>0
        <4>6. \A g \in 0..(latest + 1) : g <= h
          BY <1>0, <3>2
        <4> QED BY <4>1, <4>2, <4>3, <4>4, <4>5, <4>6
      <3>3. CASE h \in 0..latest
        <4>1. blocks'[h].ledger.applied = blocks[h].ledger.applied
          BY <2>1, <3>3
        <4>2. \A g \in 0..(latest + 1) : g <= h => g \in 0..latest /\ blocks'[g] = blocks[g]
          BY <1>0, <2>1, <3>3
        <4>3. 0..latest \subseteq 0..(latest + 1)
          BY <1>0
        <4> QED BY <3>1, <3>3, <4>1, <4>2, <4>3
      <3> QED BY <1>0, <3>2, <3>3
    <2>8. Sound(pending, blocks[pending.height - 1].ledger)'
      <3>1. CASE pending' \in NewPendingBlocks(b)
        <4>1. pending'.height - 1 = latest + 1
          BY <1>0, <2>1, <2>3, <3>1, NewPendingType
        <4>2. Sound(pending', b.ledger)
          BY <2>1, <3>1, NewPendingSound
        <4> QED BY <2>1, <4>1, <4>2 DEF Sound, Successes
      <3>2. CASE pending' = Finalize(AfterChunk(p, due))
        <4> DEFINE q == AfterChunk(p, due)
        <4>1. Ran(p, q)
          BY <2>1, <2>2, ChunkType
        <4>2. pending' = Finalize(q)
          BY <3>2
        <4> HIDE DEF q
        <4>3. SameBlock(q, pending') /\ Carries(q, pending')
          BY <4>1, <4>2, FinalizeType DEF Ran
        <4>4. Sound(pending', blocks[latest].ledger)
          BY <2>5, <4>1, <4>3 DEF Ran, Carries
        <4>5. pending'.height - 1 = latest /\ blocks'[latest] = blocks[latest]
          BY <1>0, <2>1, <4>1, <4>3 DEF Ran, SameBlock
        <4> QED BY <4>4, <4>5 DEF Sound, Successes
      <3> QED BY <2>4, <3>1, <3>2
    <2> QED BY <2>6, <2>7, <2>8 DEF LedgerInv
  <1> QED BY <1>1, <1>2, <1>3, <1>4 DEF Shape

LEMMA LedgerInvariant == Spec => []LedgerInv
  <1>1. Init => LedgerInv
    <2> SUFFICES ASSUME Init PROVE LedgerInv
      OBVIOUS
    <2>1. /\ blocks = [h \in {0} |-> GenesisBlock] /\ pending \in NewPendingBlocks(GenesisBlock)
      BY DEF Init
    <2>2. GenesisBlock \in Blocks /\ GenesisBlock.height = 0
      BY GenesisType
    <2>3. /\ GenesisBlock.txs = <<>> /\ GenesisBlock.results = NoResults
          /\ GenesisBlock.ledger.applied = {} /\ Range(GenesisBlock.txs) = {}
      BY DEF GenesisBlock, EmptyLedger, Range
    <2>4. pending.height - 1 = 0 /\ Sound(pending, GenesisBlock.ledger)
      BY <2>1, <2>2, NewPendingType, NewPendingSound
    <2>5. Sound(pending, blocks[pending.height - 1].ledger)
      BY <2>1, <2>4
    <2>6. SealedHasResult
      BY <2>1, <2>3 DEF SealedHasResult, NoResults
    <2>7. LedgerIsHistory
      BY <2>1, <2>3 DEF LedgerIsHistory, NoResults
    <2> QED BY <2>5, <2>6, <2>7 DEF LedgerInv
  <1>2. ChainInv /\ ChainInv' /\ LedgerInv /\ [Next]_vars => LedgerInv'
    BY LedgerInvStep
  <1> QED BY <1>1, <1>2, ChainInvariant, PTL DEF Spec

\* A stored block has a result for each of its transactions and for no other:
\* the counts that CommitBlock compares are enough, although a fatal error
\* consumes the index of a transaction without leaving a result.
THEOREM SealedWithResult == Spec => []SealedHasResult
  <1>1. LedgerInv => SealedHasResult
    BY DEF LedgerInv
  <1> QED BY <1>1, LedgerInvariant, PTL

\* The ledger of a stored block is the work of the successful transactions
\* sealed up to it, whatever was reverted, aborted, discarded or retried.
THEOREM LedgerFollowsHistory == Spec => []LedgerIsHistory
  <1>1. LedgerInv => LedgerIsHistory
    BY DEF LedgerInv
  <1> QED BY <1>1, LedgerInvariant, PTL

-----------------------------------------------------------------------------
(* What a client is told                                                   *)

\* What is in a kept block was in the pending block or was acceptable.
LEMMA KeptMembers ==
  ASSUME ChainInv, NEW p, Kept(p), NEW t, t \in Range(p.txs), t \notin Range(pending.txs)
  PROVE  ~Stored(t)
  <1>1. pending.txs \in Seq(Txs) /\ DOMAIN pending.txs = 1..Len(pending.txs)
    BY LenProperties DEF ChainInv, TypeOK, PendingBlocks
  <1>2. PICK u \in Txs : Acceptable(pending, u) /\ p.txs = Append(pending.txs, u)
    BY DEF Kept
  <1>3. /\ DOMAIN p.txs = 1..(Len(pending.txs) + 1) /\ p.txs[Len(pending.txs) + 1] = u
        /\ \A i \in 1..Len(pending.txs) : p.txs[i] = pending.txs[i]
        /\ Len(pending.txs) \in Nat
    BY <1>1, <1>2
  <1>4. PICK i \in DOMAIN p.txs : p.txs[i] = t
    BY DEF Range
  <1>5. i \notin 1..Len(pending.txs)
    BY <1>1, <1>3, <1>4 DEF Range
  <1>6. t = u
    BY <1>3, <1>4, <1>5
  <1> QED BY <1>2, <1>6 DEF Acceptable

LEMMA SealedStays ==
  ASSUME ChainInv, ChainInv', [Next]_vars, NEW t \in Txs, Status(t) = "sealed"
  PROVE  Status(t)' = "sealed"
  <1>0. /\ latest \in Nat /\ DOMAIN blocks = 0..latest /\ blocks[latest] \in Blocks
        /\ entropy \in BlockIDs
    BY DEF ChainInv, TypeOK, ChainLinked
  <1>1. t \notin Range(pending.txs) /\ Stored(t)
    BY DEF Status, ContainsTransaction
  <1>2. Stored(t)'
    BY <1>1, BlocksStay DEF Stored
  <1>3. Shape
    BY StepShape DEF ChainInv
  <1>4. t \notin Range(pending'.txs)
    <2>1. CASE KeepStep
      BY <1>1, <2>1, KeptMembers DEF KeepStep
    <2>2. CASE RenewStep
      <3>1. pending'.txs = <<>>
        BY <1>0, <2>2, NewPendingType DEF RenewStep
      <3> QED BY <3>1 DEF Range
    <2>3. ASSUME NEW p, NEW due, StoreStep(p, due)
          PROVE  t \notin Range(pending'.txs)
      <3>1. /\ BlockOf(p, due) \in Blocks /\ WellFormed(p) /\ Kept(p) /\ due \in Seq(Callbacks)
        BY <2>3, StoreFacts DEF StoreStep, Prepared
      <3>2. CASE pending' \in NewPendingBlocks(BlockOf(p, due))
        <4>1. pending'.txs = <<>>
          BY <3>1, <3>2, NewPendingType
        <4> QED BY <4>1 DEF Range
      <3>3. CASE pending' = Finalize(AfterChunk(p, due))
        <4>1. Ran(p, AfterChunk(p, due))
          BY <3>1, ChunkType
        <4>2. pending'.txs = p.txs
          BY <3>3, <4>1, FinalizeType DEF Ran, SameBlock
        <4> QED BY <1>1, <3>1, <4>2, KeptMembers
      <3> QED BY <2>3, <3>2, <3>3 DEF StoreStep
    <2> QED BY <1>3, <2>1, <2>2, <2>3 DEF Shape
  <1> QED BY <1>2, <1>4 DEF Status, ContainsTransaction

\* A transaction that getTransactionResult reported as sealed is reported so
\* for ever: it stays in storage, and nobody can get it into a pending block
\* again, which is asked first.
THEOREM SealedStatusIsFinal == Spec => SealedIsFinal
  <1>1. ChainInv /\ ChainInv' /\ [Next]_vars =>
          [\A t \in Txs : Status(t) = "sealed" => Status(t)' = "sealed"]_vars
    BY SealedStays
  <1> QED BY <1>1, ChainInvariant, PTL DEF Spec, SealedIsFinal

-----------------------------------------------------------------------------
(* Events, callbacks and the random source, where the system transactions  *)
(* of a commit do not fail.  (The code retries them on the same ledger     *)
(* view, so that a failure repeats events and loses callbacks.)            *)

\* A block that is stored ran to its end, and its events are those of its
\* transactions in their order.
LEMMA StoredEvents ==
  ASSUME NEW p, WellFormed(p), CountsMatch(p), ~p.finalized, NEW base,
         Sound(p, base), Orderly(p, base)
  PROVE  /\ p.events = p.txs
         /\ p.ledger = AppliedTo(base, Successes(p))
  <1>1. /\ p.txs \in Seq(Txs) /\ p.index \in 0..Len(p.txs) /\ DOMAIN p.txs = 1..Len(p.txs)
        /\ Len(p.txs) \in Nat
    BY FieldTypes, LenProperties
  <1>2. \A i \in 1..Len(p.txs) : p.results[p.txs[i]] # "none"
    BY <1>1, CountsComplete DEF Range
  <1>3. p.index = Len(p.txs)
    <2>1. CASE Len(p.txs) = 0
      BY <1>1, <2>1
    <2>2. CASE Len(p.txs) > 0
      <3> DEFINE n == Len(p.txs)
      <3>1. n \in 1..Len(p.txs) /\ p.txs[n] \in Txs /\ p.results[p.txs[n]] # "none"
        BY <1>1, <1>2, <2>2
      <3>2. PICK i \in 1..(p.index) : p.txs[i] = p.txs[n]
        BY <3>1 DEF Sound
      <3>3. i \in 1..Len(p.txs)
        BY <1>1
      <3>4. i = n
        BY <3>1, <3>2, <3>3 DEF Sound
      <3> QED BY <1>1, <3>4
    <2> QED BY <1>1, <2>1, <2>2
  <1>4. Clean(p)
    BY <1>2, <1>3 DEF Clean
  <1>5. SubSeq(p.txs, 1, Len(p.txs)) = p.txs
    BY <1>1
  <1> QED BY <1>3, <1>4, <1>5 DEF Orderly

\* Applying nothing changes nothing.
LEMMA AppliedNothing ==
  ASSUME NEW l \in Ledgers
  PROVE  AppliedTo(l, {}) = l
  BY DEF AppliedTo, Ledgers

\* A new pending block is orderly.
LEMMA NewPendingOrderly ==
  ASSUME NEW prev \in Blocks, NEW q \in NewPendingBlocks(prev)
  PROVE  Orderly(q, prev.ledger)
  <1>1. q.txs = <<>> /\ q.ledger = prev.ledger /\ Successes(q) = {} /\ prev.ledger \in Ledgers
    BY NewPendingType, NewPendingSound DEF Blocks
  <1>2. q.index = 0 /\ q.events = <<>>
    BY DEF NewPendingBlocks, PendingOn
  <1>3. SubSeq(<<>>, 1, 0) = <<>>
    OBVIOUS
  <1> QED BY <1>1, <1>2, <1>3, AppliedNothing DEF Orderly

\* The inductive invariant behind the events and the callbacks.
OrderInv == Orderly(pending, blocks[pending.height - 1].ledger)

\* What is stored in a step, under the invariants so far.
LEMMA StoredIsOrderly ==
  ASSUME SystemNeverFails, ChainInv, LedgerInv, OrderInv, NEW p, NEW due, StoreStep(p, due)
  PROVE  /\ BlockOf(p, due).events = BlockOf(p, due).txs \o BlockOf(p, due).sys
         /\ p.ledger = AppliedTo(blocks[latest].ledger, Successes(p))
         /\ Sound(p, blocks[latest].ledger)
  <1>1. /\ p.height = latest + 1 /\ WellFormed(p) /\ latest \in Nat
    BY StoreFacts
  <1>2. /\ due \in Seq(Callbacks) /\ CountsMatch(p) /\ p.height = pending.height
        /\ Carries(pending, p) /\ Follows(pending, p) /\ ~p.finalized
    BY DEF StoreStep, Prepared, Kept
  <1>3. pending.height - 1 = latest
    BY <1>1, <1>2
  <1>4. blocks[latest].ledger \in Ledgers /\ entropy \in BlockIDs
    BY <1>1 DEF ChainInv, ChainLinked, TypeOK, Blocks
  <1>5. Sound(p, blocks[latest].ledger) /\ Orderly(p, blocks[latest].ledger)
    BY <1>2, <1>3, <1>4 DEF LedgerInv, OrderInv, Carries, Follows
  <1>6. p.events = p.txs /\ p.ledger = AppliedTo(blocks[latest].ledger, Successes(p))
    BY <1>1, <1>2, <1>5, StoredEvents
  <1>7. /\ BlockOf(p, due).sys = SystemTransactions(due) /\ BlockOf(p, due).txs = p.txs
        /\ BlockOf(p, due).events = p.events \o SystemTransactions(due)
    BY <1>1, <1>2, <1>4, BlockOfType
  <1> QED BY <1>5, <1>6, <1>7

LEMMA OrderInvStep ==
  ASSUME SystemNeverFails, ChainInv, ChainInv', LedgerInv, OrderInv, EventsOncePerExecution,
         [Next]_vars
  PROVE  OrderInv' /\ EventsOncePerExecution'
  <1>0. /\ latest \in Nat /\ DOMAIN blocks = 0..latest /\ blocks[latest] \in Blocks
        /\ blocks[latest].height = latest /\ pending.height \in Nat
        /\ entropy \in BlockIDs
        /\ pending.height - 1 \in 0..latest
    BY SMTT(30) DEF ChainInv, TypeOK, ChainLinked, PendingBlocks
  <1>l. blocks[pending.height - 1].ledger \in Ledgers
    BY <1>0 DEF ChainInv, TypeOK, Blocks
  <1>1. Shape
    BY StepShape DEF ChainInv
  <1>2. CASE KeepStep
    <2>1. blocks' = blocks /\ pending'.height = pending.height /\ Follows(pending, pending')
      BY <1>2 DEF KeepStep, Kept
    <2>2. Orderly(pending', blocks[pending.height - 1].ledger)
      BY <1>l, <2>1 DEF LedgerInv, OrderInv, Follows
    <2>3. OrderInv'
      BY <2>1, <2>2 DEF OrderInv, Orderly, Successes, Clean, AppliedTo
    <2> QED BY <2>1, <2>3 DEF EventsOncePerExecution
  <1>3. CASE RenewStep
    <2>1. blocks' = blocks /\ pending' \in NewPendingBlocks(blocks[latest])
      BY <1>3 DEF RenewStep
    <2>2. pending'.height - 1 = latest /\ Orderly(pending', blocks[latest].ledger)
      BY <1>0, <2>1, NewPendingType, NewPendingOrderly
    <2>3. OrderInv'
      BY <2>1, <2>2 DEF OrderInv, Orderly, Successes, Clean, AppliedTo
    <2> QED BY <2>1, <2>3 DEF EventsOncePerExecution
  <1>4. ASSUME NEW p, NEW due, StoreStep(p, due)
        PROVE  OrderInv' /\ EventsOncePerExecution'
    <2> DEFINE b == BlockOf(p, due)
    <2>1. /\ p.height = latest + 1 /\ DOMAIN blocks' = 0..(latest + 1)
          /\ \A h \in 0..latest : blocks'[h] = blocks[h]
          /\ blocks'[latest + 1] = b /\ b \in Blocks /\ WellFormed(p)
      BY <1>4, StoreFacts
    <2>2. due \in Seq(Callbacks)
      BY <1>4 DEF StoreStep
    <2>3. b.events = b.txs \o b.sys
      BY <1>4, StoredIsOrderly
    <2>4. b.height = latest + 1
      BY <1>0, <2>1, <2>2, BlockOfType
    <2>5. \/ pending' \in NewPendingBlocks(b)
          \/ pending' = Finalize(AfterChunk(p, due))
      BY <1>4 DEF StoreStep
    <2> HIDE DEF b
    <2>6. EventsOncePerExecution'
      <3> SUFFICES ASSUME NEW h \in 0..(latest + 1)
                   PROVE  blocks'[h].events = IF h = 0 THEN <<Bootstrap>>
                                              ELSE blocks'[h].txs \o blocks'[h].sys
        BY <2>1 DEF EventsOncePerExecution
      <3>1. CASE h = latest + 1
        <4>1. h # 0
          BY <1>0, <3>1
        <4> QED BY <2>1, <2>3, <3>1, <4>1
      <3>2. CASE h \in 0..latest
        BY <1>0, <2>1, <3>2 DEF EventsOncePerExecution
      <3>3. h \in 0..latest \/ h = latest + 1
        BY <1>0
      <3> QED BY <3>1, <3>2, <3>3
    <2>7. CASE pending' \in NewPendingBlocks(b)
      <3>1. pending'.height - 1 = latest + 1 /\ Orderly(pending', b.ledger)
        BY <1>0, <2>1, <2>4, <2>7, NewPendingType, NewPendingOrderly
      <3>2. OrderInv'
        BY <2>1, <3>1 DEF OrderInv, Orderly, Successes, Clean, AppliedTo
      <3> QED BY <2>6, <3>2
    <2>8. CASE pending' = Finalize(AfterChunk(p, due))
      <3>1. pending'.finalized = TRUE
        BY <2>1, <2>2, <2>8, ChunkType, FinalizeType DEF Ran
      <3> QED BY <2>6, <3>1 DEF OrderInv, Orderly
    <2> QED BY <2>5, <2>7, <2>8
  <1> QED BY <1>1, <1>2, <1>3, <1>4 DEF Shape

LEMMA OrderInvariant ==
  ASSUME SystemNeverFails
  PROVE  Spec => []OrderInv /\ []EventsOncePerExecution
  <1>1. Init => OrderInv /\ EventsOncePerExecution
    <2> SUFFICES ASSUME Init PROVE OrderInv /\ EventsOncePerExecution
      OBVIOUS
    <2>1. blocks = [h \in {0} |-> GenesisBlock] /\ pending \in NewPendingBlocks(GenesisBlock)
      BY DEF Init
    <2>2. GenesisBlock \in Blocks /\ GenesisBlock.height = 0
      BY GenesisType
    <2>3. GenesisBlock.events = <<Bootstrap>>
      BY DEF GenesisBlock
    <2>4. pending.height - 1 = 0 /\ Orderly(pending, GenesisBlock.ledger)
      BY <2>1, <2>2, NewPendingType, NewPendingOrderly
    <2> QED BY <2>1, <2>3, <2>4 DEF OrderInv, EventsOncePerExecution
  <1>2. /\ ChainInv /\ ChainInv' /\ LedgerInv /\ OrderInv /\ EventsOncePerExecution /\ [Next]_vars
        => OrderInv' /\ EventsOncePerExecution'
    BY OrderInvStep
  <1> QED BY <1>1, <1>2, ChainInvariant, LedgerInvariant, PTL DEF Spec

\* Where system transactions do not fail, the events of a stored block are
\* those of its transactions and of its system transactions, once each and in
\* order: a transaction whose merge failed has left an event behind, but a block
\* with such a transaction is never stored.
THEOREM EventsAreOrdered ==
  ASSUME SystemNeverFails
  PROVE  Spec => []EventsOncePerExecution
  BY OrderInvariant, PTL

\* The callbacks among the system transactions of a block are those found due.
LEMMA SystemCallbacks ==
  ASSUME NEW due \in Seq(Callbacks), NEW c \in Callbacks
  PROVE  c \in Range(SystemTransactions(due)) <=>
           (ScheduledTransactionsEnabled /\ c \in Range(due))
  <1>1. c # Process /\ c # Chunk
    BY IdentifiersAssumption
  <1> DEFINE n == Len(due)
             s == <<Process>> \o due \o <<Chunk>>
  <1>2. /\ n \in Nat /\ DOMAIN due = 1..n
    BY LenProperties
  <1>3. /\ DOMAIN s = 1..(n + 2) /\ s[1] = Process /\ s[n + 2] = Chunk
        /\ \A i \in 1..n : s[i + 1] = due[i]
    BY <1>2
  <1> HIDE DEF s
  <1>4. c \in Range(s) <=> c \in Range(due)
    <2>1. ASSUME NEW i \in 1..(n + 2), s[i] = c
          PROVE  c \in Range(due)
      <3>1. i # 1 /\ i # n + 2
        BY <1>1, <1>3, <2>1
      <3>2. i - 1 \in 1..n /\ (i - 1) + 1 = i
        BY <1>2, <3>1
      <3>3. due[i - 1] = c
        BY <1>3, <2>1, <3>2
      <3> QED BY <1>2, <3>2, <3>3 DEF Range
    <2>2. ASSUME NEW i \in 1..n, due[i] = c
          PROVE  c \in Range(s)
      <3>1. i + 1 \in 1..(n + 2) /\ s[i + 1] = c
        BY <1>2, <1>3, <2>2
      <3> QED BY <1>3, <3>1 DEF Range
    <2> QED BY <1>2, <1>3, <2>1, <2>2 DEF Range
  <1>5. c \notin Range(<<Chunk>>)
    BY <1>1 DEF Range
  <1> QED BY <1>4, <1>5 DEF SystemTransactions, s

\* The ledger of a block that a commit hands to storage, callback by callback.
LEMMA StoredCallbacks ==
  ASSUME NEW base \in Ledgers, NEW due \in Seq(Callbacks), NEW S \in SUBSET Txs,
         NEW l, l = AppliedTo(base, S),
         NEW m, m = IF ScheduledTransactionsEnabled THEN CallbacksRun(l, due, Len(due)) ELSE l,
         NEW c \in Callbacks
  PROVE  /\ l.cb[c] = IF \E t \in S : c \in Schedules[t] THEN "scheduled" ELSE base.cb[c]
         /\ m.cb[c] = IF ScheduledTransactionsEnabled /\ c \in Range(due)
                      THEN "executed" ELSE l.cb[c]
         /\ c \in m.ran <=> \/ c \in base.ran
                            \/ ScheduledTransactionsEnabled /\ c \in Range(due)
  <1>1. l \in Ledgers /\ l.ran = base.ran
    BY AppliedType DEF AppliedTo, Ledgers
  <1>2. l.cb[c] = IF \E t \in S : c \in Schedules[t] THEN "scheduled" ELSE base.cb[c]
    BY DEF AppliedTo, Ledgers
  <1>3. SubSeq(due, 1, Len(due)) = due
    OBVIOUS
  <1>4. CASE ScheduledTransactionsEnabled
    <2> DEFINE cb == [d \in Callbacks |-> IF d \in Range(due) THEN "executed" ELSE l.cb[d]]
               ran == l.ran \cup Range(due)
    <2>1. m = [l EXCEPT !.cb = cb, !.ran = ran]
      BY <1>3, <1>4 DEF CallbacksRun
    <2>2. cb[c] = IF c \in Range(due) THEN "executed" ELSE l.cb[c]
      OBVIOUS
    <2> HIDE DEF cb
    <2>3. m.cb = cb /\ m.ran = ran
      BY <1>1, <2>1 DEF Ledgers
    <2> QED BY <1>1, <1>2, <1>4, <2>2, <2>3
  <1>5. CASE ~ScheduledTransactionsEnabled
    BY <1>1, <1>2, <1>5
  <1> QED BY <1>4, <1>5

\* The inductive invariant behind the callbacks: only an applied transaction
\* creates a callback, and what a block ran stays executed in every ledger above.
CallbackInv ==
    /\ \A h \in DOMAIN blocks : \A c \in Callbacks :
          /\ blocks[h].ledger.cb[c] # "none" =>
                \E t \in blocks[h].ledger.applied : c \in Schedules[t]
          /\ \A g \in 0..h : c \in Range(blocks[g].sys) => blocks[h].ledger.cb[c] = "executed"
    /\ CallbacksAccountedFor

\* A transaction of a block that is about to be stored is not applied yet.
LEMMA StoredIsNew ==
  ASSUME ChainInv, PoolInv, LedgerInv, NEW p, Kept(p), ~p.finalized, NEW base, Sound(p, base),
         NEW t \in Successes(p)
  PROVE  t \notin blocks[latest].ledger.applied
  <1>0. latest \in Nat /\ DOMAIN blocks = 0..latest
    BY DEF ChainInv, TypeOK, ChainLinked
  <1>1. /\ p.txs \in Seq(Txs) /\ p.index \in 0..Len(p.txs) /\ Len(p.txs) \in Nat
    BY FieldTypes DEF Kept
  <1>2. t \in Txs /\ p.results[t] # "none"
    BY DEF Successes
  <1>3. PICK i \in 1..(p.index) : p.txs[i] = t
    BY <1>2 DEF Sound
  <1>4. ~Stored(t)
    <2>1. i \in 1..Len(p.txs)
      BY <1>1
    <2> QED BY <1>3, <2>1, KeptFresh
  <1>5. ASSUME t \in blocks[latest].ledger.applied
        PROVE  FALSE
    <2>1. PICK g \in DOMAIN blocks : blocks[g].results[t] = "ok"
      BY <1>0, <1>5 DEF LedgerInv, LedgerIsHistory
    <2>2. t \in Range(blocks[g].txs)
      BY <1>2, <2>1 DEF LedgerInv, SealedHasResult
    <2> QED BY <1>4, <2>2 DEF Stored
  <1> QED BY <1>5

LEMMA CallbackInvStep ==
  ASSUME SystemNeverFails, ChainInv, PoolInv, LedgerInv, OrderInv, CallbackInv, [Next]_vars
  PROVE  CallbackInv'
  <1>0. /\ latest \in Nat /\ DOMAIN blocks = 0..latest /\ entropy \in BlockIDs
    BY DEF ChainInv, TypeOK, ChainLinked
  <1>b. blocks[latest].ledger \in Ledgers
    BY <1>0 DEF ChainInv, TypeOK, Blocks
  <1>1. Shape
    BY StepShape DEF ChainInv
  <1>2. CASE KeepStep \/ RenewStep
    <2>1. blocks' = blocks
      BY <1>2 DEF KeepStep, RenewStep
    <2> QED BY <2>1 DEF CallbackInv, CallbacksAccountedFor
  <1>3. ASSUME NEW p, NEW due, StoreStep(p, due)
        PROVE  CallbackInv'
    <2> DEFINE b == BlockOf(p, due)
               base == blocks[latest].ledger
               n == latest + 1
               run == ScheduledTransactionsEnabled
    <2>1. /\ DOMAIN blocks' = 0..n /\ blocks'[n] = b
          /\ \A h \in 0..latest : blocks'[h] = blocks[h]
          /\ WellFormed(p)
      BY <1>3, StoreFacts
    <2>2. /\ due \in Seq(Callbacks) /\ Kept(p) /\ ~p.finalized
          /\ \A c \in Range(due) : p.ledger.cb[c] = "scheduled"
      BY <1>3 DEF StoreStep, Prepared
    <2>3. p.ledger = AppliedTo(base, Successes(p)) /\ Sound(p, base)
      BY <1>3, StoredIsOrderly
    <2>4. /\ b.sys = SystemTransactions(due) /\ b.ledger.applied = p.ledger.applied
          /\ b.ledger = IF run THEN CallbacksRun(p.ledger, due, Len(due)) ELSE p.ledger
      BY <1>0, <2>1, <2>2, BlockOfType
    <2>5. b.ledger.applied = base.applied \cup Successes(p) /\ Successes(p) \subseteq Txs
      BY <2>3, <2>4 DEF Sound, Successes
    <2> HIDE DEF b, base
    <2>6. \A c \in Callbacks :
            /\ p.ledger.cb[c] = IF \E t \in Successes(p) : c \in Schedules[t]
                                THEN "scheduled" ELSE base.cb[c]
            /\ b.ledger.cb[c] = IF run /\ c \in Range(due) THEN "executed" ELSE p.ledger.cb[c]
            /\ c \in b.ledger.ran <=> (c \in base.ran \/ (run /\ c \in Range(due)))
      <3>1. base \in Ledgers
        BY <1>b DEF base
      <3> QED BY <2>2, <2>3, <2>4, <2>5, <3>1, StoredCallbacks
    <2>7. \A c \in Callbacks : c \in Range(b.sys) <=> (run /\ c \in Range(due))
      BY <2>2, <2>4, SystemCallbacks
    <2>8. \A c \in Callbacks :
            /\ base.cb[c] # "none" => \E t \in base.applied : c \in Schedules[t]
            /\ \A g \in 0..latest : c \in Range(blocks[g].sys) => base.cb[c] = "executed"
            /\ base.cb[c] = "executed" =>
                  /\ c \in base.ran
                  /\ \E g \in 0..latest :
                       /\ c \in Range(blocks[g].sys)
                       /\ \A f \in (0..latest) \ {g} : c \notin Range(blocks[f].sys)
      BY <1>0 DEF CallbackInv, CallbacksAccountedFor, base
    <2>9. \A c \in Callbacks : (\E t \in Successes(p) : c \in Schedules[t]) => base.cb[c] = "none"
      <3> SUFFICES ASSUME NEW c \in Callbacks, NEW t \in Successes(p), c \in Schedules[t],
                          base.cb[c] # "none"
                   PROVE  FALSE
        OBVIOUS
      <3>1. PICK u \in base.applied : c \in Schedules[u]
        BY <2>8
      <3>2. u \in Txs /\ t \in Txs
        BY <1>b, <2>5 DEF base, Ledgers
      <3>3. u = t
        BY <3>1, <3>2, IdentifiersAssumption
      <3>4. t \notin base.applied
        BY <2>2, <2>3, StoredIsNew DEF base
      <3> QED BY <3>1, <3>3, <3>4
    <2>10. \A c \in Callbacks : base.cb[c] = "executed" =>
             p.ledger.cb[c] = "executed" /\ b.ledger.cb[c] = "executed" /\ c \notin Range(due)
      BY <2>2, <2>6, <2>9
    <2>11. \A h : h \in 0..n <=> (h \in 0..latest \/ h = n)
      BY <1>0
    <2>12. ASSUME NEW c \in Callbacks
           PROVE  /\ b.ledger.cb[c] # "none" => \E t \in b.ledger.applied : c \in Schedules[t]
                  /\ \A g \in 0..n : c \in Range(blocks'[g].sys) => b.ledger.cb[c] = "executed"
                  /\ b.ledger.cb[c] = "executed" =>
                       /\ c \in b.ledger.ran
                       /\ \E g \in 0..n : /\ c \in Range(blocks'[g].sys)
                                           /\ \A f \in (0..n) \ {g} : c \notin Range(blocks'[f].sys)
      <3>1. b.ledger.cb[c] # "none" => p.ledger.cb[c] # "none"
        BY <2>2, <2>6
      <3>2. b.ledger.cb[c] # "none" => \E t \in b.ledger.applied : c \in Schedules[t]
        BY <2>5, <2>6, <2>8, <3>1
      <3>3. \A g \in 0..n : c \in Range(blocks'[g].sys) => b.ledger.cb[c] = "executed"
        BY <2>1, <2>6, <2>7, <2>8, <2>10, <2>11
      <3>4. CASE run /\ c \in Range(due)
        <4>1. c \in b.ledger.ran /\ c \in Range(blocks'[n].sys)
          BY <2>1, <2>6, <2>7, <3>4
        <4>2. \A f \in 0..latest : c \notin Range(blocks'[f].sys)
          BY <2>1, <2>8, <2>10, <3>4
        <4>3. n \in 0..n
          BY <2>11
        <4> QED BY <2>11, <3>2, <3>3, <4>1, <4>2, <4>3
      <3>5. CASE b.ledger.cb[c] = "executed" /\ ~(run /\ c \in Range(due))
        <4>1. base.cb[c] = "executed"
          BY <2>6, <3>5
        <4>2. PICK g \in 0..latest :
                /\ c \in Range(blocks[g].sys)
                /\ \A f \in (0..latest) \ {g} : c \notin Range(blocks[f].sys)
          BY <2>8, <4>1
        <4>3. c \notin Range(blocks'[n].sys)
          BY <2>1, <2>7, <3>5
        <4>4. c \in b.ledger.ran
          BY <2>6, <2>8, <4>1
        <4>5. /\ g \in 0..n /\ c \in Range(blocks'[g].sys)
              /\ \A f \in (0..n) \ {g} : c \notin Range(blocks'[f].sys)
          BY <2>1, <2>11, <4>2, <4>3
        <4> QED BY <3>2, <3>3, <4>4, <4>5
      <3> QED BY <3>2, <3>3, <3>4, <3>5
    <2>13. \A h \in 0..latest : \A g \in 0..h : blocks'[g] = blocks[g]
      BY <1>0, <2>1
    <2>14. ASSUME NEW h \in DOMAIN blocks', NEW c \in Callbacks
           PROVE  /\ blocks'[h].ledger.cb[c] # "none" =>
                       \E t \in blocks'[h].ledger.applied : c \in Schedules[t]
                  /\ \A g \in 0..h : c \in Range(blocks'[g].sys) => blocks'[h].ledger.cb[c] = "executed"
                  /\ blocks'[h].ledger.cb[c] = "executed" =>
                       /\ c \in blocks'[h].ledger.ran
                       /\ \E g \in 0..h : /\ c \in Range(blocks'[g].sys)
                                           /\ \A f \in (0..h) \ {g} : c \notin Range(blocks'[f].sys)
      <3>1. CASE h = n
        BY <2>1, <2>12, <3>1
      <3>2. CASE h \in 0..latest
        BY <1>0, <2>1, <2>13, <3>2 DEF CallbackInv, CallbacksAccountedFor
      <3> QED BY <2>1, <2>11, <3>1, <3>2
    <2> QED BY <2>14 DEF CallbackInv, CallbacksAccountedFor
  <1> QED BY <1>1, <1>2, <1>3 DEF Shape

LEMMA CallbackInvariant ==
  ASSUME SystemNeverFails
  PROVE  Spec => []CallbackInv
  <1>1. Init => CallbackInv
    <2> SUFFICES ASSUME Init PROVE CallbackInv
      OBVIOUS
    <2>1. blocks = [h \in {0} |-> GenesisBlock]
      BY DEF Init
    <2>2. /\ \A c \in Callbacks : GenesisBlock.ledger.cb[c] = "none"
          /\ Range(GenesisBlock.sys) = {}
      BY DEF GenesisBlock, EmptyLedger, Range
    <2> QED BY <2>1, <2>2 DEF CallbackInv, CallbacksAccountedFor
  <1>2. ChainInv /\ PoolInv /\ LedgerInv /\ OrderInv /\ CallbackInv /\ [Next]_vars => CallbackInv'
    BY CallbackInvStep
  <1> QED BY <1>1, <1>2, ChainInvariant, PoolInvariant, LedgerInvariant, OrderInvariant,
             PTL DEF Spec

\* Where system transactions do not fail, a callback that the ledger of a block
\* holds to be executed did run, in exactly one block: one that was executed is
\* never found due again, and only its creator, which is sealed once, could
\* schedule it anew.
THEOREM CallbacksRunOnce ==
  ASSUME SystemNeverFails
  PROVE  Spec => []CallbacksAccountedFor
  <1>1. CallbackInv => CallbacksAccountedFor
    BY DEF CallbackInv
  <1> QED BY <1>1, CallbackInvariant, PTL

\* The inductive invariant behind the random source: the entropy provider knows
\* the latest block, unless the process was started on it.
EntropyInv ==
    /\ pending.height = latest + 1
    /\ starts \subseteq 0..latest
    /\ entropy = IF latest \in starts THEN ZeroID ELSE BlockID(blocks[latest])
    /\ RandomSourceIsFresh

LEMMA EntropyInvStep ==
  ASSUME "index" \notin Faults, ChainInv, ChainInv', EntropyInv, [Next]_vars
  PROVE  EntropyInv'
  <1>0. /\ latest \in Nat /\ DOMAIN blocks = 0..latest /\ blocks[latest] \in Blocks
        /\ blocks[latest].height = latest /\ entropy \in BlockIDs
    BY DEF ChainInv, TypeOK, ChainLinked
  <1>1. Shape
    BY StepShape DEF ChainInv
  <1>r. CASE /\ starts' = starts \cup {latest} /\ entropy' = ZeroID
             /\ UNCHANGED <<blocks, latest>> /\ pending' \in NewPendingBlocks(blocks[latest])
    <2>1. pending'.height = latest + 1
      BY <1>0, <1>r, NewPendingType
    <2>2. starts' \subseteq 0..latest /\ latest \in starts'
      BY <1>0, <1>r DEF EntropyInv
    <2>3. RandomSourceIsFresh'
      <3> SUFFICES ASSUME NEW h \in 1..latest
                   PROVE  blocks[h].random = IF h - 1 \in starts' THEN ZeroID ELSE blocks[h].parent
        BY <1>r DEF RandomSourceIsFresh, ZeroID
      <3>1. h - 1 \in starts' <=> h - 1 \in starts
        BY <1>0, <1>r
      <3> QED BY <3>1 DEF EntropyInv, RandomSourceIsFresh
    <2> QED BY <1>r, <2>1, <2>2, <2>3 DEF EntropyInv, ZeroID
  <1>k. CASE UNCHANGED <<blocks, latest, entropy, starts>> /\ pending'.height = latest + 1
    BY <1>k DEF EntropyInv, RandomSourceIsFresh, BlockID, ZeroID
  <1>2. CASE KeepStep /\ UNCHANGED starts
    BY <1>2, <1>k DEF KeepStep, Kept, EntropyInv
  <1>3. CASE RenewStep /\ UNCHANGED starts /\ (UNCHANGED entropy \/ entropy' # ZeroID)
    <2>1. pending'.height = latest + 1
      BY <1>0, <1>3, NewPendingType DEF RenewStep
    <2> QED BY <1>3, <1>k, <2>1 DEF RenewStep
  <1>4. ASSUME NEW p, NEW due, StoreStep(p, due), UNCHANGED starts
        PROVE  EntropyInv'
    <2> DEFINE b == BlockOf(p, due)
    <2>1. /\ p.height = latest + 1 /\ latest' = latest + 1 /\ DOMAIN blocks' = 0..(latest + 1)
          /\ \A h \in 0..latest : blocks'[h] = blocks[h]
          /\ blocks'[latest + 1] = b /\ b \in Blocks /\ WellFormed(p)
      BY <1>4, StoreFacts
    <2>2. due \in Seq(Callbacks) /\ p.parent = pending.parent /\ p.height = pending.height
      BY <1>4 DEF StoreStep, Prepared, Kept
    <2>3. /\ b.random = entropy /\ b.parent = p.parent /\ BlockID(b) = BlockID(p)
          /\ b.height = latest + 1
      BY <1>0, <2>1, <2>2, BlockOfType
    <2>4. pending' \in NewPendingBlocks(b) /\ entropy' = BlockID(p)
      BY <1>4 DEF StoreStep
    <2> HIDE DEF b
    <2>5. pending.parent = BlockID(blocks[latest])
      <3>1. pending.height - 1 = latest
        BY <1>0, <2>1, <2>2
      <3> QED BY <3>1 DEF ChainInv, ChainLinked
    <2>6. b.random = IF latest \in starts THEN ZeroID ELSE b.parent
      BY <2>2, <2>3, <2>5 DEF EntropyInv
    <2>7. RandomSourceIsFresh'
      <3> SUFFICES ASSUME NEW h \in 1..(latest + 1)
                   PROVE  blocks'[h].random = IF h - 1 \in starts THEN ZeroID ELSE blocks'[h].parent
        BY <1>4, <2>1 DEF RandomSourceIsFresh, ZeroID
      <3>1. h \in 1..latest \/ h = latest + 1
        BY <1>0
      <3>2. CASE h = latest + 1
        <4>1. h - 1 = latest
          BY <1>0, <3>2
        <4> QED BY <2>1, <2>6, <3>2, <4>1
      <3>3. CASE h \in 1..latest
        <4>1. blocks'[h] = blocks[h]
          BY <1>0, <2>1, <3>3
        <4> QED BY <3>3, <4>1 DEF EntropyInv, RandomSourceIsFresh
      <3> QED BY <3>1, <3>2, <3>3
    <2>8. pending'.height = latest' + 1
      BY <1>0, <2>1, <2>3, <2>4, NewPendingType
    <2>9. entropy' = BlockID(blocks[latest])'
      BY <2>1, <2>3, <2>4 DEF BlockID
    <2>10. starts' \subseteq 0..latest' /\ latest' \notin starts'
      BY <1>0, <1>4, <2>1 DEF EntropyInv
    <2> QED BY <2>7, <2>8, <2>9, <2>10 DEF EntropyInv
  <1> QED BY <1>1, <1>r, <1>2, <1>3, <1>4, StartsStep DEF Shape

LEMMA EntropyInvariant ==
  ASSUME "index" \notin Faults
  PROVE  Spec => []EntropyInv
  <1>1. Init => EntropyInv
    <2> SUFFICES ASSUME Init PROVE EntropyInv
      OBVIOUS
    <2>1. /\ latest = 0 /\ entropy = ZeroID /\ starts = {0}
          /\ pending \in NewPendingBlocks(GenesisBlock)
      BY DEF Init
    <2>2. pending.height = 1
      BY <2>1 DEF NewPendingBlocks, PendingOn, GenesisBlock
    <2>3. 1..0 = {}
      OBVIOUS
    <2> QED BY <2>1, <2>2, <2>3 DEF EntropyInv, RandomSourceIsFresh
  <1>2. ChainInv /\ ChainInv' /\ EntropyInv /\ [Next]_vars => EntropyInv'
    BY EntropyInvStep
  <1> QED BY <1>1, <1>2, ChainInvariant, PTL DEF Spec

\* Where no call behind the store fails, the random source of every block is the
\* identifier of the block below it, and only the first block that a process
\* commits has none.
THEOREM RandomSourceFollowsTheChain ==
  ASSUME "index" \notin Faults
  PROVE  Spec => []RandomSourceIsFresh
  <1>1. EntropyInv => RandomSourceIsFresh
    BY DEF EntropyInv
  <1> QED BY <1>1, EntropyInvariant, PTL

=============================================================================
