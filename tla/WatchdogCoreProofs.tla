------------------------- MODULE WatchdogCoreProofs -------------------------
(***************************************************************************)
(* Proofs about WatchdogCore for every value of its constants.             *)
(***************************************************************************)
EXTENDS WatchdogCore, TLAPS

\* One record in the place i of the log l.
RecordShape(l, i) ==
    LET r == l[i] IN
    /\ r.sequence = i
    /\ r.binding = l[1].binding
    /\ r.kind = "Armed" <=> i = 1
    /\ r.kind = "Armed" =>
         /\ r.base \in Bases
         /\ r.at \in Nat /\ r.deadline \in Nat /\ r.expires \in Nat
         /\ r.at < r.deadline
         /\ r.expires = LeaseExpiryAt(r.at, r.deadline)
    /\ r.kind = "LeaseRenewed" =>
         /\ r.at \in Nat /\ r.expires \in Nat
         /\ RenewalAccepted(r, l[1], l[i-1])
    /\ r.kind \in Decisions => i = Len(l)

\* The shape of every log the core writes: an arming, then renewals, then at
\* most one decision, all with one binding.
LogShape(l) == \A i \in DOMAIN l : RecordShape(l, i)

Decided(l) == l # <<>> /\ l[Len(l)].kind \in Decisions

\* The record that holds the current lease.
LeaseRecord(l) == IF Decided(l) THEN l[Len(l) - 1] ELSE l[Len(l)]

\* The reader's result on a log of that shape, without its search.
Closed(l) ==
    [binding      |-> l[1].binding,
     base         |-> l[1].base,
     deadline     |-> l[1].deadline,
     expires      |-> LeaseRecord(l).expires,
     lastActivity |-> LeaseRecord(l).at,
     chosen       |-> IF Decided(l) THEN l[Len(l)].kind ELSE None]

ArmedClosed(l) ==
    [binding  |-> l[1].binding,
     base     |-> l[1].base,
     deadline |-> l[1].deadline,
     expires  |-> LeaseRecord(l).expires,
     chosen   |-> IF Decided(l) THEN l[Len(l)].kind ELSE None]

-----------------------------------------------------------------------------
(* The log as data. *)

\* A position before a record is a position of the log, and not the last one.
LEMMA PositionBefore ==
    ASSUME NEW n \in Nat, NEW i \in 1 .. n, NEW j \in 1 .. i-1
    PROVE  j \in 1 .. n /\ j # n
  OBVIOUS

\* In a log of the shape the lease record of a non-empty log is an arming or a
\* renewal, with a time and an expiry within the deadline.
LEMMA LeaseRecordFacts ==
    ASSUME NEW l \in Seq(AuthorityRecord), LogShape(l), l # <<>>
    PROVE  /\ l[1] \in AuthorityRecord /\ l[1].kind = "Armed"
           /\ LeaseRecord(l) \in AuthorityRecord
           /\ LeaseRecord(l).kind \in {"Armed", "LeaseRenewed"}
           /\ LeaseRecord(l).at \in Nat /\ LeaseRecord(l).expires \in Nat
           /\ LeaseRecord(l).expires <= l[1].deadline
           /\ l[1].deadline \in Nat /\ l[1].base \in Bases
           /\ Len(l) \in Nat /\ Len(l) >= 1 /\ DOMAIN l = 1 .. Len(l)
           /\ Decided(l) => Len(l) >= 2
<1>1. Len(l) \in Nat /\ Len(l) >= 1 /\ DOMAIN l = 1 .. Len(l)
  OBVIOUS
<1>2. \A i \in 1 .. Len(l) : l[i] \in AuthorityRecord /\ RecordShape(l, i)
  BY <1>1 DEF LogShape
<1>3. l[1] \in AuthorityRecord /\ l[1].kind = "Armed" /\ l[1].deadline \in Nat
      /\ l[1].base \in Bases /\ l[1].at \in Nat /\ l[1].expires \in Nat
      /\ l[1].expires <= l[1].deadline
  <2>1. l[1] \in AuthorityRecord /\ RecordShape(l, 1)
    BY <1>1, <1>2
  <2>2. l[1].kind = "Armed" /\ l[1].deadline \in Nat /\ l[1].base \in Bases
        /\ l[1].at \in Nat /\ l[1].expires \in Nat
        /\ l[1].expires = LeaseExpiryAt(l[1].at, l[1].deadline)
    BY <2>1 DEF RecordShape
  <2>3. l[1].expires <= l[1].deadline
    BY <2>2, WindowAssumption DEF LeaseExpiryAt
  <2> QED BY <2>1, <2>2, <2>3
<1>4. Decided(l) => Len(l) >= 2
  BY <1>1, <1>3 DEF Decided, Decisions
<1>5. \A i \in 1 .. Len(l) : l[i].kind \notin Decisions =>
          /\ l[i].kind \in {"Armed", "LeaseRenewed"}
          /\ l[i].at \in Nat /\ l[i].expires \in Nat
          /\ l[i].expires <= l[1].deadline
  <2> SUFFICES ASSUME NEW i \in 1 .. Len(l), l[i].kind \notin Decisions
               PROVE  /\ l[i].kind \in {"Armed", "LeaseRenewed"}
                      /\ l[i].at \in Nat /\ l[i].expires \in Nat
                      /\ l[i].expires <= l[1].deadline
    OBVIOUS
  <2>1. l[i].kind \in {"Armed", "LeaseRenewed"}
    BY <1>2 DEF AuthorityRecord, Kinds
  <2>2. CASE l[i].kind = "Armed"
    BY <1>2, <1>3, <2>2 DEF RecordShape
  <2>3. CASE l[i].kind = "LeaseRenewed"
    <3>1. /\ l[i].at \in Nat /\ l[i].expires \in Nat
          /\ RenewalAccepted(l[i], l[1], l[i-1])
      BY <1>2, <2>3 DEF RecordShape
    <3>2. l[i].expires <= l[1].deadline
      BY <1>3, <3>1, WindowAssumption DEF RenewalAccepted, LeaseExpiryAt
    <3> QED BY <2>3, <3>1, <3>2
  <2> QED BY <2>1, <2>2, <2>3
<1>6. \A i \in 1 .. Len(l) : i # Len(l) => l[i].kind \notin Decisions
  BY <1>2 DEF RecordShape
<1>7. \E i \in 1 .. Len(l) : LeaseRecord(l) = l[i] /\ l[i].kind \notin Decisions
  <2>1. CASE Decided(l)
    <3> DEFINE m == Len(l) - 1
    <3>1. LeaseRecord(l) = l[m]
      BY <2>1 DEF LeaseRecord
    <3>0. Len(l) \in Nat /\ Len(l) >= 2
      BY <1>1, <1>4, <2>1
    <3>2. m \in 1 .. Len(l) /\ m # Len(l)
      BY <3>0
    <3> HIDE DEF m
    <3>3. l[m].kind \notin Decisions
      BY <1>6, <3>2
    <3> QED BY <3>1, <3>2, <3>3
  <2>2. CASE ~Decided(l)
    <3>1. LeaseRecord(l) = l[Len(l)] /\ l[Len(l)].kind \notin Decisions
      BY <2>2 DEF LeaseRecord, Decided
    <3> QED BY <1>1, <3>1
  <2> QED BY <2>1, <2>2
<1>8. PICK i \in 1 .. Len(l) : LeaseRecord(l) = l[i] /\ l[i].kind \notin Decisions
  BY <1>7
<1>9. /\ LeaseRecord(l) \in AuthorityRecord
      /\ LeaseRecord(l).kind \in {"Armed", "LeaseRenewed"}
      /\ LeaseRecord(l).at \in Nat /\ LeaseRecord(l).expires \in Nat
      /\ LeaseRecord(l).expires <= l[1].deadline
  BY <1>2, <1>5, <1>8
<1> QED
  BY <1>1, <1>3, <1>4, <1>9

\* On a log of the shape, every search of the reader has the obvious answer.
LEMMA SearchesClosed ==
    ASSUME NEW l \in Seq(AuthorityRecord), LogShape(l), l # <<>>
    PROVE  /\ ArmedIndex(l) = 1
           /\ \A i \in 2 .. Len(l) + 1 :
                 /\ ActiveBefore(l, i)
                 /\ l[i-1].kind \notin Decisions => LeaseIndex(l, i) = i - 1
           /\ \A i \in 1 .. Len(l) : ~ChosenBefore(l, i)
           /\ ~ActiveBefore(l, 1)
           /\ Decided(l) => LeaseIndex(l, Len(l) + 1) = Len(l) - 1
<1>0. /\ Len(l) \in Nat /\ Len(l) >= 1 /\ DOMAIN l = 1 .. Len(l)
      /\ Decided(l) => Len(l) >= 2
      /\ l[1].kind = "Armed"
  BY LeaseRecordFacts
<1>1. \A i \in 1 .. Len(l) : /\ l[i].kind = "Armed" <=> i = 1
                             /\ l[i].kind \in Decisions => i = Len(l)
                             /\ l[i].kind \in Kinds
  <2> TAKE i \in 1 .. Len(l)
  <2>1. RecordShape(l, i) /\ l[i] \in AuthorityRecord
    BY <1>0 DEF LogShape
  <2> QED BY <2>1 DEF RecordShape, AuthorityRecord
<1>2. ArmedIndex(l) = 1
  <2>1. /\ 1 \in DOMAIN l /\ l[1].kind = "Armed"
        /\ \A k \in 1 .. 1-1 : l[k].kind # "Armed"
    BY <1>0
  <2> QED BY <1>0, <1>1, <2>1 DEF ArmedIndex
<1>3. ASSUME NEW i \in 2 .. Len(l) + 1
      PROVE  /\ ActiveBefore(l, i)
             /\ l[i-1].kind \notin Decisions => LeaseIndex(l, i) = i - 1
  <2>1. ActiveBefore(l, i)
    BY <1>0 DEF ActiveBefore
  <2>2. ASSUME l[i-1].kind \notin Decisions PROVE LeaseIndex(l, i) = i - 1
    <3> DEFINE P(j) == /\ l[j].kind \in {"Armed", "LeaseRenewed"}
                       /\ \A k \in j+1 .. i-1 :
                             l[k].kind \notin {"Armed", "LeaseRenewed"}
    <3>0. i-1 \in 1 .. Len(l)
      BY <1>0
    <3>1. l[i-1].kind \in {"Armed", "LeaseRenewed"}
      BY <1>1, <2>2, <3>0 DEF Kinds
    <3>2. i-1 \in 1 .. i-1 /\ P(i-1)
      BY <3>1
    <3>3. \A j \in 1 .. i-1 : P(j) => j = i-1
      BY <3>1
    <3> HIDE DEF P
    <3>4. (CHOOSE j \in 1 .. i-1 : P(j)) = i-1
      BY <3>2, <3>3
    <3> QED BY <3>4 DEF LeaseIndex, P
  <2> QED BY <2>1, <2>2
<1>4. \A i \in 1 .. Len(l) : ~ChosenBefore(l, i)
  <2> SUFFICES ASSUME NEW i \in 1 .. Len(l), NEW j \in 1 .. i-1
               PROVE  l[j].kind \notin Decisions
    BY DEF ChosenBefore
  <2>1. Len(l) \in Nat
    BY <1>0
  <2>2. j \in 1 .. Len(l) /\ j # Len(l)
    BY <2>1, PositionBefore
  <2> QED BY <1>1, <2>2
<1>5. ~ActiveBefore(l, 1)
  BY DEF ActiveBefore
<1>6. ASSUME Decided(l) PROVE LeaseIndex(l, Len(l) + 1) = Len(l) - 1
  <2> DEFINE n == Len(l) + 1
             m == Len(l) - 1
             P(j) == /\ l[j].kind \in {"Armed", "LeaseRenewed"}
                     /\ \A k \in j+1 .. n-1 :
                           l[k].kind \notin {"Armed", "LeaseRenewed"}
  <2>0. Len(l) \in Nat /\ Len(l) >= 2
    BY <1>0, <1>6
  <2>1. /\ m \in 1 .. Len(l) /\ m # Len(l) /\ n-1 = Len(l) /\ m+1 = Len(l)
        /\ n \in Int /\ m \in Int
    BY <2>0
  <2>2. l[Len(l)].kind \notin {"Armed", "LeaseRenewed"}
    BY <1>6 DEF Decided, Decisions
  <2> HIDE DEF n, m
  <2>3. l[m].kind \in {"Armed", "LeaseRenewed"}
    BY <1>1, <2>1 DEF Kinds
  <2>4. P(m)
    <3>1. \A k \in m+1 .. n-1 : k = Len(l)
      BY <2>0, <2>1
    <3> QED BY <2>2, <2>3, <3>1
  <2>5. ASSUME NEW j \in 1 .. n-1, P(j) PROVE j = m
    <3>1. j # Len(l)
      BY <2>2, <2>5
    <3>2. m \notin j+1 .. n-1
      BY <2>3, <2>5
    <3> QED BY <2>0, <2>1, <3>1, <3>2
  <2> HIDE DEF P
  <2>6. (CHOOSE j \in 1 .. n-1 : P(j)) = m
    BY <1>0, <2>1, <2>4, <2>5
  <2>7. LeaseIndex(l, n) = m
    BY <2>6 DEF LeaseIndex, P
  <2> QED BY <2>7 DEF n, m
<1> QED BY <1>2, <1>3, <1>4, <1>5, <1>6

\* The reader rebuilds the closed form, and accepts the log if its records fit.
LEMMA ReaderClosed ==
    ASSUME NEW l \in Seq(AuthorityRecord), LogShape(l)
    PROVE  /\ l = <<>> => ReconstructActiveAuthority(l) = None
           /\ l # <<>> => ReconstructActiveAuthority(l) = Closed(l)
           /\ OpenAccepts(l) <=> \A i \in DOMAIN l : Fits(l[i])
           /\ ReconstructAccepts(l)
<1>1. ASSUME l = <<>> PROVE ReconstructActiveAuthority(l) = None
  BY <1>1 DEF ReconstructActiveAuthority, ActiveBefore
<1>2. ASSUME l # <<>> PROVE ReconstructActiveAuthority(l) = Closed(l)
  <2>1. /\ ArmedIndex(l) = 1 /\ ActiveBefore(l, Len(l) + 1)
        /\ Len(l) \in Nat /\ Len(l) >= 1 /\ DOMAIN l = 1 .. Len(l)
    BY <1>2, SearchesClosed, LeaseRecordFacts
  <2>2. ChosenBefore(l, Len(l) + 1) <=> Decided(l)
    <3>1. \A i \in 1 .. Len(l) : l[i].kind \in Decisions => i = Len(l)
      BY <2>1 DEF LogShape, RecordShape
    <3>2. (Len(l) + 1) - 1 = Len(l) /\ Len(l) \in 1 .. Len(l)
      BY <2>1
    <3> QED BY <1>2, <3>1, <3>2 DEF ChosenBefore, Decided
  <2>3. l[LeaseIndex(l, Len(l) + 1)] = LeaseRecord(l)
    <3>1. CASE Decided(l)
      BY <1>2, <3>1, SearchesClosed DEF LeaseRecord
    <3>2. CASE ~Decided(l)
      <4>1. Len(l) + 1 \in 2 .. Len(l) + 1 /\ (Len(l) + 1) - 1 = Len(l)
        BY <2>1
      <4>2. l[(Len(l) + 1) - 1].kind \notin Decisions
        BY <1>2, <3>2, <4>1 DEF Decided
      <4>3. LeaseIndex(l, Len(l) + 1) = Len(l)
        BY <1>2, <4>1, <4>2, SearchesClosed
      <4> QED BY <3>2, <4>3 DEF LeaseRecord
    <3> QED BY <3>1, <3>2
  <2> QED BY <1>2, <2>1, <2>2, <2>3 DEF ReconstructActiveAuthority, Closed
<1>3. OpenAccepts(l) <=> \A i \in DOMAIN l : Fits(l[i])
  <2> SUFFICES ASSUME NEW i \in DOMAIN l
               PROVE  /\ ValidateSchema(l[i])
                      /\ l[i].sequence = i
                      /\ i > 1 => l[i].binding.epoch >= l[i-1].binding.epoch
    BY DEF OpenAccepts
  <2>1. /\ RecordShape(l, i) /\ i \in 1 .. Len(l) /\ Len(l) \in Nat
        /\ l[i] \in AuthorityRecord
    BY DEF LogShape
  <2>2. ValidateSchema(l[i])
    BY <2>1, BlankAssumption DEF RecordShape, ValidateSchema
  <2>3. ASSUME i > 1 PROVE l[i].binding.epoch >= l[i-1].binding.epoch
    <3>1. i - 1 \in DOMAIN l /\ RecordShape(l, i - 1)
      BY <2>1, <2>3 DEF LogShape
    <3>2. l[i].binding = l[i-1].binding
      BY <2>1, <3>1 DEF RecordShape
    <3>3. l[i].binding.epoch \in Int
      BY <2>1, EpochAssumption DEF AuthorityRecord, Binding, Epochs
    <3> QED BY <3>2, <3>3
  <2> QED BY <2>1, <2>2, <2>3 DEF RecordShape
<1>4. ReconstructAccepts(l)
  <2> SUFFICES ASSUME NEW i \in DOMAIN l
               PROVE
               LET r == l[i] IN
               /\ r.kind = "Armed" => ~ActiveBefore(l, i)
               /\ r.kind # "Armed" => ActiveBefore(l, i) /\ ~ChosenBefore(l, i)
               /\ r.kind = "LeaseRenewed" =>
                    RenewalAccepted(r, l[ArmedIndex(l)], l[LeaseIndex(l, i)])
               /\ r.kind \in Decisions => r.binding = l[ArmedIndex(l)].binding
    BY DEF ReconstructAccepts
  <2>1. /\ RecordShape(l, i) /\ i \in 1 .. Len(l) /\ Len(l) \in Nat /\ l # <<>>
    BY DEF LogShape
  <2>2. ArmedIndex(l) = 1 /\ ~ChosenBefore(l, i) /\ ~ActiveBefore(l, 1)
    BY <2>1, SearchesClosed
  <2>3. CASE i = 1
    BY <2>1, <2>2, <2>3 DEF RecordShape, Decisions
  <2>4. CASE i # 1
    <3>1. i \in 2 .. Len(l) + 1 /\ i - 1 \in DOMAIN l /\ i - 1 # Len(l)
      BY <2>1, <2>4
    <3>2. l[i-1].kind \notin Decisions
      BY <3>1 DEF LogShape, RecordShape
    <3>3. ActiveBefore(l, i) /\ LeaseIndex(l, i) = i - 1
      BY <2>1, <3>1, <3>2, SearchesClosed
    <3> QED BY <2>1, <2>2, <2>4, <3>3 DEF RecordShape
  <2> QED BY <2>3, <2>4
<1> QED BY <1>1, <1>2, <1>3, <1>4

\* What the core keeps in memory of a log of the shape is well typed.
LEMMA ArmedClosedType ==
    ASSUME NEW l \in Seq(AuthorityRecord), LogShape(l), l # <<>>
    PROVE  ArmedClosed(l) \in ArmedState /\ Closed(l) # None
<1>1. /\ l[1] \in AuthorityRecord /\ l[1].deadline \in Nat /\ l[1].base \in Bases
      /\ LeaseRecord(l).at \in Nat /\ LeaseRecord(l).expires \in Nat
  BY LeaseRecordFacts
<1>2. l[1].binding \in Binding
  BY <1>1 DEF AuthorityRecord
<1>3. (IF Decided(l) THEN l[Len(l)].kind ELSE None) \in Decisions \cup {None}
  BY DEF Decided
<1>4. ArmedClosed(l) \in ArmedState
  BY <1>1, <1>2, <1>3 DEF ArmedClosed, ArmedState
<1>5. Closed(l) \in ReconstructedAuthority
  BY <1>1, <1>2, <1>3 DEF Closed, ReconstructedAuthority
<1> QED BY <1>4, <1>5, NoneAssumption

\* The first record: an arming.
LEMMA AppendArmed ==
    ASSUME NEW r \in AuthorityRecord, r.kind = "Armed", r.sequence = 1,
           r.base \in Bases, r.at \in Nat, r.deadline \in Nat, r.expires \in Nat,
           r.at < r.deadline, r.expires = LeaseExpiryAt(r.at, r.deadline)
    PROVE  LET l == Append(<<>>, r) IN
           /\ l \in Seq(AuthorityRecord) /\ LogShape(l) /\ l # <<>>
           /\ l[1] = r /\ Len(l) = 1
           /\ ~Decided(l) /\ LeaseRecord(l) = r
<1> DEFINE l == Append(<<>>, r)
<1>1. l \in Seq(AuthorityRecord) /\ Len(l) = 1 /\ l[1] = r /\ DOMAIN l = 1 .. 1 /\ l # <<>>
  OBVIOUS
<1> HIDE DEF l
<1>2. RecordShape(l, 1)
  BY <1>1 DEF RecordShape, Decisions
<1>3. LogShape(l)
  BY <1>1, <1>2 DEF LogShape
<1>4. ~Decided(l) /\ LeaseRecord(l) = r
  BY <1>1 DEF Decided, LeaseRecord, Decisions
<1> QED BY <1>1, <1>3, <1>4 DEF l

\* A later record: a renewal that the reader accepts, or a decision.
LEMMA AppendLater ==
    ASSUME NEW k \in Seq(AuthorityRecord), LogShape(k), k # <<>>, ~Decided(k),
           NEW r \in AuthorityRecord, r.sequence = Len(k) + 1,
           r.binding = k[1].binding,
           \/ /\ r.kind = "LeaseRenewed" /\ r.at \in Nat /\ r.expires \in Nat
              /\ RenewalAccepted(r, k[1], k[Len(k)])
           \/ r.kind \in Decisions
    PROVE  LET l == Append(k, r) IN
           /\ l \in Seq(AuthorityRecord) /\ LogShape(l) /\ l # <<>>
           /\ l[1] = k[1] /\ Len(l) = Len(k) + 1 /\ l[Len(l)] = r
           /\ r.kind \in Decisions =>
                 Decided(l) /\ LeaseRecord(l) = LeaseRecord(k)
           /\ r.kind = "LeaseRenewed" => ~Decided(l) /\ LeaseRecord(l) = r
<1> DEFINE l == Append(k, r)
<1>0. Len(k) \in Nat /\ Len(k) >= 1 /\ DOMAIN k = 1 .. Len(k) /\ 1 \in DOMAIN k
  BY LeaseRecordFacts
<1>1. /\ l \in Seq(AuthorityRecord) /\ Len(l) = Len(k) + 1
      /\ \A i \in 1 .. Len(k) : l[i] = k[i]
      /\ l[Len(k) + 1] = r
      /\ DOMAIN l = 1 .. Len(k) + 1
  BY <1>0
<1>2. l # <<>>
  BY <1>0, <1>1
<1> HIDE DEF l
<1>3. l[1] = k[1]
  BY <1>0, <1>1
<1>4. k[Len(k)].kind \notin Decisions
  BY DEF Decided
<1>5. \A i \in 1 .. Len(k) : k[i].kind \notin Decisions
  BY <1>0, <1>4 DEF LogShape, RecordShape
<1>6. ASSUME NEW i \in DOMAIN l PROVE RecordShape(l, i)
  <2>1. CASE i \in 1 .. Len(k)
    <3>1. RecordShape(k, i) /\ l[i] = k[i] /\ l[i].kind \notin Decisions
      BY <1>0, <1>1, <1>5, <2>1 DEF LogShape
    <3>2. i # 1 => i - 1 \in 1 .. Len(k)
      BY <1>0, <2>1
    <3>3. i # 1 => l[i-1] = k[i-1]
      BY <1>1, <3>2
    <3> QED BY <1>3, <3>1, <3>3 DEF RecordShape
  <2>2. CASE i = Len(k) + 1
    <3>1. l[i] = r /\ i # 1 /\ i = Len(l)
      BY <1>0, <1>1, <2>2
    <3>2. i - 1 = Len(k) /\ Len(k) \in 1 .. Len(k)
      BY <1>0, <2>2
    <3>3. l[i-1] = k[Len(k)]
      BY <1>1, <3>2
    <3>4. r.kind # "Armed"
      BY DEF Decisions
    <3> QED BY <1>3, <2>2, <3>1, <3>3, <3>4 DEF RecordShape, Decisions
  <2> QED BY <1>0, <1>1, <2>1, <2>2
<1>7. LogShape(l)
  BY <1>6 DEF LogShape
<1>8. l[Len(l)] = r
  BY <1>1
<1>9. ASSUME r.kind \in Decisions
      PROVE  Decided(l) /\ LeaseRecord(l) = LeaseRecord(k)
  <2>1. Decided(l)
    BY <1>2, <1>8, <1>9 DEF Decided
  <2>2. Len(l) - 1 = Len(k) /\ Len(k) \in 1 .. Len(k)
    BY <1>0, <1>1
  <2>3. l[Len(l) - 1] = k[Len(k)]
    BY <1>1, <2>2
  <2> QED BY <2>1, <2>3 DEF LeaseRecord
<1>10. ASSUME r.kind = "LeaseRenewed" PROVE ~Decided(l) /\ LeaseRecord(l) = r
  BY <1>8, <1>10 DEF Decided, LeaseRecord, Decisions
<1> QED BY <1>1, <1>2, <1>3, <1>7, <1>8, <1>9, <1>10 DEF l
-----------------------------------------------------------------------------
(* The inductive invariant: what is on the disk, what is in memory and how  *)
(* they agree while the core serves.  Type correctness alone is not          *)
(* inductive: a renewal writes a well-typed record only because lastClock    *)
(* and the armed deadline are times of records that were well shaped.        *)

DiskInv ==
    /\ epochFile \in Epochs \cup {Missing, Malformed}
    /\ epochTemp \in BOOLEAN
    /\ log \in Seq(AuthorityRecord)
    /\ readable \in BOOLEAN
    /\ marker \in BOOLEAN
    /\ markerTemp \in BOOLEAN
    /\ LogShape(log)
    /\ EpochMatchesLog

OutsideInv ==
    /\ clock \in Clocks
    /\ candidate \in SUBSET Parts
    /\ floor \in Floors \cup {None}

ProcessType ==
    /\ status \in {"running", "stopped"} \cup StartupErrors
    /\ safeMode \in BOOLEAN
    /\ binding \in Binding \cup {None}
    /\ session \in Binding \cup {None}
    /\ armed \in ArmedState \cup {None}
    /\ logSeq \in Nat
    /\ lastClock \in Nat

MemoryAgrees ==
    /\ session # None => session = binding
    /\ logSeq = Len(log)
    /\ log = <<>> => armed = None
    /\ log = <<>> /\ binding # None /\ EpochReadable => binding.epoch = epochFile + 1
    /\ log # <<>> => /\ armed = ArmedClosed(log)
                     /\ binding = log[1].binding
                     /\ LeaseRecord(log).at <= lastClock

MemoryInv == ProcessType /\ (Serving => MemoryAgrees)

\* A decision under way is that of a core that serves, is armed and has not
\* decided; its reading is not before the last activity, and it goes on to the
\* record only if the lease had not run out or nothing of the candidate is left.
DecidingInv ==
    /\ deciding \in Deciding \cup {None}
    /\ deciding # None =>
         /\ Serving /\ armed # None /\ armed.chosen = None
         /\ deciding.now >= lastClock
         /\ deciding.next = "record" =>
              deciding.now < armed.expires \/ deciding.left = {}

\* The high-water is the highest there was, unless the file was lost; a store
\* with neither record nor file has never had an epoch above 0.
HistoryInv ==
    /\ highest \in Epochs
    /\ lost \in BOOLEAN
    /\ ~lost => /\ EpochReadable => epochFile = highest
                /\ epochFile = Missing /\ log = <<>> => highest = 0

CoreInv == DiskInv /\ OutsideInv /\ MemoryInv

Inv == CoreInv /\ DecidingInv /\ HistoryInv

\* The invariant has the type invariant and the state properties in it.
LEMMA InvImplies ==
    Inv => /\ TypeOK /\ SingleAuthority /\ EpochMatchesLog
           /\ LogAccepted /\ MemoryMatchesLog /\ BoundEpochIsNext
<1> SUFFICES ASSUME Inv PROVE TypeOK /\ SingleAuthority /\ EpochMatchesLog
                              /\ LogAccepted /\ MemoryMatchesLog /\ BoundEpochIsNext
  OBVIOUS
<1>0. CoreInv
  BY DEF Inv
<1>1. log \in Seq(AuthorityRecord) /\ LogShape(log) /\ EpochMatchesLog
  BY <1>0 DEF CoreInv, DiskInv
<1>2. TypeOK
  BY <1>0 DEF Inv, CoreInv, DiskInv, OutsideInv, MemoryInv, ProcessType,
              DecidingInv, HistoryInv, TypeOK
<1>3. SingleAuthority
  <2> SUFFICES ASSUME NEW i \in DOMAIN log, NEW j \in DOMAIN log
               PROVE  /\ log[i].kind = "Armed" /\ log[j].kind = "Armed" => i = j
                      /\ log[i].kind \in Decisions => j <= i
    BY DEF SingleAuthority
  <2>1. Len(log) \in Nat /\ i \in 1 .. Len(log) /\ j \in 1 .. Len(log)
    BY <1>1
  <2>2. RecordShape(log, i) /\ RecordShape(log, j)
    BY <1>1 DEF LogShape
  <2> QED BY <2>1, <2>2 DEF RecordShape
<1>4. LogAccepted
  BY <1>1, ReaderClosed DEF LogAccepted
<1>5. Serving => MemoryAgrees
  BY <1>0 DEF CoreInv, MemoryInv
<1>6. MemoryMatchesLog
  <2> SUFFICES ASSUME Serving, MemoryAgrees
               PROVE  /\ logSeq = RecordCount(log)
                      /\ LET r == ReconstructActiveAuthority(log) IN
                           IF r = None
                           THEN armed = None
                           ELSE /\ armed = [binding |-> r.binding, base |-> r.base,
                                            deadline |-> r.deadline,
                                            expires |-> r.expires,
                                            chosen |-> r.chosen]
                                /\ binding = r.binding
                                /\ lastClock >= r.lastActivity
    BY <1>5 DEF MemoryMatchesLog
  <2>1. CASE log = <<>>
    BY <1>1, <2>1, ReaderClosed DEF MemoryAgrees, RecordCount
  <2>2. CASE log # <<>>
    <3>1. ReconstructActiveAuthority(log) = Closed(log) /\ Closed(log) # None
      BY <1>1, <2>2, ReaderClosed, ArmedClosedType
    <3>2. /\ armed = ArmedClosed(log) /\ binding = log[1].binding
          /\ LeaseRecord(log).at <= lastClock /\ logSeq = Len(log)
      BY <2>2 DEF MemoryAgrees
    <3>3. LeaseRecord(log).at \in Nat
      BY <1>1, <2>2, LeaseRecordFacts
    <3>4. lastClock \in Nat
      BY <1>0 DEF CoreInv, MemoryInv, ProcessType
    <3>5. /\ armed = [binding |-> Closed(log).binding, base |-> Closed(log).base,
                      deadline |-> Closed(log).deadline,
                      expires |-> Closed(log).expires,
                      chosen |-> Closed(log).chosen]
          /\ binding = Closed(log).binding
      BY <3>2 DEF Closed, ArmedClosed
    <3>6. lastClock >= Closed(log).lastActivity
      BY <3>2, <3>3, <3>4 DEF Closed
    <3> QED BY <3>1, <3>2, <3>5, <3>6 DEF RecordCount
  <2> QED BY <2>1, <2>2
<1>7. BoundEpochIsNext
  <2> SUFFICES ASSUME Serving, MemoryAgrees, binding # None, armed = None,
                      EpochReadable
               PROVE  binding.epoch = epochFile + 1
    BY <1>5 DEF BoundEpochIsNext
  <2>1. log = <<>>
    BY <1>1, ArmedClosedType, ArmedAssumption DEF MemoryAgrees
  <2> QED BY <2>1 DEF MemoryAgrees
<1> QED BY <1>1, <1>2, <1>3, <1>4, <1>6, <1>7
-----------------------------------------------------------------------------
(* Ends of a handler after which the core does not serve. *)

\* A process that ended leaves memory in order: nothing is held.
LEMMA StopInv ==
    ASSUME NEW why \in {"stopped"} \cup StartupErrors, Stop(why)
    PROVE  MemoryInv'
<1>1. status' # "running"
  BY DEF Stop, StartupErrors
<1>2. ProcessType'
  BY DEF Stop, ProcessType
<1> QED BY <1>1, <1>2 DEF MemoryInv, Serving

\* enter_safe_mode, the marker written or not, the process alive or not, keeps
\* the memory part of the invariant.
LEMMA EnterSafeModeInv ==
    ASSUME DiskInv, MemoryInv, EnterSafeMode
    PROVE  MemoryInv' /\ marker' \in BOOLEAN /\ markerTemp' \in BOOLEAN
<1>1. marker' \in BOOLEAN /\ markerTemp' \in BOOLEAN
  BY DEF EnterSafeMode, PersistSafeModeMarker, DiskInv
<1>2. CASE Stop("stopped")
  BY <1>1, <1>2, StopInv
<1>3. CASE /\ safeMode' = TRUE
           /\ UNCHANGED <<status, binding, session, armed, logSeq, lastClock>>
  <2>1. ProcessType'
    BY <1>3 DEF MemoryInv, ProcessType
  <2> QED BY <1>1, <1>3, <2>1 DEF MemoryInv, Serving
<1> QED BY <1>2, <1>3 DEF EnterSafeMode

\* A disk with the same log and an epoch that is still the log's.
LEMMA SameDisk ==
    ASSUME DiskInv, UNCHANGED <<epochFile, log>>,
           epochTemp' \in BOOLEAN, readable' \in BOOLEAN,
           marker' \in BOOLEAN, markerTemp' \in BOOLEAN
    PROVE  DiskInv'
<1>1. LogShape(log)' /\ EpochMatchesLog'
  BY DEF DiskInv, LogShape, RecordShape, RenewalAccepted, EpochMatchesLog,
         EpochReadable, LogMaxEpoch
<1> QED BY <1>1 DEF DiskInv

\* Memory that did not change beside a log and an epoch that did not either.
LEMMA SameMemory ==
    ASSUME MemoryInv, UNCHANGED <<processVars, log, epochFile>>
    PROVE  MemoryInv'
BY DEF MemoryInv, processVars, ProcessType, Serving, MemoryAgrees, ArmedClosed,
       LeaseRecord, Decided, EpochReadable

-----------------------------------------------------------------------------
(* The initial state and the actions of the outside. *)

\* A freshly provisioned store satisfies the invariant.
LEMMA InitInv == Init => CoreInv
<1> SUFFICES ASSUME Init PROVE CoreInv
  OBVIOUS
<1>1. log = <<>> /\ log \in Seq(AuthorityRecord) /\ DOMAIN log = {}
  BY DEF Init
<1>2. DiskInv
  BY <1>1 DEF Init, DiskInv, LogShape, EpochMatchesLog, EpochReadable
<1>3. OutsideInv
  BY DEF Init, OutsideInv, Parts
<1>4. MemoryInv
  BY DEF Init, MemoryInv, ProcessType, Serving
<1> QED BY <1>2, <1>3, <1>4 DEF CoreInv

\* A crash between two requests preserves the invariant.
LEMMA CrashInv == ASSUME CoreInv, Crash PROVE CoreInv'
<1>1. DiskInv'
  BY SameDisk DEF CoreInv, Crash, storeVars, DiskInv
<1>2. OutsideInv'
  BY DEF CoreInv, Crash, outsideVars, OutsideInv
<1>3. MemoryInv'
  BY StopInv DEF Crash
<1> QED BY <1>1, <1>2, <1>3 DEF CoreInv

\* The clock and the candidate are free to move.
LEMMA OutsideActionsInv == ASSUME CoreInv, ClockMoves \/ CandidateMoves PROVE CoreInv'
<1>1. DiskInv'
  BY SameDisk DEF CoreInv, ClockMoves, CandidateMoves, storeVars, DiskInv
<1>2. OutsideInv'
  BY DEF CoreInv, ClockMoves, CandidateMoves, OutsideInv
<1>3. MemoryInv'
  BY SameMemory DEF CoreInv, ClockMoves, CandidateMoves, storeVars
<1> QED BY <1>1, <1>2, <1>3 DEF CoreInv

\* Damage to the store's bytes makes it unreadable, never readable and wrong.
LEMMA StoreDamagedInv == ASSUME CoreInv, StoreDamaged PROVE CoreInv'
<1>1. OutsideInv'
  BY DEF CoreInv, StoreDamaged, outsideVars, OutsideInv
<1>2. CASE UNCHANGED epochFile
  <2>1. DiskInv'
    BY <1>2, SameDisk DEF CoreInv, StoreDamaged, DiskInv
  <2>2. MemoryInv'
    BY <1>2, SameMemory DEF CoreInv, StoreDamaged
  <2> QED BY <1>1, <2>1, <2>2 DEF CoreInv
<1>3. CASE epochFile' \in {Missing, Malformed} /\ UNCHANGED readable
  <2>1. ~EpochReadable'
    BY <1>3, EpochAssumption DEF EpochReadable, Missing, Malformed, Epochs
  <2>2. DiskInv'
    BY <1>3, <2>1
       DEF CoreInv, StoreDamaged, DiskInv, LogShape, RecordShape, RenewalAccepted,
           EpochMatchesLog
  <2>3. MemoryInv'
    BY <2>1 DEF CoreInv, StoreDamaged, MemoryInv, processVars, ProcessType, Serving,
                MemoryAgrees, ArmedClosed, LeaseRecord, Decided
  <2> QED BY <1>1, <2>2, <2>3 DEF CoreInv
<1> QED BY <1>2, <1>3 DEF StoreDamaged
-----------------------------------------------------------------------------
(* Startup. *)

\* What startup puts in memory (reopen_state) is what the log holds.
LEMMA RunInv ==
    ASSUME DiskInv, NEW isReopen \in BOOLEAN, Run(isReopen), UNCHANGED log
    PROVE  MemoryInv'
<1>0. log \in Seq(AuthorityRecord) /\ LogShape(log)
  BY DEF DiskInv
<1>1. CASE log = <<>>
  <2>1. Len(log) = 0 /\ ReconstructActiveAuthority(log) = None
    BY <1>0, <1>1, ReaderClosed
  <2>2. /\ status' = "running" /\ safeMode' = FALSE /\ session' = None
        /\ logSeq' = 0 /\ binding' = None /\ lastClock' = 0 /\ armed' = None
    BY <2>1 DEF Run, RecordCount
  <2>3. ProcessType'
    BY <2>2 DEF ProcessType
  <2>4. MemoryAgrees'
    BY <1>1, <2>1, <2>2 DEF MemoryAgrees
  <2> QED BY <2>3, <2>4 DEF MemoryInv
<1>2. CASE log # <<>>
  <2>1. /\ RecordCount(log) > 0
        /\ ReconstructActiveAuthority(log) = Closed(log) /\ Closed(log) # None
    BY <1>0, <1>2, ReaderClosed, ArmedClosedType, LeaseRecordFacts DEF RecordCount
  <2>2. /\ status' = "running" /\ safeMode' = FALSE /\ session' = None
        /\ logSeq' = Len(log) /\ binding' = Closed(log).binding
        /\ lastClock' = Closed(log).lastActivity
        /\ armed' = [binding |-> Closed(log).binding, base |-> Closed(log).base,
                     deadline |-> Closed(log).deadline,
                     expires |-> Closed(log).expires,
                     chosen |-> Closed(log).chosen]
    BY <2>1 DEF Run, RecordCount
  <2>3. /\ binding' = log[1].binding /\ lastClock' = LeaseRecord(log).at
        /\ armed' = ArmedClosed(log)
    BY <2>2 DEF Closed, ArmedClosed
  <2>4. /\ LeaseRecord(log).at \in Nat /\ ArmedClosed(log) \in ArmedState
        /\ log[1] \in AuthorityRecord /\ Len(log) \in Nat
    BY <1>0, <1>2, LeaseRecordFacts, ArmedClosedType
  <2>5. ProcessType'
    BY <2>2, <2>3, <2>4 DEF ProcessType, AuthorityRecord
  <2>6. ArmedClosed(log') = ArmedClosed(log) /\ LeaseRecord(log') = LeaseRecord(log)
    OBVIOUS
  <2>7. MemoryAgrees'
    BY <1>2, <2>2, <2>3, <2>4, <2>6 DEF MemoryAgrees
  <2> QED BY <2>5, <2>7 DEF MemoryInv
<1> QED BY <1>1, <1>2

\* Every way startup can end, open or reopen, preserves the invariant.
LEMMA StartupInv == ASSUME CoreInv, Startup PROVE CoreInv'
<1>0. DiskInv /\ OutsideInv /\ MemoryInv
  BY DEF CoreInv
<1>1. CASE StartupRefusedEarly
  <2>1. DiskInv'
    BY <1>0, <1>1, SameDisk DEF StartupRefusedEarly, storeVars, DiskInv
  <2>2. OutsideInv'
    BY <1>0, <1>1 DEF Startup, StartupRefusedEarly, OutsideInv
  <2>3. \E why \in {"stopped"} \cup StartupErrors : Stop(why)
    BY <1>1 DEF StartupRefusedEarly, StartupErrors
  <2> QED BY <2>1, <2>2, <2>3, StopInv DEF CoreInv
<1>2. ASSUME NEW isReopen \in BOOLEAN, StartupFromStore(isReopen) PROVE CoreInv'
  <2>1. OutsideInv'
    BY <1>0, <1>2 DEF Startup, StartupFromStore, OutsideInv
  <2>2. UNCHANGED <<epochTemp, log, readable, marker, markerTemp>>
    BY <1>2 DEF StartupFromStore
  <2>3. CASE FreshStore(isReopen)
    <3>1. log = <<>>
      BY <1>0, <2>3 DEF FreshStore, RecordCount, DiskInv
    <3>2. epochFile' \in Epochs \cup {Missing, Malformed}
      BY <1>2, <2>3, EpochAssumption
         DEF StartupFromStore, WriteEpochZero, Epochs
    <3>3. DiskInv'
      BY <1>0, <2>2, <3>1, <3>2 DEF DiskInv, LogShape, EpochMatchesLog
    <3>4. \/ Run(isReopen)
          \/ \E why \in {"stopped"} \cup StartupErrors : Stop(why)
      BY <1>2, <2>3 DEF StartupFromStore, StartupErrors
    <3>5. MemoryInv'
      BY <1>0, <2>2, <3>4, RunInv, StopInv
    <3> QED BY <2>1, <3>3, <3>5 DEF CoreInv
  <2>4. CASE ~FreshStore(isReopen)
    <3>1. UNCHANGED epochFile
      BY <1>2, <2>4 DEF StartupFromStore
    <3>2. DiskInv'
      BY <1>0, <2>2, <3>1, SameDisk DEF DiskInv
    <3>3. EpochCrosscheck(isReopen, floor') \in {"ok"} \cup StartupErrors
      BY DEF EpochCrosscheck, StartupErrors
    <3>4. \/ Run(isReopen)
          \/ \E why \in {"stopped"} \cup StartupErrors : Stop(why)
      BY <1>2, <2>4, <3>3 DEF StartupFromStore, StartupErrors
    <3>5. MemoryInv'
      BY <1>0, <2>2, <3>4, RunInv, StopInv
    <3> QED BY <2>1, <3>2, <3>5 DEF CoreInv
  <2> QED BY <2>3, <2>4
<1> QED BY <1>1, <1>2 DEF Startup

-----------------------------------------------------------------------------
(* The requests. *)

\* SessionBind issues the successor of the high-water, or changes no binding.
LEMMA BindInv == ASSUME CoreInv, NEW b \in Binding, Bind(b) PROVE CoreInv'
<1>0. /\ DiskInv /\ OutsideInv /\ MemoryInv
      /\ UNCHANGED <<epochFile, epochTemp, log, readable, outsideVars>>
  BY DEF CoreInv, Bind
<1>1. OutsideInv'
  BY <1>0 DEF OutsideInv, outsideVars
<1>2. ASSUME marker' \in BOOLEAN, markerTemp' \in BOOLEAN PROVE DiskInv'
  BY <1>0, <1>2, SameDisk DEF DiskInv
<1>3. CASE EnterSafeMode
  BY <1>0, <1>1, <1>2, <1>3, EnterSafeModeInv DEF CoreInv
<1>4. CASE /\ binding = None /\ EpochReadable /\ epochFile < MaxEpoch /\ ~safeMode
           /\ binding' = [b EXCEPT !.epoch = epochFile + 1]
           /\ session' = binding'
           /\ UNCHANGED <<marker, markerTemp, status, safeMode, armed, logSeq, lastClock>>
  <2>1. Serving /\ MemoryAgrees
    BY <1>0, <1>4 DEF Bind, Serving, MemoryInv
  <2>2. log = <<>>
    <3>1. log # <<>> => log[1] \in AuthorityRecord
      BY <1>0, LeaseRecordFacts DEF DiskInv
    <3> QED BY <1>4, <2>1, <3>1, NoneAssumption DEF MemoryAgrees, AuthorityRecord
  <2>3. epochFile + 1 \in Epochs
    BY <1>4, EpochAssumption DEF EpochReadable, Epochs
  <2>4. binding' \in Binding /\ binding'.epoch = epochFile + 1
    BY <1>4, <2>3 DEF Binding
  <2>5. ProcessType'
    BY <1>0, <1>4, <2>4 DEF MemoryInv, ProcessType
  <2>6. MemoryAgrees'
    BY <1>0, <1>4, <2>1, <2>2, <2>4 DEF MemoryAgrees
  <2>7. DiskInv'
    BY <1>0, <1>2, <1>4 DEF DiskInv
  <2> QED BY <1>1, <2>5, <2>6, <2>7 DEF CoreInv, MemoryInv
<1>5. CASE /\ binding # None /\ b = binding /\ ~safeMode /\ session' = b
           /\ UNCHANGED <<marker, markerTemp, status, safeMode, binding, armed,
                          logSeq, lastClock>>
  <2>1. Serving /\ MemoryAgrees
    BY <1>0, <1>5 DEF Bind, Serving, MemoryInv
  <2>2. ProcessType'
    BY <1>0, <1>5 DEF MemoryInv, ProcessType
  <2>3. MemoryAgrees'
    BY <1>0, <1>5, <2>1
       DEF MemoryAgrees, ArmedClosed, LeaseRecord, Decided, EpochReadable
  <2>4. DiskInv'
    BY <1>0, <1>2, <1>5 DEF DiskInv
  <2> QED BY <1>1, <2>2, <2>3, <2>4 DEF CoreInv, MemoryInv
<1> QED BY <1>3, <1>4, <1>5 DEF Bind

\* All records of a log of the shape have the epoch of its arming.
LEMMA ShapeEpoch ==
    ASSUME NEW l \in Seq(AuthorityRecord), LogShape(l), l # <<>>
    PROVE  LogMaxEpoch(l) = l[1].binding.epoch
<1>1. Len(l) \in DOMAIN l
  BY LeaseRecordFacts
<1>2. RecordShape(l, Len(l))
  BY <1>1 DEF LogShape
<1> QED BY <1>2 DEF RecordShape, LogMaxEpoch

\* Any outcome of append_record for a record that fits leaves a log of the shape.
LEMMA AppendOutcome ==
    ASSUME DiskInv, NEW r, NEW res, AppendRecord(r, res),
           ValidateSchema(r) => /\ Append(log, r) \in Seq(AuthorityRecord)
                                /\ LogShape(Append(log, r))
    PROVE  /\ log' = log \/ (ValidateSchema(r) /\ log' = Append(log, r))
           /\ log' \in Seq(AuthorityRecord) /\ LogShape(log')
           /\ readable' \in BOOLEAN
           /\ res = "ok" => log' = Append(log, r) /\ ValidateSchema(r)
<1>1. /\ log' = log \/ (ValidateSchema(r) /\ log' = Append(log, r))
      /\ readable' \in BOOLEAN
      /\ res = "ok" => log' = Append(log, r) /\ ValidateSchema(r)
  BY DEF AppendRecord, DiskInv
<1>2. CASE log' = log
  BY <1>1, <1>2 DEF DiskInv
<1>3. CASE ValidateSchema(r) /\ log' = Append(log, r)
  BY <1>1, <1>3
<1> QED BY <1>1, <1>2, <1>3

\* The ends of a handler after append_record that are not a success.
LEMMA AfterAppendInv ==
    ASSUME DiskInv, MemoryInv, NEW res \in Results, NEW accepted,
           AfterAppend(res, accepted)
    PROVE  /\ marker' \in BOOLEAN /\ markerTemp' \in BOOLEAN
           /\ (res = "ok" /\ accepted) \/ MemoryInv'
<1>1. CASE res = "ok" /\ accepted /\ UNCHANGED <<marker, markerTemp>>
  BY <1>1 DEF DiskInv
<1>2. CASE res = "failed" /\ EnterSafeMode
  BY <1>2, EnterSafeModeInv
<1>3. CASE res = "crashed" /\ Stop("stopped") /\ UNCHANGED <<marker, markerTemp>>
  BY <1>3, StopInv DEF DiskInv
<1> QED BY <1>1, <1>2, <1>3 DEF AfterAppend

\* While the core serves, it is armed exactly when the log has records.
LEMMA ServingFacts ==
    ASSUME CoreInv, Serving
    PROVE  /\ MemoryAgrees
           /\ armed = None <=> log = <<>>
           /\ armed # None => /\ log # <<>> /\ armed = ArmedClosed(log)
                              /\ armed \in ArmedState
<1>1. MemoryAgrees /\ log \in Seq(AuthorityRecord) /\ LogShape(log)
  BY DEF CoreInv, MemoryInv, DiskInv
<1>2. log # <<>> => ArmedClosed(log) \in ArmedState
  BY <1>1, ArmedClosedType
<1> QED BY <1>1, <1>2, ArmedAssumption DEF MemoryAgrees

\* A renewal, with every outcome of its append, preserves the invariant.
LEMMA HandleLeaseRenewalInv ==
    ASSUME CoreInv, NEW host \in Hosts, NEW tx \in Txs, NEW epoch \in Epochs,
           NEW lease \in Leases, HandleLeaseRenewal(host, tx, epoch, lease)
    PROVE  CoreInv'
<1> DEFINE expiry == LeaseExpiryAt(clock, armed.deadline)
           b == [host |-> armed.binding.host, tx |-> tx, epoch |-> epoch,
                 lease |-> lease]
           r == LeaseRenewedRecord(logSeq + 1, b, clock, armed.deadline)
<1>0. /\ DiskInv /\ OutsideInv /\ MemoryInv /\ ProcessType
      /\ Serving /\ RenewalAllowed(host, tx, epoch, lease)
      /\ UNCHANGED <<epochFile, epochTemp, outsideVars>>
  BY DEF CoreInv, MemoryInv, HandleLeaseRenewal
<1>1. OutsideInv'
  BY <1>0 DEF OutsideInv, outsideVars
<1>2. /\ MemoryAgrees /\ armed # None /\ log # <<>>
      /\ armed = ArmedClosed(log) /\ armed \in ArmedState
  BY <1>0, ServingFacts DEF RenewalAllowed
<1>3. log \in Seq(AuthorityRecord) /\ LogShape(log)
  BY <1>0 DEF DiskInv
<1>4. /\ log[1] \in AuthorityRecord
      /\ LeaseRecord(log).at \in Nat /\ LeaseRecord(log).expires \in Nat
      /\ LeaseRecord(log).expires <= log[1].deadline
      /\ log[1].deadline \in Nat
      /\ Len(log) \in Nat
  BY <1>2, <1>3, LeaseRecordFacts
<1>5. /\ armed.binding = log[1].binding /\ armed.deadline = log[1].deadline
      /\ armed.expires = LeaseRecord(log).expires
      /\ armed.base = log[1].base
      /\ armed.chosen = IF Decided(log) THEN log[Len(log)].kind ELSE None
  BY <1>2 DEF ArmedClosed
<1>6. ~Decided(log) /\ LeaseRecord(log) = log[Len(log)]
  BY <1>0, <1>5, NoneAssumption DEF RenewalAllowed, Decided, LeaseRecord
<1>7. /\ lastClock \in Nat /\ clock \in Int /\ LeaseRecord(log).at <= lastClock
      /\ clock >= lastClock /\ clock < armed.expires
      /\ logSeq = Len(log)
  BY <1>0, <1>2, ClockAssumption
     DEF ProcessType, OutsideInv, MemoryAgrees, RenewalAllowed
<1>8. clock \in Nat /\ clock < log[1].deadline /\ clock >= LeaseRecord(log).at
      /\ clock < LeaseRecord(log).expires
  BY <1>4, <1>5, <1>7
<1>9. b = log[1].binding
  <2>1. log[1].binding \in Binding
    BY <1>4 DEF AuthorityRecord
  <2>2. /\ tx = log[1].binding.tx /\ epoch = log[1].binding.epoch
        /\ lease = log[1].binding.lease
        /\ armed.binding.host = log[1].binding.host
    BY <1>0, <1>5 DEF RenewalAllowed
  <2> QED BY <2>1, <2>2 DEF Binding
<1>10. expiry \in Nat /\ expiry = LeaseExpiryAt(clock, log[1].deadline)
  BY <1>4, <1>5, <1>8, WindowAssumption DEF LeaseExpiryAt
<1>11. CASE /\ expiry <= armed.expires
            /\ lastClock' = clock
            /\ UNCHANGED <<log, readable, marker, markerTemp, status, safeMode,
                           binding, session, armed, logSeq>>
  <2>1. DiskInv'
    BY <1>0, <1>11, SameDisk DEF DiskInv
  <2>2. ProcessType'
    BY <1>0, <1>8, <1>11 DEF ProcessType
  <2>3. LeaseRecord(log') = LeaseRecord(log) /\ ArmedClosed(log') = ArmedClosed(log)
    BY <1>11
  <2>4. MemoryAgrees'
    BY <1>0, <1>2, <1>8, <1>11, <2>3 DEF MemoryAgrees
  <2> QED BY <1>1, <2>1, <2>2, <2>4 DEF CoreInv, MemoryInv
<1>12. ASSUME expiry > armed.expires, NEW res \in Results, AppendRecord(r, res),
              AfterAppend(res,
                    /\ armed' = [armed EXCEPT !.expires = expiry]
                    /\ logSeq' = logSeq + 1
                    /\ lastClock' = clock
                    /\ UNCHANGED <<status, safeMode, binding, session>>)
       PROVE  CoreInv'
  <2>1. /\ r.kind = "LeaseRenewed" /\ r.sequence = Len(log) + 1
        /\ r.binding = log[1].binding /\ r.at = clock /\ r.expires = expiry
    BY <1>7, <1>9 DEF LeaseRenewedRecord
  <2>2. r \in AuthorityRecord
    <3>1. log[1].binding \in Binding /\ logSeq + 1 \in Nat
      BY <1>4, <1>7 DEF AuthorityRecord
    <3> QED BY <1>8, <1>9, <1>10, <3>1
            DEF LeaseRenewedRecord, AuthorityRecord, Kinds, NoTime
  <2>3. RenewalAccepted(r, log[1], log[Len(log)])
    BY <1>4, <1>5, <1>6, <1>8, <1>10, <1>12, <2>1 DEF RenewalAccepted
  <2> DEFINE l == Append(log, r)
  <2> HIDE DEF r, expiry
  <2>4. /\ l \in Seq(AuthorityRecord) /\ LogShape(l) /\ l # <<>>
        /\ l[1] = log[1] /\ Len(l) = Len(log) + 1 /\ l[Len(l)] = r
        /\ ~Decided(l) /\ LeaseRecord(l) = r
    BY <1>2, <1>3, <1>6, <1>8, <1>10, <2>1, <2>2, <2>3, AppendLater
  <2> HIDE DEF l
  <2>5. /\ log' = log \/ log' = l
        /\ log' \in Seq(AuthorityRecord) /\ LogShape(log') /\ log' # <<>>
        /\ readable' \in BOOLEAN
        /\ res = "ok" => log' = l
    BY <1>0, <1>2, <1>12, <2>4, AppendOutcome DEF l
  <2>6. /\ marker' \in BOOLEAN /\ markerTemp' \in BOOLEAN
        /\ \/ MemoryInv'
           \/ /\ res = "ok"
              /\ armed' = [armed EXCEPT !.expires = expiry]
              /\ logSeq' = logSeq + 1
              /\ lastClock' = clock
              /\ UNCHANGED <<status, safeMode, binding, session>>
    BY <1>0, <1>12, AfterAppendInv
  <2>7. EpochMatchesLog'
    <3>1. LogMaxEpoch(log) = log[1].binding.epoch
          /\ LogMaxEpoch(log') = log[1].binding.epoch
      BY <1>2, <1>3, <2>4, <2>5, ShapeEpoch
    <3> QED BY <1>0, <1>2, <3>1 DEF DiskInv, EpochMatchesLog, EpochReadable
  <2>8. DiskInv'
    BY <1>0, <2>5, <2>6, <2>7 DEF DiskInv
  <2>9. ASSUME res = "ok", armed' = [armed EXCEPT !.expires = expiry],
               logSeq' = logSeq + 1, lastClock' = clock,
               UNCHANGED <<status, safeMode, binding, session>>
        PROVE  MemoryInv'
    <3>1. log' = l
      BY <2>5, <2>9
    <3>2. armed' = ArmedClosed(l)
      BY <1>2, <1>5, <1>6, <2>1, <2>4, <2>9 DEF ArmedClosed
    <3>3. ArmedClosed(l) \in ArmedState
      BY <2>4, ArmedClosedType
    <3>4. ProcessType'
      BY <1>0, <1>7, <1>8, <2>9, <3>2, <3>3 DEF ProcessType
    <3>5. MemoryAgrees'
      BY <1>0, <1>2, <1>7, <1>8, <2>1, <2>4, <2>9, <3>1, <3>2 DEF MemoryAgrees
    <3> QED BY <3>4, <3>5 DEF MemoryInv
  <2> QED BY <1>1, <2>6, <2>8, <2>9 DEF CoreInv
<1> QED BY <1>11, <1>12 DEF HandleLeaseRenewal

\* The first part of a decision writes nothing but the latch.
LEMMA HandleDecisionInv ==
    ASSUME CoreInv, NEW host, NEW tx, NEW epoch, NEW observed,
           HandleDecision(host, tx, epoch, observed)
    PROVE  CoreInv'
<1>0. /\ DiskInv /\ OutsideInv /\ MemoryInv
      /\ UNCHANGED <<epochFile, epochTemp, log, readable, outsideVars>>
  BY DEF CoreInv, HandleDecision
<1>1. OutsideInv'
  BY <1>0 DEF OutsideInv, outsideVars
<1>2. CASE EnterSafeMode
  <2>1. MemoryInv' /\ marker' \in BOOLEAN /\ markerTemp' \in BOOLEAN
    BY <1>0, <1>2, EnterSafeModeInv
  <2>2. DiskInv'
    BY <1>0, <2>1, SameDisk DEF DiskInv
  <2> QED BY <1>1, <2>1, <2>2 DEF CoreInv
<1>3. CASE UNCHANGED <<marker, markerTemp, processVars>>
  <2>1. MemoryInv'
    BY <1>0, <1>3, SameMemory
  <2>2. DiskInv'
    BY <1>0, <1>3, SameDisk DEF DiskInv
  <2> QED BY <1>1, <2>1, <2>2 DEF CoreInv
<1> QED BY <1>2, <1>3 DEF HandleDecision

\* The fence writes nothing but the latch either.
LEMMA FenceCandidateInv ==
    ASSUME CoreInv, FenceCandidate
    PROVE  CoreInv'
<1>0. /\ DiskInv /\ OutsideInv /\ MemoryInv
      /\ UNCHANGED <<epochFile, epochTemp, log, readable, clock, floor>>
  BY DEF CoreInv, FenceCandidate
<1>1. OutsideInv'
  BY <1>0 DEF OutsideInv, FenceCandidate, RunFence
<1>2. CASE EnterSafeMode
  <2>1. MemoryInv' /\ marker' \in BOOLEAN /\ markerTemp' \in BOOLEAN
    BY <1>0, <1>2, EnterSafeModeInv
  <2>2. DiskInv'
    BY <1>0, <2>1, SameDisk DEF DiskInv
  <2> QED BY <1>1, <2>1, <2>2 DEF CoreInv
<1>3. CASE UNCHANGED <<marker, markerTemp, processVars>>
  <2>1. MemoryInv'
    BY <1>0, <1>3, SameMemory
  <2>2. DiskInv'
    BY <1>0, <1>3, SameDisk DEF DiskInv
  <2> QED BY <1>1, <2>1, <2>2 DEF CoreInv
<1> QED BY <1>2, <1>3 DEF FenceCandidate

\* A decision record, with every outcome of its append, preserves the invariant.
LEMMA RecordDecisionInv ==
    ASSUME CoreInv, DecidingInv, RecordDecision
    PROVE  CoreInv'
<1>0. /\ DiskInv /\ OutsideInv /\ MemoryInv /\ ProcessType
      /\ Serving /\ armed # None /\ armed.chosen = None
      /\ UNCHANGED <<epochFile, epochTemp, outsideVars>>
  BY DEF CoreInv, MemoryInv, DecidingInv, RecordDecision
<1>1. OutsideInv'
  BY <1>0 DEF OutsideInv, outsideVars
<1>2. /\ MemoryAgrees /\ armed # None /\ log # <<>>
      /\ armed = ArmedClosed(log) /\ armed \in ArmedState
  BY <1>0, ServingFacts
<1>3. log \in Seq(AuthorityRecord) /\ LogShape(log)
  BY <1>0 DEF DiskInv
<1>4. log[1] \in AuthorityRecord /\ Len(log) \in Nat
      /\ LeaseRecord(log).at \in Nat
  BY <1>2, <1>3, LeaseRecordFacts
<1>5. ~Decided(log)
  BY <1>0, <1>2, NoneAssumption DEF ArmedClosed, Decided
<1>7. CASE UNCHANGED <<log, readable, marker, markerTemp, processVars>>
  <2>1. MemoryInv'
    BY <1>0, <1>7, SameMemory
  <2>2. DiskInv'
    BY <1>0, <1>7, SameDisk DEF DiskInv
  <2> QED BY <1>1, <2>1, <2>2 DEF CoreInv
<1>8. ASSUME NEW kind \in Decisions, NEW res \in Results,
             AppendRecord(DecisionRecord(logSeq + 1, armed.binding, kind), res),
             AfterAppend(res,
                  /\ armed' = [armed EXCEPT !.chosen = kind]
                  /\ logSeq' = logSeq + 1
                  /\ UNCHANGED <<status, safeMode, binding, session, lastClock>>)
      PROVE  CoreInv'
  <2> DEFINE r == DecisionRecord(logSeq + 1, armed.binding, kind)
             l == Append(log, r)
  <2>1. /\ r.kind \in Decisions /\ r.kind = kind /\ r.sequence = Len(log) + 1
        /\ r.binding = log[1].binding
    BY <1>2 DEF DecisionRecord, MemoryAgrees, ArmedClosed
  <2>2. r \in AuthorityRecord
    <3>1. log[1].binding \in Binding /\ logSeq + 1 \in Nat
          /\ armed.binding = log[1].binding
      BY <1>2, <1>4 DEF AuthorityRecord, MemoryAgrees, ArmedClosed
    <3> QED BY <3>1 DEF DecisionRecord, AuthorityRecord, Kinds, NoTime
  <2> HIDE DEF r
  <2>4. /\ l \in Seq(AuthorityRecord) /\ LogShape(l) /\ l # <<>>
        /\ l[1] = log[1] /\ Len(l) = Len(log) + 1 /\ l[Len(l)] = r
        /\ Decided(l) /\ LeaseRecord(l) = LeaseRecord(log)
    BY <1>2, <1>3, <1>5, <2>1, <2>2, AppendLater
  <2>5. /\ log' = log \/ log' = l
        /\ log' \in Seq(AuthorityRecord) /\ LogShape(log') /\ log' # <<>>
        /\ readable' \in BOOLEAN
        /\ res = "ok" => log' = l
    BY <1>0, <1>2, <1>8, <2>4, AppendOutcome DEF r
  <2> HIDE DEF l
  <2>6. /\ marker' \in BOOLEAN /\ markerTemp' \in BOOLEAN
        /\ \/ MemoryInv'
           \/ /\ res = "ok"
              /\ armed' = [armed EXCEPT !.chosen = kind]
              /\ logSeq' = logSeq + 1
              /\ UNCHANGED <<status, safeMode, binding, session, lastClock>>
    BY <1>0, <1>8, AfterAppendInv
  <2>7. EpochMatchesLog'
    <3>1. LogMaxEpoch(log) = log[1].binding.epoch
          /\ LogMaxEpoch(log') = log[1].binding.epoch
      BY <1>2, <1>3, <2>4, <2>5, ShapeEpoch
    <3> QED BY <1>0, <1>2, <3>1 DEF DiskInv, EpochMatchesLog, EpochReadable
  <2>8. DiskInv'
    BY <1>0, <2>5, <2>6, <2>7 DEF DiskInv
  <2>9. ASSUME res = "ok", armed' = [armed EXCEPT !.chosen = kind],
               logSeq' = logSeq + 1,
               UNCHANGED <<status, safeMode, binding, session, lastClock>>
        PROVE  MemoryInv'
    <3>1. log' = l
      BY <2>5, <2>9
    <3>2. armed' = ArmedClosed(l)
      BY <1>2, <2>1, <2>4, <2>9 DEF ArmedClosed
    <3>3. ArmedClosed(l) \in ArmedState
      BY <2>4, ArmedClosedType
    <3>4. ProcessType'
      BY <1>0, <2>9, <3>2, <3>3 DEF ProcessType
    <3>5. MemoryAgrees'
      BY <1>0, <1>2, <2>4, <2>9, <3>1, <3>2 DEF MemoryAgrees
    <3> QED BY <3>4, <3>5 DEF MemoryInv
  <2> QED BY <1>1, <2>6, <2>8, <2>9 DEF CoreInv
<1> QED BY <1>7, <1>8 DEF RecordDecision

\* An arming, with every outcome of the epoch advance and of the append,
\* preserves the invariant.
LEMMA HandleArmInv ==
    ASSUME CoreInv, NEW host \in Hosts, NEW tx \in Txs, NEW epoch \in Epochs,
           NEW base \in Bases \cup {Blank}, NEW deadline \in Deadlines,
           NEW observed \in Bases \cup {Blank},
           HandleArm(host, tx, epoch, base, deadline, observed)
    PROVE  CoreInv'
<1> DEFINE b == [host |-> host, tx |-> tx, epoch |-> epoch, lease |-> binding.lease]
           r == ArmedRecord(logSeq + 1, b, base, clock, deadline)
<1>0. /\ DiskInv /\ OutsideInv /\ MemoryInv /\ ProcessType
      /\ Serving /\ ArmAllowed(host, tx, epoch, base, observed)
      /\ UNCHANGED outsideVars
  BY DEF CoreInv, MemoryInv, HandleArm
<1>1. OutsideInv'
  BY <1>0 DEF OutsideInv, outsideVars
<1>2. MemoryAgrees /\ armed = None /\ log = <<>> /\ logSeq = 0
  BY <1>0, ServingFacts DEF ArmAllowed, MemoryAgrees
<1>3. ASSUME UNCHANGED log, epochFile' \in Epochs \cup {Missing, Malformed},
             epochTemp' \in BOOLEAN, readable' \in BOOLEAN,
             marker' \in BOOLEAN, markerTemp' \in BOOLEAN
      PROVE  DiskInv'
  BY <1>0, <1>2, <1>3 DEF DiskInv, LogShape, EpochMatchesLog
<1>4. CASE /\ EnterSafeMode
           /\ UNCHANGED <<epochFile, epochTemp, log, readable>>
  <2>1. MemoryInv' /\ marker' \in BOOLEAN /\ markerTemp' \in BOOLEAN
    BY <1>0, <1>4, EnterSafeModeInv
  <2>2. DiskInv'
    BY <1>0, <1>3, <1>4, <2>1 DEF DiskInv
  <2> QED BY <1>1, <2>1, <2>2 DEF CoreInv
<1>5. CASE /\ EpochReadable /\ epochFile < MaxEpoch
           /\ binding # None
           /\ epoch = binding.epoch /\ epoch = epochFile + 1
           /\ deadline > clock
  <2>1. /\ epochFile + 1 \in Epochs
        /\ epochFile \in Epochs \cup {Missing, Malformed}
        /\ epochTemp \in BOOLEAN
    BY <1>0, <1>5, EpochAssumption DEF EpochReadable, Epochs, DiskInv
  <2>2. ASSUME NEW res, AdvanceEpoch(res)
        PROVE  /\ epochFile' \in Epochs \cup {Missing, Malformed}
               /\ epochTemp' \in BOOLEAN
               /\ res = "ok" => epochFile' = epochFile + 1
    BY <2>1, <2>2 DEF AdvanceEpoch
  <2>3. CASE /\ AdvanceEpoch("crashed") /\ Stop("stopped")
             /\ UNCHANGED <<log, readable, marker, markerTemp>>
    <3>1. DiskInv'
      BY <1>0, <1>3, <2>2, <2>3 DEF DiskInv
    <3> QED BY <1>1, <2>3, <3>1, StopInv DEF CoreInv
  <2>4. ASSUME NEW res, AdvanceEpoch(res), EnterSafeMode, UNCHANGED <<log, readable>>
        PROVE  CoreInv'
    <3>1. MemoryInv' /\ marker' \in BOOLEAN /\ markerTemp' \in BOOLEAN
      BY <1>0, <2>4, EnterSafeModeInv
    <3>2. DiskInv'
      BY <1>0, <1>3, <2>2, <2>4, <3>1 DEF DiskInv
    <3> QED BY <1>1, <3>1, <3>2 DEF CoreInv
  <2>5. ASSUME AdvanceEpoch("ok"), clock >= 0,
               NEW res \in Results, AppendRecord(r, res),
               AfterAppend(res,
                    /\ armed' = [binding |-> b, base |-> base,
                                 deadline |-> deadline,
                                 expires |-> r.expires, chosen |-> None]
                    /\ logSeq' = logSeq + 1
                    /\ lastClock' = clock
                    /\ UNCHANGED <<status, safeMode, binding, session>>)
        PROVE  CoreInv'
    <3>1. /\ clock \in Nat /\ deadline \in Nat /\ clock < deadline
          /\ LeaseExpiryAt(clock, deadline) \in Nat
      BY <1>0, <1>5, <2>5, ClockAssumption, DeadlineAssumption, WindowAssumption
         DEF OutsideInv, LeaseExpiryAt
    <3>2. b = binding /\ binding \in Binding
      <4>1. /\ binding \in Binding /\ session = binding
            /\ host = session.host /\ tx = session.tx /\ epoch = session.epoch
        BY <1>0, <1>2, <1>5 DEF ProcessType, MemoryAgrees, ArmAllowed, Authenticated
      <4> QED BY <4>1 DEF Binding
    <3> HIDE DEF b
    <3>3. /\ r.kind = "Armed" /\ r.sequence = 1 /\ r.binding = b
          /\ r.base = base /\ r.at = clock /\ r.deadline = deadline
          /\ r.expires = LeaseExpiryAt(clock, deadline)
      BY <1>2 DEF ArmedRecord
    <3>4. r \in AuthorityRecord
      BY <1>2, <3>1, <3>2 DEF ArmedRecord, AuthorityRecord, Kinds
    <3> HIDE DEF r
    <3> DEFINE l == Append(<<>>, r)
    <3>5. ASSUME ValidateSchema(r)
          PROVE  /\ l \in Seq(AuthorityRecord) /\ LogShape(l) /\ l # <<>>
                 /\ l[1] = r /\ Len(l) = 1 /\ ~Decided(l) /\ LeaseRecord(l) = r
      <4>1. base \in Bases
        BY <3>3, <3>5 DEF ValidateSchema
      <4> QED BY <3>1, <3>3, <3>4, <4>1, AppendArmed
    <3>6. /\ log' = log \/ (ValidateSchema(r) /\ log' = l)
          /\ log' \in Seq(AuthorityRecord) /\ LogShape(log')
          /\ readable' \in BOOLEAN
          /\ res = "ok" => log' = l /\ ValidateSchema(r)
      BY <1>0, <1>2, <2>5, <3>5, AppendOutcome
    <3> HIDE DEF l
    <3>7. /\ marker' \in BOOLEAN /\ markerTemp' \in BOOLEAN
          /\ \/ MemoryInv'
             \/ /\ res = "ok"
                /\ armed' = [binding |-> b, base |-> base, deadline |-> deadline,
                             expires |-> r.expires, chosen |-> None]
                /\ logSeq' = logSeq + 1
                /\ lastClock' = clock
                /\ UNCHANGED <<status, safeMode, binding, session>>
      BY <1>0, <2>5, AfterAppendInv
    <3>8. EpochMatchesLog'
      <4>1. CASE log' = log
        BY <1>2, <4>1 DEF EpochMatchesLog
      <4>2. CASE ValidateSchema(r) /\ log' = l
        <5>1. LogMaxEpoch(l) = binding.epoch
          BY <3>2, <3>3, <3>5, <4>2, ShapeEpoch
        <5> QED BY <1>5, <2>2, <2>5, <4>2, <5>1 DEF EpochMatchesLog
      <4> QED BY <3>6, <4>1, <4>2
    <3>9. DiskInv'
      BY <2>2, <2>5, <3>6, <3>7, <3>8 DEF DiskInv
    <3>10. ASSUME res = "ok",
                  armed' = [binding |-> b, base |-> base, deadline |-> deadline,
                            expires |-> r.expires, chosen |-> None],
                  logSeq' = logSeq + 1, lastClock' = clock,
                  UNCHANGED <<status, safeMode, binding, session>>
           PROVE  MemoryInv'
      <4>1. log' = l /\ ValidateSchema(r)
        BY <3>6, <3>10
      <4>2. /\ l \in Seq(AuthorityRecord) /\ LogShape(l) /\ l # <<>>
            /\ l[1] = r /\ Len(l) = 1 /\ ~Decided(l) /\ LeaseRecord(l) = r
        BY <3>5, <4>1
      <4>3. armed' = ArmedClosed(l)
        BY <3>3, <3>10, <4>2 DEF ArmedClosed
      <4>4. ArmedClosed(l) \in ArmedState
        BY <4>2, ArmedClosedType
      <4>5. ProcessType'
        BY <1>0, <1>2, <3>1, <3>10, <4>3, <4>4 DEF ProcessType
      <4>6. MemoryAgrees'
        BY <1>2, <3>1, <3>2, <3>3, <3>10, <4>1, <4>2, <4>3 DEF MemoryAgrees
      <4> QED BY <4>5, <4>6 DEF MemoryInv
    <3> QED BY <1>1, <3>7, <3>9, <3>10 DEF CoreInv
  <2> QED BY <1>4, <2>3, <2>4, <2>5 DEF HandleArm
<1> QED BY <1>4, <1>5 DEF HandleArm

-----------------------------------------------------------------------------
(* The theorems. *)

\* Every step of the core and of its surroundings preserves its disk and memory.
LEMMA CoreStep == ASSUME Inv, [Next]_vars PROVE CoreInv'
<1>0. CoreInv /\ DecidingInv
  BY DEF Inv
<1>1. CASE Startup
  BY <1>0, <1>1, StartupInv
<1>2. CASE Request
  <2>1. \A host \in Hosts, tx \in Txs, epoch \in Epochs, lease \in Leases :
          [host |-> host, tx |-> tx, epoch |-> epoch, lease |-> lease] \in Binding
    BY DEF Binding
  <2> QED BY <1>0, <1>2, <2>1, BindInv, HandleLeaseRenewalInv, HandleArmInv,
             HandleDecisionInv DEF Request
<1>3. CASE Crash
  BY <1>0, <1>3, CrashInv
<1>4. CASE ClockMoves \/ CandidateMoves
  BY <1>0, <1>4, OutsideActionsInv
<1>5. CASE StoreDamaged
  BY <1>0, <1>5, StoreDamagedInv
<1>6. CASE UNCHANGED vars
  <2>1. DiskInv'
    BY <1>0, <1>6, SameDisk DEF vars, storeVars, CoreInv, DiskInv
  <2>2. OutsideInv'
    BY <1>0, <1>6 DEF vars, outsideVars, CoreInv, OutsideInv
  <2>3. MemoryInv'
    BY <1>0, <1>6, SameMemory DEF vars, storeVars, CoreInv
  <2> QED BY <2>1, <2>2, <2>3 DEF CoreInv
<1>7. CASE FenceCandidate
  BY <1>0, <1>7, FenceCandidateInv
<1>8. CASE RecordDecision
  BY <1>0, <1>8, RecordDecisionInv
<1> QED BY <1>1, <1>2, <1>3, <1>4, <1>5, <1>6, <1>7, <1>8 DEF Next

\* A decision under way stays that of the core that took the reading: no other
\* request is handled meanwhile, and a failed fence or a crash ends it.
LEMMA DecidingStep == ASSUME Inv, [Next]_vars PROVE DecidingInv'
<1>0. DecidingInv
  BY DEF Inv
<1>1. CASE deciding' = None
  BY <1>1 DEF DecidingInv
<1>2. ASSUME UNCHANGED <<deciding, processVars>> PROVE DecidingInv'
  BY <1>0, <1>2 DEF DecidingInv, processVars, Serving
<1>3. CASE Startup
  <2>1. ~Serving
    BY <1>3 DEF Startup, Serving
  <2> QED BY <1>0, <1>1, <1>3, <2>1 DEF DecidingInv, Startup
<1>4. ASSUME NEW host, NEW tx, NEW epoch, NEW observed, deciding = None,
             HandleDecision(host, tx, epoch, observed)
      PROVE  DecidingInv'
  <2>1. CASE deciding' = [now  |-> clock,
                          next |-> IF clock >= armed.expires
                                   THEN "fence" ELSE "record",
                          left |-> Parts]
             /\ clock >= lastClock
             /\ UNCHANGED <<marker, markerTemp, processVars>>
    <3>1. clock \in Int
      BY ClockAssumption DEF Inv, CoreInv, OutsideInv
    <3>2. deciding' \in Deciding
      BY <2>1, <3>1 DEF Deciding
    <3>3. Serving' /\ armed' # None /\ armed'.chosen = None /\ lastClock' = lastClock
          /\ armed' = armed
      BY <1>4, <2>1 DEF HandleDecision, DecisionAllowed, processVars, Serving
    <3>4. /\ deciding'.now = clock
          /\ deciding'.next = IF clock >= armed.expires THEN "fence" ELSE "record"
      BY <2>1
    <3>5. deciding'.next = "record" => clock < armed.expires
      <4>1. armed.expires \in Int
        <5>1. armed \in ArmedState /\ log # <<>> /\ armed = ArmedClosed(log)
          BY <1>4, ServingFacts DEF HandleDecision, DecisionAllowed, Inv
        <5>2. LeaseRecord(log).expires \in Nat
          BY <5>1, LeaseRecordFacts DEF Inv, CoreInv, DiskInv
        <5> QED BY <5>1, <5>2 DEF ArmedClosed
      <4> QED BY <3>1, <3>4, <4>1
    <3> QED BY <2>1, <3>2, <3>3, <3>4, <3>5 DEF DecidingInv
  <2> QED BY <1>1, <1>4, <2>1 DEF HandleDecision
<1>5. CASE Request
  BY <1>1, <1>4, <1>5 DEF Request
<1>6. CASE FenceCandidate
  <2>1. CASE /\ RunFence("ok") /\ UNCHANGED <<marker, markerTemp, processVars>>
             /\ deciding' = [deciding EXCEPT !.next = "record", !.left = candidate']
    <3>1. candidate' = {}
      BY <2>1 DEF RunFence
    <3>2. deciding # None /\ deciding \in Deciding
      BY <1>0, <1>6 DEF FenceCandidate, DecidingInv
    <3>3. deciding' \in Deciding /\ deciding'.now = deciding.now /\ deciding'.left = {}
      BY <2>1, <3>1, <3>2 DEF Deciding
    <3> QED BY <1>0, <2>1, <3>2, <3>3 DEF DecidingInv, processVars, Serving
  <2> QED BY <1>1, <1>6, <2>1 DEF FenceCandidate
<1>7. CASE Crash \/ RecordDecision
  BY <1>1, <1>7 DEF Crash, RecordDecision
<1>8. CASE ClockMoves \/ CandidateMoves \/ StoreDamaged \/ UNCHANGED vars
  BY <1>2, <1>8 DEF ClockMoves, CandidateMoves, StoreDamaged, vars
<1> QED BY <1>3, <1>5, <1>6, <1>7, <1>8 DEF Next

\* What a step may do to the epoch file: start a fresh store, advance it by one,
\* or damage it; everything else leaves it alone.
EpochStep ==
    \/ epochFile' = epochFile
    \/ epochFile = Missing /\ log = <<>> /\ epochFile' \in {Missing, Malformed, 0}
    \/ EpochReadable /\ epochFile < MaxEpoch /\ epochFile' = epochFile + 1
    \/ epochFile' \in {Missing, Malformed}

\* Only startup, arming and damage reach the file.
LEMMA EpochStepNext == ASSUME Inv, [Next]_vars PROVE EpochStep
<1>0. log \in Seq(AuthorityRecord)
  BY DEF Inv, CoreInv, DiskInv
<1>1. CASE Startup
  <2>1. CASE StartupRefusedEarly
    BY <2>1 DEF StartupRefusedEarly, storeVars, EpochStep
  <2>2. ASSUME NEW isReopen, StartupFromStore(isReopen) PROVE EpochStep
    <3>1. FreshStore(isReopen) => epochFile = Missing /\ log = <<>>
      BY <1>0 DEF FreshStore, RecordCount
    <3>2. FreshStore(isReopen) => epochFile' \in {Missing, Malformed, 0}
      BY <2>2 DEF StartupFromStore, WriteEpochZero
    <3> QED BY <2>2, <3>1, <3>2 DEF StartupFromStore, EpochStep
  <2> QED BY <1>1, <2>1, <2>2 DEF Startup
<1>2. CASE Request
  <2>1. ASSUME NEW b, Bind(b) PROVE epochFile' = epochFile
    BY <2>1 DEF Bind
  <2>2. ASSUME NEW host, NEW tx, NEW epoch, NEW lease,
               HandleLeaseRenewal(host, tx, epoch, lease)
        PROVE  epochFile' = epochFile
    BY <2>2 DEF HandleLeaseRenewal
  <2>3. ASSUME NEW host, NEW tx, NEW epoch, NEW observed,
               HandleDecision(host, tx, epoch, observed)
        PROVE  epochFile' = epochFile
    BY <2>3 DEF HandleDecision
  <2>4. ASSUME NEW host, NEW tx, NEW epoch, NEW base, NEW deadline, NEW observed,
               HandleArm(host, tx, epoch, base, deadline, observed)
        PROVE  EpochStep
    <3>1. ASSUME NEW res, AdvanceEpoch(res)
          PROVE  epochFile' = epochFile \/ epochFile' = epochFile + 1
      BY <3>1 DEF AdvanceEpoch
    <3> QED BY <2>4, <3>1 DEF HandleArm, EpochStep
  <2> QED BY <1>2, <2>1, <2>2, <2>3, <2>4 DEF Request, EpochStep
<1>3. CASE Crash \/ ClockMoves \/ CandidateMoves \/ StoreDamaged
  BY <1>3 DEF Crash, ClockMoves, CandidateMoves, StoreDamaged, storeVars, EpochStep
<1>4. CASE FenceCandidate \/ RecordDecision
  BY <1>4 DEF FenceCandidate, RecordDecision, EpochStep
<1>5. CASE UNCHANGED vars
  BY <1>5 DEF vars, storeVars, EpochStep
<1> QED BY <1>1, <1>2, <1>3, <1>4, <1>5 DEF Next

\* The history keeps up with the file.  A log with records keeps them, so a file
\* that went missing under records never makes the store fresh.
LEMMA HistoryStep ==
    ASSUME Inv, [Next]_vars, log # <<>> => log' # <<>>
    PROVE  HistoryInv'
<1>1. HistoryInv /\ EpochStep
  BY EpochStepNext DEF Inv
<1>2. CASE UNCHANGED vars
  BY <1>1, <1>2 DEF vars, storeVars, HistoryInv, EpochReadable
<1>3. CASE Remember
  <2>1. /\ highest' = IF epochFile' \in Epochs /\ epochFile' > highest
                      THEN epochFile' ELSE highest
        /\ lost' = (lost \/ (epochFile # Missing /\ epochFile' = Missing /\ log = <<>>))
    BY <1>3 DEF Remember
  <2>2. highest' \in Epochs /\ lost' \in BOOLEAN
    BY <1>1, <2>1 DEF HistoryInv
  <2>3. ASSUME ~lost'
        PROVE  /\ EpochReadable' => epochFile' = highest'
               /\ epochFile' = Missing /\ log' = <<>> => highest' = 0
    <3>1. ~lost /\ ~(epochFile # Missing /\ epochFile' = Missing /\ log = <<>>)
      BY <2>1, <2>3
    <3>2. /\ epochFile \in Epochs => epochFile = highest
          /\ epochFile = Missing /\ log = <<>> => highest = 0
      <4>1. ~lost => /\ EpochReadable => epochFile = highest
                     /\ epochFile = Missing /\ log = <<>> => highest = 0
        BY <1>1, Zenon DEF HistoryInv
      <4>2. EpochReadable => epochFile = highest
        BY <3>1, <4>1, Zenon
      <4>3. epochFile = Missing /\ log = <<>> => highest = 0
        BY <3>1, <4>1, Zenon
      <4> QED BY <4>2, <4>3, Zenon DEF EpochReadable
    <3>3. /\ Missing \notin Epochs /\ Malformed \notin Epochs /\ 0 \in Epochs
          /\ Missing # Malformed /\ Epochs \subseteq Int /\ highest \in Int
      BY <1>1, EpochAssumption DEF Epochs, Missing, Malformed, HistoryInv
    <3>4. CASE epochFile' = epochFile
      BY <2>1, <3>2, <3>3, <3>4 DEF EpochReadable
    <3>5. CASE epochFile = Missing /\ log = <<>> /\ epochFile' \in {Missing, Malformed, 0}
      BY <2>1, <3>2, <3>3, <3>5 DEF EpochReadable
    <3>6. CASE EpochReadable /\ epochFile < MaxEpoch /\ epochFile' = epochFile + 1
      <4>1. epochFile' \in Epochs /\ epochFile' > highest
        BY <3>2, <3>6, EpochAssumption DEF EpochReadable, Epochs
      <4> QED BY <2>1, <3>3, <4>1
    <3>7. CASE epochFile' \in {Missing, Malformed}
      BY <2>1, <3>1, <3>2, <3>3, <3>7 DEF EpochReadable
    <3> QED BY <1>1, <3>4, <3>5, <3>6, <3>7 DEF EpochStep
  <2> QED BY <2>2, <2>3 DEF HistoryInv
<1> QED BY <1>2, <1>3 DEF Next

\* No step takes a record out of the log.
LEMMA LogKept == ASSUME Inv, [Next]_vars PROVE log # <<>> => log' # <<>>
<1>0. log \in Seq(AuthorityRecord)
  BY DEF Inv, CoreInv, DiskInv
<1>1. ASSUME NEW r, NEW res, AppendRecord(r, res) PROVE log' = log \/ log' # <<>>
  BY <1>0, <1>1 DEF AppendRecord
<1>2. CASE Startup
  BY <1>2 DEF Startup, StartupRefusedEarly, StartupFromStore, storeVars
<1>3. CASE Request
  <2>1. ASSUME NEW b, Bind(b) PROVE log' = log
    BY <2>1 DEF Bind
  <2>2. ASSUME NEW host, NEW tx, NEW epoch, NEW lease,
               HandleLeaseRenewal(host, tx, epoch, lease)
        PROVE  log' = log \/ log' # <<>>
    BY <1>1, <2>2 DEF HandleLeaseRenewal
  <2>3. ASSUME NEW host, NEW tx, NEW epoch, NEW observed,
               HandleDecision(host, tx, epoch, observed)
        PROVE  log' = log
    BY <2>3 DEF HandleDecision
  <2>4. ASSUME NEW host, NEW tx, NEW epoch, NEW base, NEW deadline, NEW observed,
               HandleArm(host, tx, epoch, base, deadline, observed)
        PROVE  log' = log \/ log' # <<>>
    BY <1>1, <2>4 DEF HandleArm
  <2> QED BY <1>3, <2>1, <2>2, <2>3, <2>4 DEF Request
<1>4. CASE Crash \/ ClockMoves \/ CandidateMoves \/ StoreDamaged \/ FenceCandidate
  BY <1>4 DEF Crash, ClockMoves, CandidateMoves, StoreDamaged, FenceCandidate, storeVars
<1>5. CASE RecordDecision
  BY <1>1, <1>5 DEF RecordDecision
<1>6. CASE UNCHANGED vars
  BY <1>6 DEF vars, storeVars
<1> QED BY <1>2, <1>3, <1>4, <1>5, <1>6 DEF Next

\* A freshly provisioned store satisfies the whole invariant.
LEMMA InitWhole == Init => Inv
<1> SUFFICES ASSUME Init PROVE Inv
  OBVIOUS
<1>1. CoreInv
  BY InitInv
<1>2. DecidingInv
  BY DEF Init, DecidingInv
<1>3. HistoryInv
  <2>1. 0 \in Epochs /\ Missing \notin Epochs
    BY EpochAssumption DEF Epochs, Missing
  <2>2. highest = 0 /\ lost = FALSE /\ epochFile = Missing
    BY DEF Init
  <2> QED BY <2>1, <2>2, Zenon DEF HistoryInv, EpochReadable
<1> QED BY <1>1, <1>2, <1>3 DEF Inv

\* Every step preserves the invariant.
LEMMA NextInv == Inv /\ [Next]_vars => Inv'
<1> SUFFICES ASSUME Inv, [Next]_vars PROVE Inv'
  OBVIOUS
<1> QED BY CoreStep, DecidingStep, LogKept, HistoryStep DEF Inv

\* The inductive invariant holds in every reachable state.
THEOREM Invariance == Spec => []Inv
<1>1. Init => Inv
  BY InitWhole
<1>2. Inv /\ [Next]_vars => Inv'
  BY NextInv
<1> QED BY <1>1, <1>2, PTL DEF Spec

\* Every variable keeps its type: in particular every record ever written by a
\* handler, and everything a restart rebuilds from the log, is well formed.
THEOREM TypeCorrect == Spec => []TypeOK
<1>1. Inv => TypeOK
  BY InvImplies
<1> QED BY <1>1, Invariance, PTL

\* A store carries at most one arming and one decision, and nothing follows the
\* decision, through any number of failed writes, crashes and restarts.
THEOREM AuthorityIsSingle == Spec => []SingleAuthority
<1>1. Inv => SingleAuthority
  BY InvImplies
<1> QED BY <1>1, Invariance, PTL

\* The core's reader accepts every log its handlers have written, unless a
\* record in it is longer than the reader takes; nothing else of what the
\* handlers write is ever refused.
THEOREM LogIsAccepted == Spec => []LogAccepted
<1>1. Inv => LogAccepted
  BY InvImplies
<1> QED BY <1>1, Invariance, PTL

\* A serving core knows exactly what a restart would rebuild from the log.
THEOREM MemoryIsDurable == Spec => []MemoryMatchesLog
<1>1. Inv => MemoryMatchesLog
  BY InvImplies
<1> QED BY <1>1, Invariance, PTL

\* A readable high-water file always agrees with a log that has records.
THEOREM EpochAgreesWithLog == Spec => []EpochMatchesLog
<1>1. Inv => EpochMatchesLog
  BY InvImplies
<1> QED BY <1>1, Invariance, PTL

\* The epoch issued at bind is the one that arming will take.
THEOREM BoundEpochStaysNext == Spec => []BoundEpochIsNext
<1>1. Inv => BoundEpochIsNext
  BY InvImplies
<1> QED BY <1>1, Invariance, PTL
=============================================================================
