------------------------- MODULE BrokerEngineProofs -------------------------
(***************************************************************************)
(* Proofs about BrokerEngine for every value of its constants: any number  *)
(* of transactions, agents, keys and WAL records, with writes that fail    *)
(* and a process that dies anywhere.                                       *)
(***************************************************************************)
EXTENDS BrokerEngine, FiniteSetTheorems, WellFoundedInduction, TLAPS

(* The phases of a call: it writes forward, takes back what it wrote, or     *)
(* completes a binding that only the WAL has.                                *)
Undoing   == {"revert", "unwind", "unbind"}
Repairing == {"repair_record", "repair_event"}

\* The record of the call in progress, which a rollback may take away.
Doomed == IF call = None \/ call.step \in Repairing THEN {} ELSE {call.seq}

\* A record with a key is one that an idempotency record can be made of.
Bindable(r) == r.state \in {"Proposed", "Applying", "Rejected"} /\ r.fingerprint # None

\* The call in progress, its record in the WAL, and the step it is at.
CallInv ==
    call # None =>
        /\ up
        /\ call.step \notin Undoing => ~safeMode
        /\ call.step \notin {"unwind", "unbind"} =>
               call.seq \in DOMAIN wal /\ wal[call.seq] = call.rec
        /\ call.step = "unwind" => call.seq \notin DOMAIN wal
        /\ call.step \notin Repairing \cup {"unbind"} =>
               call.seq >= 1 /\ call.seq = nextSeq
        /\ call.step \notin Repairing /\ call.rec.state = "Rejected" =>
               call.before # None
        /\ call.rec.key # None => Bindable(call.rec)
        /\ call.step \in {"record", "refusal_event", "refusal_record", "unbind"}
                            \cup Repairing => call.rec.key # None
        /\ call.rec.state = "Rejected" => call.rec.key # None
        /\ call.unbinds => call.rec.key # None
        /\ call.step \in {"record", "refusal_event", "refusal_record", "repair_record"} =>
               BindingKey(call.rec) \notin DOMAIN idem
        /\ call.step = "insert" /\ call.rec.key # None =>
               BindingKey(call.rec) \notin DOMAIN idem
        /\ call.step \in {"event", "repair_event"} /\ call.rec.key # None =>
               LET k == BindingKey(call.rec) IN
               /\ k \in DOMAIN idem /\ idem[k] = IdemOf(call.rec)
               /\ k \in DOMAIN idemFiles

\* The next sequence number is free whenever a call could use it.
SeqInv ==
    /\ Serving \/ call # None => DOMAIN wal \subseteq 1 .. nextSeq
    /\ ~up => idem = Empty /\ call = None /\ ~safeMode
    /\ \A i \in DOMAIN wal : wal[i].key # None => Bindable(wal[i])

\* What was done and acknowledged is recorded, elsewhere than in the record
\* that a rollback may take away.
Acked(r) ==
    \E i \in DOMAIN wal \ Doomed : wal[i].tx = r.tx /\ wal[i].state = r.state

AckInv == \A r \in replies : r.fresh => Acked(r)

\* The first record of a key, on which merge_from_wal falls back.
FirstOf(i, k) == i \in RecordsOf(k) /\ \A j \in RecordsOf(k) : i <= j

\* A restart would bind the key to this: the index file, or else the WAL.
Backed(k, e) ==
    IF k \in DOMAIN idemFiles THEN idemFiles[k] = e
    ELSE \E i \in DOMAIN wal \ Doomed : FirstOf(i, k) /\ IdemOf(wal[i]) = e

BackInv == \A k \in DOMAIN idem : Backed(k, idem[k])

\* The idempotency record that an answer was made of.
EntryOf(r) == [tx |-> r.tx, fingerprint |-> r.fingerprint, state |-> r.state]

\* An answered key stays bound to its answer, and no call works on it.
Bound(r) ==
    /\ Backed(r.key, EntryOf(r))
    /\ Serving => r.key \in DOMAIN idem /\ idem[r.key] = EntryOf(r)
    /\ call # None /\ call.rec.key # None => r.key # BindingKey(call.rec)

ReplyInv == \A r \in replies : r.key # None => Bound(r)

Inv ==
    /\ TypeOK /\ CallInv /\ SeqInv /\ KeyBoundOnce /\ AckInv
    /\ BackInv /\ ReplyInv /\ RepliesAgree

-----------------------------------------------------------------------------
(* Data. *)

\* A set of sequence numbers has a least element: this replaces induction.
LEMMA LeastExists ==
    ASSUME NEW T \in SUBSET Nat, T # {}
    PROVE  \E x \in T : \A y \in T : x <= y
<1> DEFINE R == OpToRel(<, Nat)
<1>1. IsWellFoundedOn(R, Nat)
  BY NatLessThanWellFounded
<1>2. \A y, x \in Nat : <<y, x>> \in R <=> y < x
  BY DEF OpToRel
<1> HIDE DEF R
<1>3. PICK x \in T : \A y \in T : ~(<<y, x>> \in R)
  BY <1>1, WFMin
<1>4. ASSUME NEW y \in T PROVE x <= y
  <2>1. x \in Nat /\ y \in Nat
    OBVIOUS
  <2>2. ~(y < x)
    BY <1>2, <1>3, <2>1
  <2> QED BY <2>1, <2>2
<1> QED BY <1>4

\* Max and Min of a set of WAL positions are in it and bound it.
LEMMA Extremes ==
    ASSUME NEW n \in Nat, NEW T \in SUBSET (1 .. n), T # {}
    PROVE  /\ Max(T) \in T /\ \A y \in T : y <= Max(T)
           /\ Min(T) \in T /\ \A y \in T : Min(T) <= y
<1>1. \E x \in T : \A y \in T : x <= y
  BY LeastExists
<1>2. \E x \in T : \A y \in T : y <= x
  <2> DEFINE U == {n - x : x \in T}
  <2>0. \A x \in T : n - x \in Nat
    OBVIOUS
  <2>1. U \subseteq Nat
    BY <2>0
  <2>2. U # {}
    OBVIOUS
  <2>3. PICK u \in U : \A v \in U : u <= v
    BY <2>1, <2>2, LeastExists
  <2>4. PICK x \in T : u = n - x
    BY <2>3
  <2>5. ASSUME NEW y \in T PROVE y <= x
    <3>1. n - x <= n - y
      BY <2>3, <2>4
    <3> QED BY <3>1
  <2> QED BY <2>5
<1>3. Max(T) \in T /\ \A y \in T : y <= Max(T)
  BY <1>2 DEF Max
<1>4. Min(T) \in T /\ \A y \in T : Min(T) <= y
  BY <1>1 DEF Min
<1> QED BY <1>3, <1>4

\* A map with one more or one changed entry.
LEMMA PutFacts ==
    ASSUME NEW f, NEW k, NEW v, NEW g, g = Put(f, k, v)
    PROVE  /\ DOMAIN g = DOMAIN f \cup {k}
           /\ g[k] = v
           /\ \A x \in DOMAIN f : x # k => g[x] = f[x]
  BY DEF Put

\* The WAL holds typed records at typed positions.
LEMMA WalTypes ==
    ASSUME TypeOK
    PROVE  /\ DOMAIN wal \subseteq 1 .. MaxSeq
           /\ \A i \in DOMAIN wal : wal[i] \in WalRecord
  BY DEF TypeOK

\* A record with a key has a binding key and an idempotency record.
LEMMA RecordFacts ==
    ASSUME NEW r \in WalRecord
    PROVE  /\ r.tx \in Txs /\ r.state \in States
           /\ r.fingerprint \in Changes \cup Txs \cup {None}
           /\ SnapshotOf(r) \in TxSnapshot
           /\ r.key # None => BindingKey(r) \in BindingKeys
           /\ Bindable(r) => IdemOf(r) \in IdempotencyRecord
<1>1. /\ r.tx \in Txs /\ r.state \in States /\ r.key \in Keys \cup {None}
      /\ r.fingerprint \in Changes \cup Txs \cup {None}
      /\ r.agent \in Agents /\ r.digest \in Digests /\ r.base \in Bases
  BY DEF WalRecord
<1>2. SnapshotOf(r) \in TxSnapshot
  BY <1>1 DEF SnapshotOf, TxSnapshot
<1>3. r.key # None => BindingKey(r) \in BindingKeys
  BY <1>1 DEF BindingKey, BindingKeys, OpForState
<1>4. Bindable(r) => IdemOf(r) \in IdempotencyRecord
  BY <1>1 DEF Bindable, IdemOf, IdempotencyRecord
<1> QED BY <1>1, <1>2, <1>3, <1>4

\* The fields of a call.
LEMMA CallFields ==
    ASSUME TypeOK, call # None
    PROVE  /\ call \in Calls /\ call.step \in Steps /\ call.seq \in 0 .. MaxSeq
           /\ call.rec \in WalRecord /\ call.before \in TxSnapshot \cup {None}
           /\ call.unbinds \in BOOLEAN
  BY DEF TypeOK, Calls

\* A call that goes on keeps everything but its step.
LEMMA GoToFacts ==
    ASSUME TypeOK, call # None, NEW step \in Steps, NEW u \in BOOLEAN,
           call' = [call EXCEPT !.step = step, !.unbinds = u]
    PROVE  /\ call' \in Calls /\ call' # None /\ call'.step = step
           /\ call'.seq = call.seq /\ call'.rec = call.rec
           /\ call'.before = call.before /\ call'.unbinds = u
<1>1. call \in Calls
  BY CallFields
<1>2. call' \in Calls
  BY <1>1 DEF Calls
<1>3. /\ call'.step = step /\ call'.seq = call.seq /\ call'.rec = call.rec
      /\ call'.before = call.before /\ call'.unbinds = u
  BY <1>1 DEF Calls
<1> QED BY <1>2, <1>3, CallAssumption

\* GoTo changes the step only.
LEMMA GoToStep ==
    ASSUME TypeOK, call # None, NEW step \in Steps, GoTo(step)
    PROVE  /\ call' \in Calls /\ call' # None /\ call'.step = step
           /\ call'.seq = call.seq /\ call'.rec = call.rec
           /\ call'.before = call.before /\ call'.unbinds = call.unbinds
<1>1. call \in Calls
  BY CallFields
<1>2. call' \in Calls
  BY <1>1 DEF Calls, GoTo
<1>3. /\ call'.step = step /\ call'.seq = call.seq /\ call'.rec = call.rec
      /\ call'.before = call.before /\ call'.unbinds = call.unbinds
  BY <1>1 DEF Calls, GoTo
<1> QED BY <1>2, <1>3, CallAssumption

\* A call that starts.
LEMMA CallStarted ==
    ASSUME NEW step \in Steps, NEW seq \in 0 .. MaxSeq, NEW rec \in WalRecord,
           NEW before \in TxSnapshot \cup {None},
           call' = [step |-> step, seq |-> seq, rec |-> rec, before |-> before,
                    unbinds |-> FALSE]
    PROVE  /\ call' \in Calls /\ call' # None /\ call'.step = step
           /\ call'.seq = seq /\ call'.rec = rec
           /\ call'.before = before /\ call'.unbinds = FALSE
<1>1. call' \in Calls
  BY DEF Calls
<1> QED BY <1>1, CallAssumption

-----------------------------------------------------------------------------
(* What a request does. *)

\* A proposal introduces a transaction, with a key; every other record is of
\* one that has a snapshot.
Introduces(rec) ==
    \/ /\ rec.state = "Proposed" /\ rec.key # None
       /\ rec.tx \notin issued /\ issued' = issued \cup {rec.tx}
    \/ /\ rec.state # "Proposed"
       /\ rec.tx \in DOMAIN txs /\ issued' = issued

\* A request begins a call with a record: its key, if it has one, is not in the
\* index, and not in the WAL unless that could not be read.
Starts(rec) ==
    /\ Serving /\ call = None /\ rec \in WalRecord
    /\ rec.key # None => /\ Bindable(rec)
                         /\ BindingKey(rec) \notin DOMAIN idem
                         /\ RecordsOf(BindingKey(rec)) = {} \/ BindingKey(rec) \in blind'
    /\ rec.state = "Rejected" => rec.tx \in DOMAIN txs /\ rec.key # None
    /\ issued' \subseteq Txs /\ Introduces(rec)
    /\ blind \subseteq blind' /\ blind' \subseteq BindingKeys
    /\ PersistTransition(rec)

\* A request is answered from the index.
AnswersAgain(k) ==
    /\ Serving /\ call = None /\ k \in DOMAIN idem
    /\ ReplyAgain(k, idem[k], idem[k].fingerprint)
    /\ UNCHANGED <<stores, memory, base, issued, blind, adrift>>

\* A request finds its key in the WAL only.
Repairs(i) ==
    /\ Serving /\ call = None
    /\ i \in DOMAIN wal /\ wal[i].key # None
    /\ BindingKey(wal[i]) \notin DOMAIN idem
    /\ call' = [step |-> "repair_record", seq |-> i, rec |-> wal[i],
                before |-> None, unbinds |-> FALSE]
    /\ UNCHANGED <<stores, up, safeMode, txs, idem, nextSeq, outside, blind, adrift>>

\* A replay is an answer from the index or a repair.
LEMMA ReplayCases ==
    ASSUME TypeOK, Serving, call = None, NEW k, NEW fingerprint, NEW loads,
           Replay(k, fingerprint, loads)
    PROVE  AnswersAgain(k) \/ \E i : Repairs(i)
<1>1. CASE /\ k \in DOMAIN idem
           /\ idem[k].fingerprint = fingerprint
           /\ ReplyAgain(k, idem[k], fingerprint)
           /\ UNCHANGED <<stores, memory, base, issued, history>>
  BY <1>1 DEF AnswersAgain, history
<1>2. CASE /\ k \notin DOMAIN idem
           /\ BoundInWal(k, loads) # {}
           /\ LET i == Max(BoundInWal(k, loads)) IN
              /\ wal[i].fingerprint = fingerprint
              /\ call' = [step |-> "repair_record", seq |-> i, rec |-> wal[i],
                          before |-> None, unbinds |-> FALSE]
           /\ UNCHANGED <<stores, up, safeMode, txs, idem, nextSeq, outside, history>>
  <2>1. BoundInWal(k, loads) \in SUBSET (1 .. MaxSeq) /\ BoundInWal(k, loads) \subseteq RecordsOf(k)
    BY WalTypes DEF BoundInWal, RecordsOf
  <2>2. Max(BoundInWal(k, loads)) \in BoundInWal(k, loads)
    BY <1>2, <2>1, Extremes, MaxSeqAssumption
  <2> DEFINE i == Max(BoundInWal(k, loads))
  <2>3. i \in DOMAIN wal /\ wal[i].key # None /\ BindingKey(wal[i]) = k
    BY <2>1, <2>2 DEF RecordsOf
  <2>4. Repairs(i)
    BY <1>2, <2>3 DEF Repairs, history
  <2> QED BY <2>4
<1> QED BY <1>1, <1>2 DEF Replay

\* What a lookup that finds nothing says of the key.
NotFound(k) ==
    /\ k \notin DOMAIN idem /\ (RecordsOf(k) = {} \/ k \in blind')
    /\ blind \subseteq blind' /\ blind' \subseteq BindingKeys

LEMMA UnboundFacts ==
    ASSUME TypeOK, NEW k \in BindingKeys, NEW loads, Unbound(k, loads)
    PROVE  NotFound(k)
<1>1. blind' = blind \/ blind' = blind \cup {k}
  BY DEF Unbound
<1>2. blind \subseteq blind' /\ blind' \subseteq BindingKeys
  BY <1>1 DEF TypeOK
<1>3. RecordsOf(k) = {} \/ k \in blind'
  BY DEF Unbound
<1> QED BY <1>2, <1>3 DEF Unbound, NotFound

\* A transition begins a call, if its key is unbound.
LEMMA TransitionStarts ==
    ASSUME TypeOK, Serving, call = None,
           NEW agent \in Agents, NEW digest \in Digests, NEW tx \in Txs,
           NEW to \in {"Testing", "Applying", "Probation"},
           NEW key \in Keys \cup {None}, NEW fingerprint \in Changes \cup Txs \cup {None},
           key # None => to = "Applying" /\ fingerprint # None
                         /\ NotFound(<<agent, "tx.apply", key>>),
           key = None => blind' = blind,
           Transition(agent, digest, tx, to, key, fingerprint)
    PROVE  \E rec : Starts(rec)
<1> DEFINE rec == [tx |-> tx, state |-> to, key |-> key, fingerprint |-> fingerprint,
                   agent |-> agent, digest |-> digest, base |-> txs[tx].base]
<1>1. tx \in DOMAIN txs /\ txs[tx].base \in Bases
  BY DEF Transition, TypeOK, TxSnapshot
<1>2. rec \in WalRecord
  BY <1>1 DEF WalRecord, States
<1>3. /\ rec.key = key /\ rec.state = to /\ rec.fingerprint = fingerprint
      /\ rec.tx = tx
  OBVIOUS
<1>4. BindingKey(rec) = <<agent, "tx.apply", key>>
  BY DEF BindingKey, OpForState
<1>5. issued' \subseteq Txs /\ issued' = issued /\ PersistTransition(rec)
  BY DEF Transition, TypeOK
<1> HIDE DEF rec
<1>6. blind \subseteq blind' /\ blind' \subseteq BindingKeys
  BY DEF NotFound, TypeOK
<1>7. Starts(rec)
  BY <1>1, <1>2, <1>3, <1>4, <1>5, <1>6 DEF Starts, Introduces, Bindable, NotFound
<1> QED BY <1>7

\* The three things a request can do.
LEMMA RequestCases ==
    ASSUME TypeOK, Request
    PROVE  \/ \E rec : Starts(rec)
           \/ \E k : AnswersAgain(k)
           \/ \E i : Repairs(i)
<1>1. PICK agent \in Agents, digest \in Digests :
        \/ \E key \in Keys :
             \/ \E change \in Changes : ConfigPropose(agent, digest, key, change)
             \/ \E tx \in Txs : TxApply(agent, digest, tx, key)
        \/ \E tx \in Txs :
             \/ TxTest(agent, digest, tx)
             \/ AdvanceToProbation(agent, digest, tx)
  BY DEF Request
<1>2. ASSUME NEW key \in Keys, NEW change \in Changes,
             ConfigPropose(agent, digest, key, change)
      PROVE  \/ \E rec : Starts(rec)
             \/ \E k : AnswersAgain(k)
             \/ \E i : Repairs(i)
  <2> DEFINE k == <<agent, "config.propose", key>>
  <2>1. Serving /\ call = None /\ k \in BindingKeys
    BY <1>2 DEF ConfigPropose, BindingKeys
  <2>2. ASSUME NEW loads, Replay(k, change, loads)
        PROVE  AnswersAgain(k) \/ \E i : Repairs(i)
    BY <2>1, <2>2, ReplayCases
  <2>3. ASSUME NEW loads, Unbound(k, loads),
               NEW tx \in Txs \ issued, issued' = issued \cup {tx},
               PersistTransition(
                     [tx |-> tx, state |-> "Proposed", key |-> key,
                      fingerprint |-> change, agent |-> agent,
                      digest |-> digest, base |-> base])
        PROVE  \E rec : Starts(rec)
    <3> DEFINE rec == [tx |-> tx, state |-> "Proposed", key |-> key,
                       fingerprint |-> change, agent |-> agent,
                       digest |-> digest, base |-> base]
    <3>1. rec \in WalRecord
      BY DEF WalRecord, States, TypeOK
    <3>2. /\ rec.key = key /\ rec.state = "Proposed" /\ rec.fingerprint = change
          /\ rec.tx = tx
      OBVIOUS
    <3>3. BindingKey(rec) = k
      BY DEF BindingKey, OpForState
    <3>4. key # None /\ change # None
      BY AbsentAssumption
    <3>5. issued' \subseteq Txs
      BY <2>3 DEF TypeOK
    <3>6. PersistTransition(rec)
      BY <2>3
    <3>7. NotFound(BindingKey(rec))
      BY <2>1, <2>3, <3>3, UnboundFacts
    <3> HIDE DEF rec
    <3>8. Starts(rec)
      BY <2>1, <2>3, <3>1, <3>2, <3>4, <3>5, <3>6, <3>7
         DEF Starts, Introduces, Bindable, NotFound
    <3> QED BY <3>8
  <2> QED BY <1>2, <2>2, <2>3 DEF ConfigPropose
<1>3. ASSUME NEW key \in Keys, NEW tx \in Txs, TxApply(agent, digest, tx, key)
      PROVE  \/ \E rec : Starts(rec)
             \/ \E k : AnswersAgain(k)
             \/ \E i : Repairs(i)
  <2> DEFINE k == <<agent, "tx.apply", key>>
  <2>1. Serving /\ call = None /\ k \in BindingKeys
    BY <1>3 DEF TxApply, BindingKeys
  <2>2. key # None /\ tx # None
    BY AbsentAssumption
  <2>3. ASSUME NEW loads, Replay(k, tx, loads)
        PROVE  AnswersAgain(k) \/ \E i : Repairs(i)
    BY <2>1, <2>3, ReplayCases
  <2>4. ASSUME NEW loads, Unbound(k, loads), tx \in DOMAIN txs,
               RefuseMovedBaseApply(agent, digest, tx, key)
        PROVE  \E rec : Starts(rec)
    <3> DEFINE rec == [tx |-> tx, state |-> "Rejected", key |-> key,
                       fingerprint |-> tx, agent |-> agent, digest |-> digest,
                       base |-> txs[tx].base]
    <3>0. txs[tx].base \in Bases
      BY <2>4 DEF TypeOK, TxSnapshot
    <3>1. rec \in WalRecord
      BY <3>0 DEF WalRecord, States
    <3>2. rec.key = key /\ rec.state = "Rejected" /\ rec.fingerprint = tx /\ rec.tx = tx
      OBVIOUS
    <3>3. BindingKey(rec) = k
      BY DEF BindingKey, OpForState
    <3>4. /\ issued' \subseteq Txs /\ issued' = issued
          /\ PersistTransition(rec)
      BY <2>4 DEF RefuseMovedBaseApply, TypeOK
    <3>5. NotFound(BindingKey(rec))
      BY <2>1, <2>4, <3>3, UnboundFacts
    <3> HIDE DEF rec
    <3>6. Starts(rec)
      BY <2>1, <2>2, <2>4, <3>1, <3>2, <3>4, <3>5
         DEF Starts, Introduces, Bindable, NotFound
    <3> QED BY <3>6
  <2>5. ASSUME NEW loads, Unbound(k, loads),
               Transition(agent, digest, tx, "Applying", key, tx)
        PROVE  \E rec : Starts(rec)
    <3>1. NotFound(k)
      BY <2>1, <2>5, UnboundFacts
    <3> QED BY <2>1, <2>2, <2>5, <3>1, TransitionStarts
  <2> QED BY <1>3, <2>3, <2>4, <2>5 DEF TxApply
<1>4. ASSUME NEW tx \in Txs, TxTest(agent, digest, tx)
      PROVE  \E rec : Starts(rec)
  BY <1>4, TransitionStarts DEF TxTest
<1>5. ASSUME NEW tx \in Txs, AdvanceToProbation(agent, digest, tx)
      PROVE  \E rec : Starts(rec)
  BY <1>5, TransitionStarts DEF AdvanceToProbation
<1> QED BY <1>1, <1>2, <1>3, <1>4, <1>5

-----------------------------------------------------------------------------
(* What a step leaves alone. *)

\* Every record but the doomed one stays, and is not doomed by the step; a new
\* record comes after all the others.
Kept ==
    /\ \A i \in DOMAIN wal \ Doomed : i \in DOMAIN wal' \ Doomed' /\ wal'[i] = wal[i]
    /\ \A j \in DOMAIN wal' : \/ j \in DOMAIN wal /\ wal'[j] = wal[j]
                              \/ \A i \in DOMAIN wal : i <= j

\* What is backed stays backed if its index file is left alone.
LEMMA BackedKept ==
    ASSUME Kept, NEW k, NEW e, Backed(k, e),
           k \in DOMAIN idemFiles' <=> k \in DOMAIN idemFiles,
           k \in DOMAIN idemFiles => idemFiles'[k] = idemFiles[k]
    PROVE  Backed(k, e)'
<1>1. CASE k \in DOMAIN idemFiles
  BY <1>1 DEF Backed
<1>2. CASE k \notin DOMAIN idemFiles
  <2>1. PICK i \in DOMAIN wal \ Doomed : FirstOf(i, k) /\ IdemOf(wal[i]) = e
    BY <1>2 DEF Backed
  <2>2. i \in DOMAIN wal' \ Doomed' /\ wal'[i] = wal[i]
    BY <2>1 DEF Kept
  <2>3. IdemOf(wal'[i]) = e /\ wal'[i].key # None /\ BindingKey(wal'[i]) = k
    BY <2>1, <2>2 DEF FirstOf, RecordsOf
  <2>4. RecordsOf(k)' = {j \in DOMAIN wal' : wal'[j].key # None /\ BindingKey(wal'[j]) = k}
    BY DEF RecordsOf, BindingKey
  <2>5. ASSUME NEW j \in RecordsOf(k)' PROVE i <= j
    <3>1. j \in DOMAIN wal' /\ wal'[j].key # None /\ BindingKey(wal'[j]) = k
      BY <2>4
    <3>2. CASE j \in DOMAIN wal /\ wal'[j] = wal[j]
      <4>1. wal[j].key # None /\ BindingKey(wal[j]) = k
        BY <3>1, <3>2
      <4>2. j \in RecordsOf(k)
        BY <3>2, <4>1 DEF RecordsOf
      <4> QED BY <2>1, <4>2 DEF FirstOf
    <3>3. CASE \A n \in DOMAIN wal : n <= j
      BY <2>1, <3>3
    <3> QED BY <3>1, <3>2, <3>3 DEF Kept
  <2>6. FirstOf(i, k)'
    BY <2>2, <2>3, <2>4, <2>5 DEF FirstOf
  <2> QED BY <1>2, <2>2, <2>3, <2>6 DEF Backed
<1> QED BY <1>1, <1>2

\* What is acknowledged stays recorded.
LEMMA AckedKept ==
    ASSUME Kept, NEW r, Acked(r)
    PROVE  Acked(r)'
<1>1. PICK i \in DOMAIN wal \ Doomed : wal[i].tx = r.tx /\ wal[i].state = r.state
  BY DEF Acked
<1>2. i \in DOMAIN wal' \ Doomed' /\ wal'[i] = wal[i]
  BY <1>1 DEF Kept
<1>3. wal'[i].tx = r.tx /\ wal'[i].state = r.state
  BY <1>1, <1>2
<1> QED BY <1>2, <1>3 DEF Acked

\* A step that answers nobody, binds nothing and works on no answered key
\* keeps the parts of the invariant about answers.
LEMMA AnswersKept ==
    ASSUME AckInv, BackInv, ReplyInv, RepliesAgree, Kept,
           UNCHANGED <<idemFiles, replies>>,
           idem' = idem \/ idem' = Empty,
           Serving' => Serving /\ idem' = idem,
           call' # None /\ call'.rec.key # None =>
               \A r \in replies : r.key # None => r.key # BindingKey(call'.rec)
    PROVE  AckInv' /\ BackInv' /\ ReplyInv' /\ RepliesAgree'
<1>1. AckInv'
  BY AckedKept DEF AckInv
<1>2. BackInv'
  <2>1. CASE idem' = idem
    BY <2>1, BackedKept DEF BackInv
  <2>2. CASE idem' = Empty
    BY <2>2 DEF BackInv, Empty
  <2> QED BY <2>1, <2>2
<1>3. ReplyInv'
  <2> SUFFICES ASSUME NEW r \in replies, r.key # None PROVE Bound(r)'
    BY DEF ReplyInv
  <2>1. Bound(r)
    BY DEF ReplyInv
  <2>2. Backed(r.key, EntryOf(r))
    BY <2>1 DEF Bound
  <2>3. Backed(r.key, EntryOf(r))'
    BY <2>2, BackedKept
  <2>4. Serving' => r.key \in DOMAIN idem' /\ idem'[r.key] = EntryOf(r)
    BY <2>1 DEF Bound
  <2> QED BY <2>3, <2>4 DEF Bound, EntryOf
<1>4. RepliesAgree'
  BY DEF RepliesAgree
<1> QED BY <1>1, <1>2, <1>3, <1>4

\* A WAL with the same records, one more or one less is typed.
LEMMA WalTyped ==
    ASSUME TypeOK,
           \/ wal' = wal
           \/ \E seq \in 1 .. MaxSeq, rec \in WalRecord : wal' = Put(wal, seq, rec)
           \/ \E seq : wal' = Without(wal, seq)
    PROVE  \E s \in SUBSET (1 .. MaxSeq) : wal' \in [s -> WalRecord]
<1>0. DOMAIN wal \subseteq 1 .. MaxSeq /\ \A i \in DOMAIN wal : wal[i] \in WalRecord
  BY WalTypes
<1>1. CASE wal' = wal
  BY <1>1 DEF TypeOK
<1>2. ASSUME NEW seq \in 1 .. MaxSeq, NEW rec \in WalRecord, wal' = Put(wal, seq, rec)
      PROVE  \E s \in SUBSET (1 .. MaxSeq) : wal' \in [s -> WalRecord]
  <2>1. wal' \in [DOMAIN wal \cup {seq} -> WalRecord]
    BY <1>0, <1>2 DEF Put
  <2>2. DOMAIN wal \cup {seq} \in SUBSET (1 .. MaxSeq)
    BY <1>0
  <2> QED BY <2>1, <2>2
<1>3. ASSUME NEW seq, wal' = Without(wal, seq)
      PROVE  \E s \in SUBSET (1 .. MaxSeq) : wal' \in [s -> WalRecord]
  <2>1. wal' \in [DOMAIN wal \ {seq} -> WalRecord]
    BY <1>0, <1>3 DEF Without, Restrict
  <2>2. DOMAIN wal \ {seq} \in SUBSET (1 .. MaxSeq)
    BY <1>0
  <2> QED BY <2>1, <2>2
<1> QED BY <1>1, <1>2, <1>3

\* A typed map with one entry more, or one less, is typed.
LEMMA MapTyped ==
    ASSUME NEW f, NEW K, NEW V, DOMAIN f \subseteq K, \A x \in DOMAIN f : f[x] \in V
    PROVE  /\ \A k \in K, v \in V : /\ DOMAIN Put(f, k, v) \subseteq K
                                    /\ \A x \in DOMAIN Put(f, k, v) : Put(f, k, v)[x] \in V
           /\ \A k : /\ DOMAIN Without(f, k) \subseteq K
                     /\ \A x \in DOMAIN Without(f, k) : Without(f, k)[x] \in V
<1>1. ASSUME NEW k \in K, NEW v \in V
      PROVE  /\ DOMAIN Put(f, k, v) \subseteq K
             /\ \A x \in DOMAIN Put(f, k, v) : Put(f, k, v)[x] \in V
  <2>1. DOMAIN Put(f, k, v) = DOMAIN f \cup {k}
    BY PutFacts
  <2>2. ASSUME NEW x \in DOMAIN Put(f, k, v) PROVE Put(f, k, v)[x] \in V
    <3>1. CASE x = k
      BY <3>1 DEF Put
    <3>2. CASE x # k
      BY <2>1, <3>2 DEF Put
    <3> QED BY <3>1, <3>2
  <2> QED BY <2>1, <2>2
<1>2. ASSUME NEW k
      PROVE  /\ DOMAIN Without(f, k) \subseteq K
             /\ \A x \in DOMAIN Without(f, k) : Without(f, k)[x] \in V
  BY DEF Without, Restrict
<1> QED BY <1>1, <1>2

\* A process that died keeps nothing in memory.
LEMMA DieTyped ==
    ASSUME Die
    PROVE  /\ up' \in BOOLEAN /\ safeMode' \in BOOLEAN
           /\ DOMAIN txs' \subseteq Txs /\ \A t \in DOMAIN txs' : txs'[t] \in TxSnapshot
           /\ DOMAIN idem' \subseteq BindingKeys
           /\ \A k \in DOMAIN idem' : idem'[k] \in IdempotencyRecord
           /\ nextSeq' \in 0 .. MaxSeq /\ call' \in Calls \cup {None}
<1>1. /\ DOMAIN Empty = {} /\ txs' = Empty /\ idem' = Empty
      /\ up' = FALSE /\ safeMode' = FALSE /\ call' = None /\ nextSeq' = 0
  BY DEF Die, Empty
<1>2. DOMAIN txs' = {} /\ DOMAIN idem' = {}
  BY <1>1
<1>3. 0 \in 0 .. MaxSeq
  BY MaxSeqAssumption
<1> QED BY <1>1, <1>2, <1>3

\* The WAL loses records or stays: no key is bound twice by that.
LEMMA KeysKept ==
    ASSUME KeyBoundOnce, blind' = blind,
           DOMAIN wal' \subseteq DOMAIN wal, \A i \in DOMAIN wal' : wal'[i] = wal[i]
    PROVE  KeyBoundOnce'
<1> SUFFICES ASSUME NEW i \in DOMAIN wal', NEW j \in DOMAIN wal',
                    wal'[i].key # None, wal'[j].key # None,
                    BindingKey(wal'[i]) = BindingKey(wal'[j]),
                    BindingKey(wal'[i]) \notin blind
             PROVE  i = j
  BY DEF KeyBoundOnce
<1>1. i \in DOMAIN wal /\ j \in DOMAIN wal /\ wal'[i] = wal[i] /\ wal'[j] = wal[j]
  OBVIOUS
<1>2. BindingKey(wal[i]) = BindingKey(wal[j])
  BY <1>1
<1> QED BY <1>1, <1>2 DEF KeyBoundOnce

-----------------------------------------------------------------------------
(* The steps.  For each one, the parts of the invariant it can disturb. *)

\* The beginning of a call, with every outcome of append_transition.
LEMMA StartsInv ==
    ASSUME Inv, NEW rec, Starts(rec)
    PROVE  Inv'
<1> DEFINE seq == nextSeq + 1
<1>0. /\ TypeOK /\ CallInv /\ SeqInv /\ KeyBoundOnce /\ AckInv
      /\ BackInv /\ ReplyInv /\ RepliesAgree
  BY DEF Inv
<1>1. /\ Serving /\ call = None /\ rec \in WalRecord /\ up /\ ~safeMode
      /\ rec.key # None => /\ Bindable(rec)
                           /\ BindingKey(rec) \notin DOMAIN idem
                           /\ RecordsOf(BindingKey(rec)) = {} \/ BindingKey(rec) \in blind'
      /\ rec.state = "Rejected" => rec.tx \in DOMAIN txs /\ rec.key # None
      /\ issued' \subseteq Txs /\ blind \subseteq blind' /\ blind' \subseteq BindingKeys
  BY DEF Starts, Serving
<1>2. /\ nextSeq < MaxSeq
      /\ UNCHANGED <<walReadable, events, eventsOk, idemFiles, base, replies>>
      /\ wal' = wal \/ wal' = Put(wal, seq, rec)
      /\ checkpoint' = checkpoint \/ checkpoint' = seq
      /\ walTemp' = walTemp \/ walTemp' = TRUE
  BY DEF Starts, PersistTransition, AppendInterrupted
<1>3. /\ nextSeq \in Nat /\ seq \in 1 .. MaxSeq /\ seq \in 0 .. MaxSeq
      /\ DOMAIN wal \subseteq 1 .. nextSeq
  BY <1>0, <1>1, <1>2, MaxSeqAssumption DEF TypeOK, SeqInv
<1>4. seq \notin DOMAIN wal
  BY <1>3
<1>5. 1 .. nextSeq \subseteq 1 .. seq /\ seq \in 1 .. seq
  BY <1>3
<1>6. \/ /\ wal' = Put(wal, seq, rec) /\ checkpoint' = seq /\ nextSeq' = seq
         /\ call' = [step |-> "insert", seq |-> seq, rec |-> rec,
                     before |-> IF rec.tx \in DOMAIN txs THEN txs[rec.tx] ELSE None,
                     unbinds |-> FALSE]
         /\ UNCHANGED <<up, safeMode, txs, idem>>
      \/ /\ nextSeq' = seq
         /\ UNCHANGED <<txs, call, up, safeMode, idem>>
      \/ Die
  BY DEF Starts, PersistTransition
<1>15. adrift' \subseteq Txs
  <2>1. adrift' = adrift \/ adrift' = adrift \cup {rec.tx}
    BY DEF Starts, PersistTransition
  <2> QED BY <1>0, <1>1, <2>1, RecordFacts DEF TypeOK
<1>16. \A i \in DOMAIN wal : i <= seq
  BY <1>3
<1> HIDE DEF seq
<1>7. /\ DOMAIN wal' \subseteq DOMAIN wal \cup {seq}
      /\ \A i \in DOMAIN wal : i \in DOMAIN wal' /\ wal'[i] = wal[i]
      /\ seq \in DOMAIN wal' => wal'[seq] = rec
  <2>1. CASE wal' = wal
    BY <1>4, <2>1
  <2>2. CASE wal' = Put(wal, seq, rec)
    <3>1. /\ DOMAIN wal' = DOMAIN wal \cup {seq} /\ wal'[seq] = rec
          /\ \A x \in DOMAIN wal : x # seq => wal'[x] = wal[x]
      BY <2>2 DEF Put
    <3> QED BY <1>4, <3>1
  <2> QED BY <1>2, <2>1, <2>2
<1>8. KeyBoundOnce'
  <2> SUFFICES ASSUME NEW i \in DOMAIN wal', NEW j \in DOMAIN wal',
                      wal'[i].key # None, wal'[j].key # None,
                      BindingKey(wal'[i]) = BindingKey(wal'[j]),
                      BindingKey(wal'[i]) \notin blind'
               PROVE  i = j
    BY DEF KeyBoundOnce
  <2>1. rec.key # None /\ BindingKey(rec) \notin blind' =>
          \A n \in DOMAIN wal : ~(wal[n].key # None /\ BindingKey(wal[n]) = BindingKey(rec))
    BY <1>1 DEF RecordsOf
  <2>2. CASE i \in DOMAIN wal /\ j \in DOMAIN wal
    <3>1. wal'[i] = wal[i] /\ wal'[j] = wal[j]
      BY <1>7, <2>2
    <3>2. BindingKey(wal[i]) = BindingKey(wal[j]) /\ BindingKey(wal[i]) \notin blind
      BY <1>1, <3>1
    <3> QED BY <1>0, <2>2, <3>1, <3>2 DEF KeyBoundOnce
  <2>3. CASE i \in DOMAIN wal /\ j = seq
    <3>1. wal'[i] = wal[i] /\ wal'[j] = rec
      BY <1>7, <2>3
    <3>2. BindingKey(wal[i]) = BindingKey(rec)
      BY <3>1
    <3> QED BY <2>1, <2>3, <3>1, <3>2
  <2>4. CASE i = seq /\ j \in DOMAIN wal
    <3>1. wal'[j] = wal[j] /\ wal'[i] = rec
      BY <1>7, <2>4
    <3>2. BindingKey(wal[j]) = BindingKey(rec)
      BY <3>1
    <3> QED BY <2>1, <2>4, <3>1, <3>2
  <2> QED BY <1>7, <2>2, <2>3, <2>4
<1>9. \A i \in DOMAIN wal' : wal'[i].key # None => Bindable(wal'[i])
  <2> SUFFICES ASSUME NEW i \in DOMAIN wal', wal'[i].key # None PROVE Bindable(wal'[i])
    OBVIOUS
  <2>1. CASE i \in DOMAIN wal
    <3>1. wal'[i] = wal[i]
      BY <1>7, <2>1
    <3>2. Bindable(wal[i])
      BY <1>0, <2>1, <3>1 DEF SeqInv
    <3> QED BY <3>1, <3>2
  <2>2. CASE i = seq
    <3>1. wal'[i] = rec
      BY <1>7, <2>2
    <3> QED BY <1>1, <3>1
  <2> QED BY <1>7, <2>1, <2>2
<1>10. \E s \in SUBSET (1 .. MaxSeq) : wal' \in [s -> WalRecord]
  BY <1>0, <1>1, <1>2, <1>3, WalTyped
<1>11. /\ checkpoint' \in 0 .. MaxSeq /\ walTemp' \in BOOLEAN
  BY <1>0, <1>2, <1>3 DEF TypeOK
<1>12. CASE /\ wal' = Put(wal, seq, rec) /\ nextSeq' = seq
            /\ call' = [step |-> "insert", seq |-> seq, rec |-> rec,
                        before |-> IF rec.tx \in DOMAIN txs THEN txs[rec.tx] ELSE None,
                        unbinds |-> FALSE]
            /\ UNCHANGED <<up, safeMode, txs, idem>>
  <2> DEFINE before == IF rec.tx \in DOMAIN txs THEN txs[rec.tx] ELSE None
  <2>1. before \in TxSnapshot \cup {None}
    BY <1>0 DEF TypeOK
  <2>2. rec.tx \in DOMAIN txs => before # None
    BY <1>0, CallAssumption DEF TypeOK
  <2> HIDE DEF before
  <2>3. "insert" \in Steps
    BY DEF Steps
  <2>4. /\ call' \in Calls /\ call' # None /\ call'.step = "insert"
        /\ call'.seq = seq /\ call'.rec = rec
        /\ call'.before = before /\ call'.unbinds = FALSE
    BY <1>1, <1>3, <1>12, <2>1, <2>3, CallStarted DEF before
  <2>6. TypeOK'
    BY <1>0, <1>1, <1>2, <1>3, <1>10, <1>11, <1>12, <1>15, <2>4 DEF TypeOK
  <2>7. seq \in DOMAIN wal' /\ wal'[seq] = rec
    <3>1. DOMAIN wal' = DOMAIN wal \cup {seq} /\ wal'[seq] = rec
      BY <1>12 DEF Put
    <3> QED BY <3>1
  <2>8. CallInv'
    BY <1>1, <1>3, <1>12, <2>2, <2>4, <2>7 DEF CallInv, Undoing, Repairing
  <2>9. SeqInv'
    BY <1>1, <1>3, <1>5, <1>7, <1>9, <1>12 DEF SeqInv, Serving
  <2>10. Kept
    BY <1>4, <1>7, <1>16, <2>4 DEF Kept, Doomed
  <2>11. AckInv' /\ BackInv' /\ ReplyInv' /\ RepliesAgree'
    <3>1. Serving' => Serving /\ idem' = idem
      BY <1>12 DEF Serving
    <3>2. call' # None /\ call'.rec.key # None =>
             \A r \in replies : r.key # None => r.key # BindingKey(call'.rec)
      BY <1>0, <1>1, <2>4 DEF ReplyInv, Bound
    <3> QED BY <1>0, <1>2, <1>12, <2>10, <3>1, <3>2, AnswersKept
  <2> QED BY <1>8, <2>6, <2>8, <2>9, <2>11 DEF Inv
<1>13. CASE /\ nextSeq' = seq
            /\ UNCHANGED <<txs, call, up, safeMode, idem>>
  <2>1. TypeOK'
    BY <1>0, <1>1, <1>2, <1>3, <1>10, <1>11, <1>13, <1>15 DEF TypeOK
  <2>2. CallInv'
    BY <1>1, <1>13 DEF CallInv
  <2>3. SeqInv'
    BY <1>1, <1>3, <1>5, <1>7, <1>9, <1>13 DEF SeqInv, Serving
  <2>4. Kept
    BY <1>1, <1>7, <1>13, <1>16 DEF Kept, Doomed
  <2>5. AckInv' /\ BackInv' /\ ReplyInv' /\ RepliesAgree'
    <3>1. Serving' => Serving /\ idem' = idem
      BY <1>13 DEF Serving
    <3> QED BY <1>0, <1>1, <1>2, <1>13, <2>4, <3>1, AnswersKept
  <2> QED BY <1>8, <2>1, <2>2, <2>3, <2>5 DEF Inv
<1>14. CASE Die
  <2>1. TypeOK'
    BY <1>0, <1>1, <1>2, <1>10, <1>11, <1>14, <1>15, DieTyped DEF TypeOK
  <2>2. CallInv' /\ SeqInv'
    BY <1>9, <1>14 DEF CallInv, SeqInv, Die, Serving
  <2>3. Kept
    BY <1>1, <1>7, <1>14, <1>16 DEF Kept, Doomed, Die
  <2>4. AckInv' /\ BackInv' /\ ReplyInv' /\ RepliesAgree'
    <3>1. ~Serving' /\ idem' = Empty /\ call' = None
      BY <1>14 DEF Die, Serving
    <3> QED BY <1>0, <1>2, <2>3, <3>1, AnswersKept
  <2> QED BY <1>8, <2>1, <2>2, <2>4 DEF Inv
<1> QED BY <1>6, <1>12, <1>13, <1>14

\* One more answer: it must be recorded, bound and agree with earlier ones.
LEMMA ReplyAdded ==
    ASSUME NEW x, replies' = replies \cup {x}, RepliesAgree,
           \A r \in replies : r.fresh => Acked(r)',
           x.fresh => Acked(x)',
           \A r \in replies : r.key # None => Bound(r)',
           x.key # None => Bound(x)',
           \A r \in replies : r.key # None /\ r.key = x.key => EntryOf(r) = EntryOf(x)
    PROVE  AckInv' /\ ReplyInv' /\ RepliesAgree'
<1>1. AckInv' /\ ReplyInv'
  BY DEF AckInv, ReplyInv
<1>2. RepliesAgree'
  <2> SUFFICES ASSUME NEW r \in replies', NEW s \in replies',
                      r.key # None, r.key = s.key
               PROVE  <<r.tx, r.state, r.fingerprint>> = <<s.tx, s.state, s.fingerprint>>
    BY DEF RepliesAgree
  <2>1. \A a, b : EntryOf(a) = EntryOf(b) =>
            a.tx = b.tx /\ a.state = b.state /\ a.fingerprint = b.fingerprint
    BY DEF EntryOf
  <2>2. CASE r \in replies /\ s \in replies
    BY <2>2 DEF RepliesAgree
  <2>3. CASE r = x /\ s = x
    BY <2>3
  <2>4. CASE r \in replies /\ s = x
    BY <2>1, <2>4
  <2>5. CASE r = x /\ s \in replies
    BY <2>1, <2>5
  <2> QED BY <2>2, <2>3, <2>4, <2>5
<1> QED BY <1>1, <1>2

\* The stores and the process stay as they are.
LEMMA SameState ==
    ASSUME TypeOK, CallInv, SeqInv, KeyBoundOnce,
           UNCHANGED <<wal, idemFiles, up, safeMode, txs, idem, nextSeq, call, blind>>
    PROVE  CallInv' /\ SeqInv' /\ KeyBoundOnce' /\ Kept
<1>1. CallInv'
  BY DEF CallInv
<1>2. SeqInv'
  BY DEF SeqInv, Serving
<1>3. KeyBoundOnce'
  BY DEF KeyBoundOnce
<1>4. Kept
  BY DEF Kept, Doomed
<1> QED BY <1>1, <1>2, <1>3, <1>4

\* An answer from the index is the answer given before.
LEMMA AnswersAgainInv == ASSUME Inv, NEW k, AnswersAgain(k) PROVE Inv'
<1>0. /\ TypeOK /\ CallInv /\ SeqInv /\ KeyBoundOnce /\ AckInv
      /\ BackInv /\ ReplyInv /\ RepliesAgree
  BY DEF Inv
<1>1. /\ Serving /\ call = None /\ k \in DOMAIN idem
      /\ UNCHANGED <<stores, memory, base, issued, blind, adrift>>
  BY DEF AnswersAgain
<1>2. k \in BindingKeys /\ idem[k] \in IdempotencyRecord
  BY <1>0, <1>1 DEF TypeOK
<1>3. PICK x \in Replies : /\ replies' = replies \cup {x} /\ EntryOf(x) = idem[k]
                           /\ x.key = k /\ x.fresh = FALSE
  <2> DEFINE y == [key |-> k, tx |-> idem[k].tx, state |-> idem[k].state,
                   fingerprint |-> idem[k].fingerprint, fresh |-> FALSE]
  <2>1. y \in Replies
    BY <1>2 DEF Replies, IdempotencyRecord, States
  <2>2. EntryOf(y) = idem[k] /\ y.key = k /\ y.fresh = FALSE
    BY <1>2 DEF EntryOf, IdempotencyRecord
  <2>3. replies' = replies \cup {y}
    BY DEF AnswersAgain, ReplyAgain, Reply
  <2> QED BY <2>1, <2>2, <2>3
<1>4. TypeOK'
  BY <1>0, <1>1, <1>3 DEF TypeOK, stores, memory
<1>5. CallInv' /\ SeqInv' /\ KeyBoundOnce' /\ Kept
  BY <1>0, <1>1, SameState DEF stores, memory
<1>7. \A r \in replies : r.fresh => Acked(r)'
  BY <1>0, <1>5, AckedKept DEF AckInv
<1>8. ASSUME NEW e, NEW j, Backed(j, e) PROVE Backed(j, e)'
  BY <1>1, <1>5, <1>8, BackedKept DEF stores
<1>9. BackInv'
  BY <1>0, <1>1, <1>8 DEF BackInv, memory
<1>10. ASSUME NEW r \in replies, r.key # None PROVE Bound(r)'
  <2>1. Bound(r)
    BY <1>0, <1>10 DEF ReplyInv
  <2>2. Backed(r.key, EntryOf(r))'
    BY <1>8, <2>1 DEF Bound
  <2> QED BY <1>1, <2>1, <2>2 DEF Bound, memory, Serving, EntryOf
<1>11. Bound(x)'
  <2>1. Backed(k, EntryOf(x))
    BY <1>0, <1>1, <1>3 DEF BackInv
  <2>2. Backed(k, EntryOf(x))'
    BY <1>8, <2>1
  <2>3. call' = None /\ k \in DOMAIN idem' /\ idem'[k] = EntryOf(x)
    BY <1>1, <1>3 DEF memory
  <2> QED BY <1>3, <2>2, <2>3 DEF Bound
<1>12. ASSUME NEW r \in replies, r.key # None, r.key = x.key
       PROVE  EntryOf(r) = EntryOf(x)
  BY <1>0, <1>1, <1>3, <1>12 DEF ReplyInv, Bound
<1>13. AckInv' /\ ReplyInv' /\ RepliesAgree'
  BY <1>0, <1>3, <1>7, <1>10, <1>11, <1>12, ReplyAdded
<1> QED BY <1>4, <1>5, <1>9, <1>13 DEF Inv

\* A repair begins with the record it found.
LEMMA RepairsInv == ASSUME Inv, NEW i, Repairs(i) PROVE Inv'
<1>0. /\ TypeOK /\ CallInv /\ SeqInv /\ KeyBoundOnce /\ AckInv
      /\ BackInv /\ ReplyInv /\ RepliesAgree
  BY DEF Inv
<1>1. /\ Serving /\ call = None /\ i \in DOMAIN wal /\ wal[i].key # None
      /\ BindingKey(wal[i]) \notin DOMAIN idem
      /\ call' = [step |-> "repair_record", seq |-> i, rec |-> wal[i],
                  before |-> None, unbinds |-> FALSE]
      /\ UNCHANGED <<wal, walTemp, walReadable, checkpoint, events, eventsOk, idemFiles,
                     up, safeMode, txs, idem, nextSeq, base, issued, replies, blind, adrift>>
  BY DEF Repairs, stores, outside
<1>2. i \in 0 .. MaxSeq /\ wal[i] \in WalRecord
  BY <1>0, <1>1, WalTypes
<1>3. /\ call' \in Calls /\ call' # None /\ call'.step = "repair_record"
      /\ call'.seq = i /\ call'.rec = wal[i]
      /\ call'.before = None /\ call'.unbinds = FALSE
  BY <1>1, <1>2, CallStarted DEF Steps
<1>4. TypeOK'
  BY <1>0, <1>1, <1>3 DEF TypeOK
<1>5. CallInv'
  BY <1>0, <1>1, <1>3 DEF CallInv, SeqInv, Undoing, Repairing, Serving
<1>6. SeqInv'
  BY <1>0, <1>1 DEF SeqInv, Serving
<1>7. KeyBoundOnce'
  BY <1>0, <1>1 DEF KeyBoundOnce
<1>8. Kept
  BY <1>1, <1>3 DEF Kept, Doomed, Repairing
<1>9. AckInv' /\ BackInv' /\ ReplyInv' /\ RepliesAgree'
  <2>1. Serving' => Serving /\ idem' = idem
    BY <1>1
  <2>2. \A r \in replies : r.key # None => r.key # BindingKey(call'.rec)
    BY <1>0, <1>1, <1>3 DEF ReplyInv, Bound
  <2> QED BY <1>0, <1>1, <1>8, <2>1, <2>2, AnswersKept
<1> QED BY <1>4, <1>5, <1>6, <1>7, <1>9 DEF Inv

\* The host's base moves, a record is damaged, or nothing happens.
LEMMA OutsideInv ==
    ASSUME Inv, BaseMoves \/ WalDamaged \/ UNCHANGED vars
    PROVE  Inv'
<1>0. /\ TypeOK /\ CallInv /\ SeqInv /\ KeyBoundOnce /\ AckInv
      /\ BackInv /\ ReplyInv /\ RepliesAgree
  BY DEF Inv
<1>1. /\ UNCHANGED <<wal, walTemp, checkpoint, events, eventsOk, idemFiles,
                     up, safeMode, txs, idem, nextSeq, call, issued, replies, blind, adrift>>
      /\ walReadable' = walReadable \/ walReadable' = FALSE
      /\ base' \in Bases
  BY <1>0 DEF BaseMoves, WalDamaged, vars, stores, memory, outside, history, TypeOK
<1>2. TypeOK'
  BY <1>0, <1>1 DEF TypeOK
<1>3. CallInv' /\ SeqInv' /\ KeyBoundOnce' /\ Kept
  BY <1>0, <1>1, SameState
<1>4. AckInv' /\ BackInv' /\ ReplyInv' /\ RepliesAgree'
  <2>1. Serving' => Serving /\ idem' = idem
    BY <1>1 DEF Serving
  <2>2. call' # None /\ call'.rec.key # None =>
           \A r \in replies : r.key # None => r.key # BindingKey(call'.rec)
    BY <1>0, <1>1 DEF ReplyInv, Bound
  <2> QED BY <1>0, <1>1, <1>3, <2>1, <2>2, AnswersKept
<1> QED BY <1>2, <1>3, <1>4 DEF Inv

\* A crash, between two writes or within one.
LEMMA CrashInv == ASSUME Inv, Crash PROVE Inv'
<1>0. /\ TypeOK /\ CallInv /\ SeqInv /\ KeyBoundOnce /\ AckInv
      /\ BackInv /\ ReplyInv /\ RepliesAgree
  BY DEF Inv
<1>1. /\ Die /\ UNCHANGED <<walTemp, walReadable, checkpoint, idemFiles,
                            base, issued, replies, blind, adrift>>
      /\ \/ wal' = wal
         \/ At("revert") /\ wal' = Without(wal, call.seq)
  BY DEF Crash, stores, outside, history
<1>2. events' \in Seq([tx : Txs, state : States]) /\ eventsOk' \in BOOLEAN
  <2>1. CASE At("event") \/ At("refusal_event") \/ At("repair_event")
    <3>1. StateEvent \in [tx : Txs, state : States]
      BY <1>0, <2>1, CallFields, RecordFacts DEF StateEvent, At
    <3>2. \/ events' = events \/ events' = Append(events, StateEvent)
      BY DEF Crash, AppendFails, stores
    <3>3. eventsOk' = eventsOk \/ eventsOk' = FALSE
      BY DEF Crash, AppendFails, stores
    <3>4. events \in Seq([tx : Txs, state : States]) /\ eventsOk \in BOOLEAN
      BY <1>0 DEF TypeOK
    <3>5. Append(events, StateEvent) \in Seq([tx : Txs, state : States])
      BY <3>1, <3>4
    <3>6. events' \in Seq([tx : Txs, state : States])
      BY <3>2, <3>4, <3>5
    <3> QED BY <3>3, <3>4, <3>6
  <2>2. CASE ~(At("event") \/ At("refusal_event") \/ At("repair_event"))
    BY <1>0, <2>2 DEF Crash, TypeOK, stores
  <2> QED BY <2>1, <2>2
<1>3. /\ DOMAIN wal' \subseteq DOMAIN wal
      /\ \A i \in DOMAIN wal' : wal'[i] = wal[i]
      /\ \A i \in DOMAIN wal \ Doomed : i \in DOMAIN wal'
  <2>1. CASE wal' = wal
    BY <2>1
  <2>2. CASE At("revert") /\ wal' = Without(wal, call.seq)
    <3>1. /\ DOMAIN wal' = DOMAIN wal \ {call.seq}
          /\ \A i \in DOMAIN wal' : wal'[i] = wal[i]
      BY <2>2 DEF Without, Restrict
    <3>2. Doomed = {call.seq}
      BY <2>2 DEF Doomed, At, Repairing
    <3> QED BY <3>1, <3>2
  <2> QED BY <1>1, <2>1, <2>2
<1>4. \E s \in SUBSET (1 .. MaxSeq) : wal' \in [s -> WalRecord]
  BY <1>0, <1>1, WalTyped
<1>5. TypeOK'
  BY <1>0, <1>1, <1>2, <1>4, DieTyped DEF TypeOK
<1>6. up' = FALSE /\ safeMode' = FALSE /\ idem' = Empty /\ call' = None
  BY <1>1 DEF Die
<1>7. CallInv'
  BY <1>6 DEF CallInv
<1>8. SeqInv'
  BY <1>0, <1>3, <1>6 DEF SeqInv, Serving, Bindable
<1>9. KeyBoundOnce'
  BY <1>0, <1>1, <1>3, KeysKept
<1>10. Kept
  BY <1>3, <1>6 DEF Kept, Doomed
<1>11. AckInv' /\ BackInv' /\ ReplyInv' /\ RepliesAgree'
  <2>1. ~Serving'
    BY <1>6 DEF Serving
  <2> QED BY <1>0, <1>1, <1>6, <1>10, <2>1, AnswersKept
<1> QED BY <1>5, <1>7, <1>8, <1>9, <1>11 DEF Inv

\* A step of a call that changes at most the binding of its own key leaves
\* every answer recorded and bound.
LEMMA BindingStep ==
    ASSUME AckInv, BackInv, ReplyInv, Kept, call # None, NEW k,
           call.rec.key # None => k = BindingKey(call.rec),
           \A j : j # k => /\ j \in DOMAIN idemFiles' <=> j \in DOMAIN idemFiles
                           /\ j \in DOMAIN idemFiles => idemFiles'[j] = idemFiles[j]
                           /\ j \in DOMAIN idem' <=> j \in DOMAIN idem
                           /\ j \in DOMAIN idem => idem'[j] = idem[j],
           \/ call.rec.key # None
           \/ /\ k \in DOMAIN idemFiles' <=> k \in DOMAIN idemFiles
              /\ k \in DOMAIN idemFiles => idemFiles'[k] = idemFiles[k]
              /\ k \in DOMAIN idem' <=> k \in DOMAIN idem
              /\ k \in DOMAIN idem => idem'[k] = idem[k],
           (k \in DOMAIN idem => Backed(k, idem[k]))',
           Serving' => Serving,
           call' # None => call'.rec = call.rec
    PROVE  /\ \A r \in replies : r.fresh => Acked(r)'
           /\ BackInv'
           /\ \A r \in replies : r.key # None => Bound(r)'
<1>1. \A r \in replies : r.fresh => Acked(r)'
  BY AckedKept DEF AckInv
<1>2. ASSUME NEW j, NEW e, Backed(j, e), j # k PROVE Backed(j, e)'
  BY <1>2, BackedKept
<1>3. BackInv'
  <2> SUFFICES ASSUME NEW j \in DOMAIN idem' PROVE Backed(j, idem[j])'
    BY DEF BackInv
  <2>1. CASE j = k
    BY <2>1
  <2>2. CASE j # k
    <3>1. PICK e : e = idem[j]
      OBVIOUS
    <3>2. j \in DOMAIN idem /\ idem'[j] = e
      BY <2>2, <3>1
    <3>3. Backed(j, e)
      BY <3>1, <3>2 DEF BackInv
    <3>4. Backed(j, e)'
      BY <1>2, <2>2, <3>3
    <3> QED BY <3>2, <3>4
  <2> QED BY <2>1, <2>2
<1>4. ASSUME NEW r \in replies, r.key # None PROVE Bound(r)'
  <2>1. Bound(r)
    BY <1>4 DEF ReplyInv
  <2>2. Backed(r.key, EntryOf(r))
    BY <2>1 DEF Bound
  <2>3. call.rec.key # None => r.key # k
    BY <2>1 DEF Bound
  <2>4. Backed(r.key, EntryOf(r))'
    BY <1>2, <2>2, <2>3, BackedKept
  <2>5. Serving' => r.key \in DOMAIN idem' /\ idem'[r.key] = EntryOf(r)
    BY <2>1, <2>3 DEF Bound
  <2>6. call' # None /\ call'.rec.key # None => r.key # BindingKey(call'.rec)
    BY <2>1 DEF Bound
  <2> QED BY <2>4, <2>5, <2>6 DEF Bound, EntryOf
<1> QED BY <1>1, <1>3, <1>4

\* Nobody is answered.
LEMMA NoReply ==
    ASSUME RepliesAgree, replies' = replies,
           \A r \in replies : r.fresh => Acked(r)',
           \A r \in replies : r.key # None => Bound(r)'
    PROVE  AckInv' /\ ReplyInv' /\ RepliesAgree'
<1>1. AckInv' /\ ReplyInv'
  BY DEF AckInv, ReplyInv
<1>2. RepliesAgree'
  BY DEF RepliesAgree
<1> QED BY <1>1, <1>2

\* The key under which a record is answered.
KeyOf(r) == IF r.key = None THEN None ELSE BindingKey(r)

\* The answer made of a record.
LEMMA ReplyMade ==
    ASSUME NEW rec \in WalRecord, NEW fresh \in BOOLEAN,
           replies' = replies \cup {[key |-> KeyOf(rec), tx |-> rec.tx, state |-> rec.state,
                                     fingerprint |-> rec.fingerprint, fresh |-> fresh]}
    PROVE  \E x \in Replies : /\ replies' = replies \cup {x} /\ EntryOf(x) = IdemOf(rec)
                              /\ x.key = KeyOf(rec) /\ x.tx = rec.tx /\ x.state = rec.state
<1> DEFINE x == [key |-> KeyOf(rec), tx |-> rec.tx, state |-> rec.state,
                 fingerprint |-> rec.fingerprint, fresh |-> fresh]
<1>1. x \in Replies
  BY RecordFacts DEF Replies, KeyOf
<1>2. /\ EntryOf(x) = IdemOf(rec) /\ x.key = KeyOf(rec)
      /\ x.tx = rec.tx /\ x.state = rec.state
  BY DEF EntryOf, IdemOf
<1> QED BY <1>1, <1>2

\* The call returns with an answer made of its record, which is bound.
LEMMA Answered ==
    ASSUME ReplyInv, RepliesAgree, call # None, call' = None, wal' = wal,
           call.seq \in DOMAIN wal, wal[call.seq] = call.rec,
           NEW rec, rec = call.rec, NEW x, replies' = replies \cup {x},
           EntryOf(x) = IdemOf(rec), x.tx = rec.tx, x.state = rec.state,
           x.key = KeyOf(rec),
           \A r \in replies : r.fresh => Acked(r)',
           \A r \in replies : r.key # None => Bound(r)',
           rec.key # None =>
               /\ BindingKey(rec) \in DOMAIN idemFiles'
               /\ idemFiles'[BindingKey(rec)] = IdemOf(rec)
               /\ BindingKey(rec) \in DOMAIN idem'
               /\ idem'[BindingKey(rec)] = IdemOf(rec)
    PROVE  AckInv' /\ ReplyInv' /\ RepliesAgree'
<1>1. Acked(x)'
  <2>1. PICK i : i = call.seq
    OBVIOUS
  <2>2. i \in DOMAIN wal' \ Doomed' /\ wal'[i].tx = x.tx /\ wal'[i].state = x.state
    BY <2>1 DEF Doomed
  <2> QED BY <2>2 DEF Acked
<1>2. ASSUME x.key # None PROVE Bound(x)'
  <2>1. rec.key # None /\ x.key = BindingKey(rec)
    BY <1>2 DEF KeyOf
  <2>2. Backed(x.key, EntryOf(x))'
    BY <2>1 DEF Backed
  <2> QED BY <2>1, <2>2 DEF Bound
<1>3. ASSUME NEW r \in replies, r.key # None, r.key = x.key
      PROVE  EntryOf(r) = EntryOf(x)
  <2>1. rec.key # None /\ x.key = BindingKey(rec)
    BY <1>3 DEF KeyOf
  <2> QED BY <1>3, <2>1 DEF ReplyInv, Bound
<1> QED BY <1>1, <1>2, <1>3, ReplyAdded

\* insert, whether it succeeds or not, touches the binding of the call's key.
LEMMA InsertStep ==
    ASSUME Inv, call # None,
           call.step \in {"record", "refusal_record", "repair_record"},
           InsertOk \/ InsertFails, Kept, UNCHANGED <<up, safeMode>>,
           call' # None => call'.rec = call.rec
    PROVE  /\ DOMAIN idemFiles' \subseteq BindingKeys
           /\ \A j \in DOMAIN idemFiles' : idemFiles'[j] \in IdempotencyRecord
           /\ DOMAIN idem' \subseteq BindingKeys
           /\ \A j \in DOMAIN idem' : idem'[j] \in IdempotencyRecord
           /\ \A r \in replies : r.fresh => Acked(r)'
           /\ BackInv'
           /\ \A r \in replies : r.key # None => Bound(r)'
           /\ InsertFails => idem' = idem
           /\ InsertOk => /\ BindingKey(call.rec) \in DOMAIN idemFiles'
                          /\ idemFiles'[BindingKey(call.rec)] = IdemOf(call.rec)
                          /\ BindingKey(call.rec) \in DOMAIN idem'
                          /\ idem'[BindingKey(call.rec)] = IdemOf(call.rec)
<1>0. /\ TypeOK /\ CallInv /\ AckInv /\ BackInv /\ ReplyInv
  BY DEF Inv
<1>1. PICK k : k = BindingKey(call.rec)
  OBVIOUS
<1>2. PICK e : e = IdemOf(call.rec)
  OBVIOUS
<1>3. /\ call.rec.key # None /\ k \notin DOMAIN idem /\ Bindable(call.rec)
  BY <1>0, <1>1 DEF CallInv, Repairing
<1>4. k \in BindingKeys /\ e \in IdempotencyRecord
  BY <1>0, <1>1, <1>2, <1>3, CallFields, RecordFacts
<1>5. /\ idemFiles' = idemFiles \/ idemFiles' = Put(idemFiles, k, e)
      /\ \/ idem' = idem
         \/ idem' = Put(idem, k, e) /\ idemFiles' = Put(idemFiles, k, e)
      /\ InsertFails => idem' = idem
      /\ InsertOk => idem' = Put(idem, k, e) /\ idemFiles' = Put(idemFiles, k, e)
  BY <1>1, <1>2 DEF InsertOk, InsertFails
<1>6. /\ DOMAIN idemFiles \subseteq BindingKeys
      /\ \A j \in DOMAIN idemFiles : idemFiles[j] \in IdempotencyRecord
      /\ DOMAIN idem \subseteq BindingKeys
      /\ \A j \in DOMAIN idem : idem[j] \in IdempotencyRecord
  BY <1>0 DEF TypeOK
<1>7. /\ DOMAIN idemFiles' \subseteq BindingKeys
      /\ \A j \in DOMAIN idemFiles' : idemFiles'[j] \in IdempotencyRecord
  BY <1>4, <1>5, <1>6, MapTyped
<1>8. /\ DOMAIN idem' \subseteq BindingKeys
      /\ \A j \in DOMAIN idem' : idem'[j] \in IdempotencyRecord
  BY <1>4, <1>5, <1>6, MapTyped
<1>9. \A j : j # k => /\ j \in DOMAIN idemFiles' <=> j \in DOMAIN idemFiles
                      /\ j \in DOMAIN idemFiles => idemFiles'[j] = idemFiles[j]
  <2>1. CASE idemFiles' = idemFiles
    BY <2>1
  <2>2. CASE idemFiles' = Put(idemFiles, k, e)
    BY <2>2 DEF Put
  <2> QED BY <1>5, <2>1, <2>2
<1>10. \A j : j # k => /\ j \in DOMAIN idem' <=> j \in DOMAIN idem
                       /\ j \in DOMAIN idem => idem'[j] = idem[j]
  <2>1. CASE idem' = idem
    BY <2>1
  <2>2. CASE idem' = Put(idem, k, e)
    BY <2>2 DEF Put
  <2> QED BY <1>5, <2>1, <2>2
<1>11. idemFiles' = Put(idemFiles, k, e) => k \in DOMAIN idemFiles' /\ idemFiles'[k] = e
  BY DEF Put
<1>12. idem' = Put(idem, k, e) => k \in DOMAIN idem' /\ idem'[k] = e
  BY DEF Put
<1>13. (k \in DOMAIN idem => Backed(k, idem[k]))'
  BY <1>3, <1>5, <1>11, <1>12 DEF Backed
<1>14. Serving' => Serving
  BY DEF Serving
<1>15. /\ \A r \in replies : r.fresh => Acked(r)'
       /\ BackInv'
       /\ \A r \in replies : r.key # None => Bound(r)'
  BY <1>0, <1>1, <1>3, <1>9, <1>10, <1>13, <1>14, BindingStep
<1> QED BY <1>1, <1>2, <1>5, <1>7, <1>8, <1>11, <1>12, <1>15

\* The snapshot is put in place, and the call goes on.
LEMMA InsertSnapshotInv == ASSUME Inv, InsertSnapshot PROVE Inv'
<1>0. /\ TypeOK /\ CallInv /\ SeqInv /\ KeyBoundOnce /\ AckInv
      /\ BackInv /\ ReplyInv /\ RepliesAgree
  BY DEF Inv
<1>1. /\ call # None /\ call.step = "insert" /\ GoTo(AfterInsert(call.rec))
      /\ txs' = Put(txs, call.rec.tx, SnapshotOf(call.rec))
      /\ UNCHANGED <<wal, walTemp, walReadable, checkpoint, events, eventsOk, idemFiles,
                     up, safeMode, idem, nextSeq, base, issued, replies, blind, adrift>>
  BY DEF InsertSnapshot, At, stores, outside, history
<1>2. /\ AfterInsert(call.rec) \in {"record", "event", "refusal_event"}
      /\ AfterInsert(call.rec) = "event" => call.rec.key = None
      /\ AfterInsert(call.rec) = "record" => call.rec.key # None
      /\ AfterInsert(call.rec) = "refusal_event" => call.rec.state = "Rejected"
  BY DEF AfterInsert
<1>3. /\ call' \in Calls /\ call' # None /\ call'.step = AfterInsert(call.rec)
      /\ call'.seq = call.seq /\ call'.rec = call.rec
      /\ call'.before = call.before /\ call'.unbinds = call.unbinds
  BY <1>0, <1>1, <1>2, GoToStep DEF Steps
<1>4. DOMAIN txs' \subseteq Txs /\ \A t \in DOMAIN txs' : txs'[t] \in TxSnapshot
  <2>1. PICK t, v : t = call.rec.tx /\ v = SnapshotOf(call.rec)
    OBVIOUS
  <2>2. t \in Txs /\ v \in TxSnapshot
    BY <1>0, <1>1, <2>1, CallFields, RecordFacts
  <2>3. DOMAIN txs \subseteq Txs /\ \A x \in DOMAIN txs : txs[x] \in TxSnapshot
    BY <1>0 DEF TypeOK
  <2>4. txs' = Put(txs, t, v)
    BY <1>1, <2>1
  <2> QED BY <2>2, <2>3, <2>4, MapTyped
<1>5. TypeOK'
  BY <1>0, <1>1, <1>3, <1>4 DEF TypeOK
<1>6. CallInv'
  BY <1>0, <1>1, <1>2, <1>3 DEF CallInv, Undoing, Repairing
<1>7. SeqInv'
  BY <1>0, <1>1 DEF SeqInv, Serving, CallInv
<1>8. KeyBoundOnce'
  BY <1>0, <1>1 DEF KeyBoundOnce
<1>9. Kept
  BY <1>1, <1>2, <1>3 DEF Kept, Doomed, Repairing
<1>10. AckInv' /\ BackInv' /\ ReplyInv' /\ RepliesAgree'
  <2>1. Serving' => Serving /\ idem' = idem
    BY <1>1 DEF Serving
  <2>2. call' # None /\ call'.rec.key # None =>
           \A r \in replies : r.key # None => r.key # BindingKey(call'.rec)
    BY <1>0, <1>1, <1>3 DEF ReplyInv, Bound
  <2> QED BY <1>0, <1>1, <1>9, <2>1, <2>2, AnswersKept
<1> QED BY <1>5, <1>6, <1>7, <1>8, <1>10 DEF Inv

\* Binding the key of a proposal or an apply.
LEMMA RecordIdempotencyInv == ASSUME Inv, RecordIdempotency PROVE Inv'
<1>0. /\ TypeOK /\ CallInv /\ SeqInv /\ KeyBoundOnce /\ AckInv
      /\ BackInv /\ ReplyInv /\ RepliesAgree
  BY DEF Inv
<1>1. /\ call # None /\ call.step = "record" /\ (InsertOk \/ InsertFails)
      /\ UNCHANGED <<wal, walTemp, walReadable, checkpoint, events, eventsOk,
                     up, safeMode, txs, nextSeq, base, issued, replies, blind, adrift>>
      /\ \/ InsertOk /\ GoTo("event")
         \/ InsertFails /\ Return
         \/ InsertFails /\ GoTo("revert")
  BY DEF RecordIdempotency, At, outside, history
<1>2. /\ call \in Calls
      /\ call' # None =>
           /\ call' \in Calls /\ call'.seq = call.seq /\ call'.rec = call.rec
           /\ call'.before = call.before /\ call'.unbinds = call.unbinds
           /\ (call'.step = "event" /\ InsertOk) \/ call'.step = "revert"
  BY <1>0, <1>1, CallFields, GoToStep DEF Return, Steps
<1>3. Doomed = {call.seq} /\ Kept
  BY <1>1, <1>2 DEF Doomed, Kept, Repairing
<1>4. /\ DOMAIN idemFiles' \subseteq BindingKeys
      /\ \A j \in DOMAIN idemFiles' : idemFiles'[j] \in IdempotencyRecord
      /\ DOMAIN idem' \subseteq BindingKeys
      /\ \A j \in DOMAIN idem' : idem'[j] \in IdempotencyRecord
      /\ \A r \in replies : r.fresh => Acked(r)'
      /\ BackInv'
      /\ \A r \in replies : r.key # None => Bound(r)'
      /\ InsertOk => /\ BindingKey(call.rec) \in DOMAIN idemFiles'
                     /\ BindingKey(call.rec) \in DOMAIN idem'
                     /\ idem'[BindingKey(call.rec)] = IdemOf(call.rec)
  BY <1>1, <1>2, <1>3, InsertStep
<1>5. TypeOK'
  BY <1>0, <1>1, <1>2, <1>4 DEF TypeOK
<1>6. CallInv'
  BY <1>0, <1>1, <1>2, <1>4 DEF CallInv, Undoing, Repairing
<1>7. SeqInv'
  BY <1>0, <1>1 DEF SeqInv, Serving, CallInv
<1>8. KeyBoundOnce'
  BY <1>0, <1>1 DEF KeyBoundOnce
<1>9. AckInv' /\ ReplyInv' /\ RepliesAgree'
  BY <1>0, <1>1, <1>4, NoReply
<1> QED BY <1>4, <1>5, <1>6, <1>7, <1>8, <1>9 DEF Inv

\* Binding the key of a refused apply.
LEMMA RecordRefusalInv == ASSUME Inv, RecordRefusal PROVE Inv'
<1>0. /\ TypeOK /\ CallInv /\ SeqInv /\ KeyBoundOnce /\ AckInv
      /\ BackInv /\ ReplyInv /\ RepliesAgree
  BY DEF Inv
<1>1. /\ call # None /\ call.step = "refusal_record" /\ (InsertOk \/ InsertFails)
      /\ call' = None
      /\ UNCHANGED <<wal, walTemp, walReadable, checkpoint, events, eventsOk,
                     up, safeMode, txs, nextSeq, base, issued, blind, adrift>>
      /\ \/ InsertOk /\ ReplyFresh(call.rec)
         \/ replies' = replies
  BY DEF RecordRefusal, At, Return, history
<1>2. call.rec \in WalRecord /\ call.seq \in DOMAIN wal /\ wal[call.seq] = call.rec
  BY <1>0, <1>1, CallFields DEF CallInv
<1>3. Kept
  BY <1>1 DEF Doomed, Kept
<1>4. /\ DOMAIN idemFiles' \subseteq BindingKeys
      /\ \A j \in DOMAIN idemFiles' : idemFiles'[j] \in IdempotencyRecord
      /\ DOMAIN idem' \subseteq BindingKeys
      /\ \A j \in DOMAIN idem' : idem'[j] \in IdempotencyRecord
      /\ \A r \in replies : r.fresh => Acked(r)'
      /\ BackInv'
      /\ \A r \in replies : r.key # None => Bound(r)'
      /\ InsertOk => /\ BindingKey(call.rec) \in DOMAIN idemFiles'
                     /\ idemFiles'[BindingKey(call.rec)] = IdemOf(call.rec)
                     /\ BindingKey(call.rec) \in DOMAIN idem'
                     /\ idem'[BindingKey(call.rec)] = IdemOf(call.rec)
  BY <1>1, <1>3, InsertStep
<1>5. replies' \subseteq Replies /\ AckInv' /\ ReplyInv' /\ RepliesAgree'
  <2>1. CASE replies' = replies
    BY <1>0, <1>4, <2>1, NoReply DEF TypeOK
  <2>2. CASE InsertOk /\ ReplyFresh(call.rec)
    <3>1. PICK rec \in WalRecord : rec = call.rec
      BY <1>2
    <3>2. PICK x \in Replies :
             /\ replies' = replies \cup {x} /\ EntryOf(x) = IdemOf(rec)
             /\ x.key = KeyOf(rec) /\ x.tx = rec.tx /\ x.state = rec.state
      BY <2>2, <3>1, ReplyMade DEF ReplyFresh, Reply, KeyOf
    <3>3. replies' \subseteq Replies
      BY <1>0, <3>2 DEF TypeOK
    <3>4. /\ BindingKey(rec) \in DOMAIN idemFiles'
          /\ idemFiles'[BindingKey(rec)] = IdemOf(rec)
          /\ BindingKey(rec) \in DOMAIN idem'
          /\ idem'[BindingKey(rec)] = IdemOf(rec)
      BY <1>4, <2>2, <3>1
    <3>5. AckInv' /\ ReplyInv' /\ RepliesAgree'
      BY <1>0, <1>1, <1>2, <1>4, <3>1, <3>2, <3>4, Answered
    <3> QED BY <3>3, <3>5
  <2> QED BY <1>1, <2>1, <2>2
<1>6. TypeOK'
  BY <1>0, <1>1, <1>4, <1>5 DEF TypeOK
<1>7. CallInv' /\ SeqInv'
  BY <1>0, <1>1 DEF CallInv, SeqInv, Serving
<1>8. KeyBoundOnce'
  BY <1>0, <1>1 DEF KeyBoundOnce
<1> QED BY <1>4, <1>5, <1>6, <1>7, <1>8 DEF Inv

\* Binding again the key of a record that only the WAL has.
LEMMA RepairRecordInv == ASSUME Inv, RepairRecord PROVE Inv'
<1>0. /\ TypeOK /\ CallInv /\ SeqInv /\ KeyBoundOnce /\ AckInv
      /\ BackInv /\ ReplyInv /\ RepliesAgree
  BY DEF Inv
<1>1. /\ call # None /\ call.step = "repair_record" /\ (InsertOk \/ InsertFails)
      /\ UNCHANGED <<wal, walTemp, walReadable, checkpoint, events, eventsOk,
                     up, safeMode, txs, nextSeq, base, issued, blind, adrift>>
      /\ \/ InsertOk /\ GoTo("repair_event") /\ replies' = replies
         \/ /\ InsertOk /\ call' = None
            /\ ReplyAgain(BindingKey(call.rec), IdemOf(call.rec), call.rec.fingerprint)
         \/ call' = None /\ replies' = replies
  BY DEF RepairRecord, At, Return, history
<1>2. /\ call.rec \in WalRecord /\ call.seq \in DOMAIN wal /\ wal[call.seq] = call.rec
      /\ call.rec.key # None
  BY <1>0, <1>1, CallFields DEF CallInv, Repairing
<1>3. /\ call \in Calls
      /\ call' # None =>
           /\ call' \in Calls /\ call'.seq = call.seq /\ call'.rec = call.rec
           /\ call'.before = call.before /\ call'.unbinds = call.unbinds
           /\ call'.step = "repair_event" /\ InsertOk /\ replies' = replies
  BY <1>0, <1>1, CallFields, GoToStep DEF ReplyAgain, Steps
<1>4. Kept
  BY <1>1, <1>3 DEF Doomed, Kept, Repairing
<1>5. /\ DOMAIN idemFiles' \subseteq BindingKeys
      /\ \A j \in DOMAIN idemFiles' : idemFiles'[j] \in IdempotencyRecord
      /\ DOMAIN idem' \subseteq BindingKeys
      /\ \A j \in DOMAIN idem' : idem'[j] \in IdempotencyRecord
      /\ \A r \in replies : r.fresh => Acked(r)'
      /\ BackInv'
      /\ \A r \in replies : r.key # None => Bound(r)'
      /\ InsertOk => /\ BindingKey(call.rec) \in DOMAIN idemFiles'
                     /\ idemFiles'[BindingKey(call.rec)] = IdemOf(call.rec)
                     /\ BindingKey(call.rec) \in DOMAIN idem'
                     /\ idem'[BindingKey(call.rec)] = IdemOf(call.rec)
  BY <1>1, <1>3, <1>4, InsertStep
<1>6. replies' \subseteq Replies /\ AckInv' /\ ReplyInv' /\ RepliesAgree'
  <2>1. CASE replies' = replies
    BY <1>0, <1>5, <2>1, NoReply DEF TypeOK
  <2>2. CASE /\ InsertOk /\ call' = None
             /\ ReplyAgain(BindingKey(call.rec), IdemOf(call.rec), call.rec.fingerprint)
    <3>1. PICK rec \in WalRecord : rec = call.rec
      BY <1>2
    <3>2. replies' = replies \cup {[key |-> KeyOf(rec), tx |-> rec.tx, state |-> rec.state,
                                    fingerprint |-> rec.fingerprint, fresh |-> FALSE]}
      BY <1>2, <2>2, <3>1 DEF ReplyAgain, Reply, IdemOf, KeyOf
    <3>3. PICK x \in Replies :
             /\ replies' = replies \cup {x} /\ EntryOf(x) = IdemOf(rec)
             /\ x.key = KeyOf(rec) /\ x.tx = rec.tx /\ x.state = rec.state
      BY <3>2, ReplyMade
    <3>4. replies' \subseteq Replies
      BY <1>0, <3>3 DEF TypeOK
    <3>5. /\ BindingKey(rec) \in DOMAIN idemFiles'
          /\ idemFiles'[BindingKey(rec)] = IdemOf(rec)
          /\ BindingKey(rec) \in DOMAIN idem'
          /\ idem'[BindingKey(rec)] = IdemOf(rec)
      BY <1>5, <2>2, <3>1
    <3>6. AckInv' /\ ReplyInv' /\ RepliesAgree'
      BY <1>0, <1>1, <1>2, <1>5, <2>2, <3>1, <3>3, <3>5, Answered
    <3> QED BY <3>4, <3>6
  <2> QED BY <1>1, <2>1, <2>2
<1>7. TypeOK'
  BY <1>0, <1>1, <1>3, <1>5, <1>6 DEF TypeOK
<1>8. CallInv'
  BY <1>0, <1>1, <1>3, <1>5 DEF CallInv, Undoing, Repairing
<1>9. SeqInv'
  BY <1>0, <1>1 DEF SeqInv, Serving, CallInv
<1>10. KeyBoundOnce'
  BY <1>0, <1>1 DEF KeyBoundOnce
<1> QED BY <1>5, <1>6, <1>7, <1>8, <1>9, <1>10 DEF Inv

\* Publishing the state the call entered, or failing to.
LEMMA AppendStateEventInv == ASSUME Inv, AppendStateEvent PROVE Inv'
<1>0. /\ TypeOK /\ CallInv /\ SeqInv /\ KeyBoundOnce /\ AckInv
      /\ BackInv /\ ReplyInv /\ RepliesAgree
  BY DEF Inv
<1>1. /\ call # None /\ call.step \in {"event", "refusal_event", "repair_event"}
      /\ events' = events \/ events' = Append(events, StateEvent)
      /\ eventsOk' = eventsOk \/ eventsOk' = FALSE
      /\ safeMode' = safeMode \/ safeMode' = TRUE
      /\ UNCHANGED <<wal, walTemp, walReadable, checkpoint, idemFiles,
                     up, txs, idem, nextSeq, base, issued, blind, adrift>>
  BY DEF AppendStateEvent, At, AppendOk, AppendFails, history
<1>2. \/ /\ call.step = "event" /\ call' = None /\ ReplyFresh(call.rec)
      \/ /\ call.step = "repair_event" /\ call' = None
         /\ ReplyAgain(BindingKey(call.rec), IdemOf(call.rec), call.rec.fingerprint)
      \/ /\ call.step = "refusal_event" /\ GoTo("refusal_record") /\ replies' = replies
         /\ safeMode' = safeMode
      \/ /\ call' = None /\ replies' = replies
      \/ /\ call.step # "repair_event" /\ replies' = replies
         /\ call' = [call EXCEPT !.step = "revert",
                        !.unbinds = At("event") /\ call.rec.key # None]
  BY DEF AppendStateEvent, At, Return
<1>3. /\ call.rec \in WalRecord /\ call.seq \in DOMAIN wal /\ wal[call.seq] = call.rec
      /\ up /\ ~safeMode
  BY <1>0, <1>1, CallFields DEF CallInv, Undoing
<1>4. call' # None =>
        /\ call' \in Calls /\ call'.seq = call.seq /\ call'.rec = call.rec
        /\ call'.before = call.before /\ replies' = replies
        /\ call.step # "repair_event"
        /\ \/ /\ call'.step = "refusal_record" /\ call'.unbinds = call.unbinds
              /\ call.step = "refusal_event" /\ safeMode' = safeMode
           \/ /\ call'.step = "revert"
              /\ call'.unbinds => call.rec.key # None
  <2>1. CASE call.step = "refusal_event" /\ GoTo("refusal_record") /\ replies' = replies
             /\ safeMode' = safeMode
    BY <1>0, <1>1, <2>1, GoToStep DEF Steps
  <2>2. CASE /\ call.step # "repair_event" /\ replies' = replies
             /\ call' = [call EXCEPT !.step = "revert",
                            !.unbinds = At("event") /\ call.rec.key # None]
    <3>1. PICK u \in BOOLEAN : u = (At("event") /\ call.rec.key # None)
      OBVIOUS
    <3>2. /\ call' \in Calls /\ call'.step = "revert"
          /\ call'.seq = call.seq /\ call'.rec = call.rec
          /\ call'.before = call.before /\ call'.unbinds = u
      BY <1>0, <1>1, <2>2, <3>1, GoToFacts DEF Steps
    <3> QED BY <2>2, <3>1, <3>2
  <2> QED BY <1>2, <2>1, <2>2
<1>5. events' \in Seq([tx : Txs, state : States])
  <2>1. StateEvent \in [tx : Txs, state : States]
    BY <1>3, RecordFacts DEF StateEvent
  <2>2. events \in Seq([tx : Txs, state : States])
    BY <1>0 DEF TypeOK
  <2>3. Append(events, StateEvent) \in Seq([tx : Txs, state : States])
    BY <2>1, <2>2
  <2> QED BY <1>1, <2>2, <2>3
<1>6. Kept
  BY <1>1, <1>4 DEF Doomed, Kept, Repairing
<1>7. Serving' => Serving
  BY <1>1, <1>3 DEF Serving
<1>8. /\ \A r \in replies : r.fresh => Acked(r)'
      /\ BackInv'
      /\ \A r \in replies : r.key # None => Bound(r)'
  <2>1. PICK k : k = BindingKey(call.rec)
    OBVIOUS
  <2>2. PICK e : e = idem[k]
    OBVIOUS
  <2>3. k \in DOMAIN idem => Backed(k, e)'
    BY <1>0, <1>1, <1>6, <2>2, BackedKept DEF BackInv
  <2>4. (k \in DOMAIN idem => Backed(k, idem[k]))'
    BY <1>1, <2>2, <2>3
  <2> QED BY <1>0, <1>1, <1>4, <1>6, <1>7, <2>1, <2>4, BindingStep
<1>9. call.step \in {"event", "repair_event"} /\ call.rec.key # None =>
        /\ BindingKey(call.rec) \in DOMAIN idemFiles'
        /\ idemFiles'[BindingKey(call.rec)] = IdemOf(call.rec)
        /\ BindingKey(call.rec) \in DOMAIN idem'
        /\ idem'[BindingKey(call.rec)] = IdemOf(call.rec)
  <2> SUFFICES ASSUME call.step \in {"event", "repair_event"}, call.rec.key # None
               PROVE  /\ BindingKey(call.rec) \in DOMAIN idemFiles
                      /\ idemFiles[BindingKey(call.rec)] = IdemOf(call.rec)
                      /\ BindingKey(call.rec) \in DOMAIN idem
                      /\ idem[BindingKey(call.rec)] = IdemOf(call.rec)
    BY <1>1
  <2>1. /\ BindingKey(call.rec) \in DOMAIN idemFiles
        /\ BindingKey(call.rec) \in DOMAIN idem
        /\ idem[BindingKey(call.rec)] = IdemOf(call.rec)
    BY <1>0, <1>1 DEF CallInv
  <2> QED BY <1>0, <2>1 DEF BackInv, Backed
<1>10. replies' \subseteq Replies /\ AckInv' /\ ReplyInv' /\ RepliesAgree'
  <2>1. CASE replies' = replies
    BY <1>0, <1>8, <2>1, NoReply DEF TypeOK
  <2>2. CASE /\ call.step \in {"event", "repair_event"} /\ call' = None
             /\ \/ ReplyFresh(call.rec)
                \/ /\ call.step = "repair_event"
                   /\ ReplyAgain(BindingKey(call.rec), IdemOf(call.rec), call.rec.fingerprint)
    <3>1. PICK rec \in WalRecord : rec = call.rec
      BY <1>3
    <3>2. call.step = "repair_event" => rec.key # None
      BY <1>0, <1>1, <3>1 DEF CallInv, Repairing
    <3>3. \E fresh \in BOOLEAN :
            replies' = replies \cup {[key |-> KeyOf(rec), tx |-> rec.tx, state |-> rec.state,
                                      fingerprint |-> rec.fingerprint, fresh |-> fresh]}
      BY <2>2, <3>1, <3>2 DEF ReplyAgain, ReplyFresh, Reply, IdemOf, KeyOf
    <3>4. PICK x \in Replies :
             /\ replies' = replies \cup {x} /\ EntryOf(x) = IdemOf(rec)
             /\ x.key = KeyOf(rec) /\ x.tx = rec.tx /\ x.state = rec.state
      BY <3>3, ReplyMade
    <3>5. replies' \subseteq Replies
      BY <1>0, <3>4 DEF TypeOK
    <3>6. rec.key # None =>
            /\ BindingKey(rec) \in DOMAIN idemFiles'
            /\ idemFiles'[BindingKey(rec)] = IdemOf(rec)
            /\ BindingKey(rec) \in DOMAIN idem'
            /\ idem'[BindingKey(rec)] = IdemOf(rec)
      BY <1>9, <2>2, <3>1
    <3>7. AckInv' /\ ReplyInv' /\ RepliesAgree'
      BY <1>0, <1>1, <1>3, <1>8, <2>2, <3>1, <3>4, <3>6, Answered
    <3> QED BY <3>5, <3>7
  <2> QED BY <1>1, <1>2, <2>1, <2>2
<1>11. TypeOK'
  BY <1>0, <1>1, <1>4, <1>5, <1>10 DEF TypeOK
<1>12. CallInv'
  BY <1>0, <1>1, <1>3, <1>4 DEF CallInv, Undoing, Repairing
<1>13. SeqInv'
  BY <1>0, <1>1, <1>3, <1>7 DEF SeqInv
<1>14. KeyBoundOnce'
  BY <1>0, <1>1 DEF KeyBoundOnce
<1> QED BY <1>8, <1>10, <1>11, <1>12, <1>13, <1>14 DEF Inv

\* Taking the record back from the WAL, or failing to.
LEMMA RevertWalInv == ASSUME Inv, RevertWal PROVE Inv'
<1>0. /\ TypeOK /\ CallInv /\ SeqInv /\ KeyBoundOnce /\ AckInv
      /\ BackInv /\ ReplyInv /\ RepliesAgree
  BY DEF Inv
<1>1. /\ call # None /\ call.step = "revert"
      /\ wal' = wal \/ wal' = Without(wal, call.seq)
      /\ checkpoint' = checkpoint \/ checkpoint' = call.seq - 1
      /\ \/ wal' = Without(wal, call.seq) /\ GoTo("unwind")
         \/ call' = None
      /\ UNCHANGED <<walTemp, walReadable, events, eventsOk, idemFiles,
                     up, safeMode, txs, idem, nextSeq, base, issued, replies, blind>>
      /\ adrift' = adrift \/ adrift' = adrift \cup {call.rec.tx}
  BY DEF RevertWal, At, Return, outside
<1>2. /\ up /\ call.seq >= 1 /\ call.seq = nextSeq /\ call.seq \in 0 .. MaxSeq
      /\ call \in Calls
  BY <1>0, <1>1, CallFields DEF CallInv, Repairing
<1>3. call' # None =>
        /\ call' \in Calls /\ call'.step = "unwind"
        /\ call'.seq = call.seq /\ call'.rec = call.rec
        /\ call'.before = call.before /\ call'.unbinds = call.unbinds
        /\ wal' = Without(wal, call.seq)
  BY <1>0, <1>1, GoToStep DEF Steps
<1>4. wal' = Without(wal, call.seq) =>
        /\ DOMAIN wal' = DOMAIN wal \ {call.seq}
        /\ \A i \in DOMAIN wal' : wal'[i] = wal[i]
  BY DEF Without, Restrict
<1>5. /\ DOMAIN wal' \subseteq DOMAIN wal
      /\ \A i \in DOMAIN wal' : wal'[i] = wal[i]
      /\ \A i \in DOMAIN wal : i # call.seq => i \in DOMAIN wal'
  BY <1>1, <1>4
<1>6. \E s \in SUBSET (1 .. MaxSeq) : wal' \in [s -> WalRecord]
  BY <1>0, <1>1, WalTyped
<1>7. checkpoint' \in 0 .. MaxSeq /\ adrift' \subseteq Txs
  BY <1>0, <1>1, <1>2, MaxSeqAssumption, CallFields, RecordFacts DEF TypeOK
<1>8. TypeOK'
  BY <1>0, <1>1, <1>3, <1>6, <1>7 DEF TypeOK
<1>9. CallInv'
  BY <1>0, <1>1, <1>2, <1>3, <1>4 DEF CallInv, Undoing, Repairing
<1>10. SeqInv'
  <2>1. DOMAIN wal \subseteq 1 .. nextSeq
    BY <1>0, <1>1 DEF SeqInv
  <2>2. \A i \in DOMAIN wal' : wal'[i].key # None => Bindable(wal'[i])
    BY <1>0, <1>5 DEF SeqInv, Bindable
  <2> QED BY <1>1, <1>2, <1>5, <2>1, <2>2 DEF SeqInv
<1>11. KeyBoundOnce'
  BY <1>0, <1>1, <1>5, KeysKept
<1>12. Kept
  BY <1>1, <1>3, <1>5 DEF Kept, Doomed, Repairing
<1>13. AckInv' /\ BackInv' /\ ReplyInv' /\ RepliesAgree'
  <2>1. Serving' => Serving /\ idem' = idem
    BY <1>1 DEF Serving
  <2>2. call' # None /\ call'.rec.key # None =>
           \A r \in replies : r.key # None => r.key # BindingKey(call'.rec)
    BY <1>0, <1>1, <1>3 DEF ReplyInv, Bound
  <2> QED BY <1>0, <1>1, <1>12, <2>1, <2>2, AnswersKept
<1> QED BY <1>8, <1>9, <1>10, <1>11, <1>13 DEF Inv

\* Giving back the sequence number and the snapshot.
LEMMA UnwindInv == ASSUME Inv, Unwind PROVE Inv'
<1>0. /\ TypeOK /\ CallInv /\ SeqInv /\ KeyBoundOnce /\ AckInv
      /\ BackInv /\ ReplyInv /\ RepliesAgree
  BY DEF Inv
<1>1. /\ call # None /\ call.step = "unwind" /\ nextSeq' = call.seq - 1
      /\ \/ /\ call.rec.state = "Rejected" /\ txs' = Put(txs, call.rec.tx, call.before)
         \/ txs' = Without(txs, call.rec.tx)
      /\ safeMode' = safeMode \/ safeMode' = TRUE
      /\ (call.unbinds /\ GoTo("unbind")) \/ call' = None
      /\ UNCHANGED <<wal, walTemp, walReadable, checkpoint, events, eventsOk, idemFiles,
                     up, idem, base, issued, replies, blind, adrift>>
  BY DEF Unwind, At, Return, stores, outside, history
<1>2. /\ up /\ call.seq >= 1 /\ call.seq = nextSeq /\ call.seq \in 0 .. MaxSeq
      /\ call \in Calls /\ call.seq \notin DOMAIN wal /\ call.rec \in WalRecord
      /\ call.rec.state = "Rejected" => call.before \in TxSnapshot
  BY <1>0, <1>1, CallFields DEF CallInv, Repairing
<1>3. call' # None =>
        /\ call' \in Calls /\ call'.step = "unbind"
        /\ call'.seq = call.seq /\ call'.rec = call.rec
        /\ call'.before = call.before /\ call'.unbinds = call.unbinds /\ call.unbinds
  BY <1>0, <1>1, GoToStep DEF Steps
<1>4. DOMAIN txs' \subseteq Txs /\ \A t \in DOMAIN txs' : txs'[t] \in TxSnapshot
  <2>1. DOMAIN txs \subseteq Txs /\ \A t \in DOMAIN txs : txs[t] \in TxSnapshot
    BY <1>0 DEF TypeOK
  <2>2. CASE call.rec.state = "Rejected" /\ txs' = Put(txs, call.rec.tx, call.before)
    <3>1. call.rec.tx \in Txs /\ call.before \in TxSnapshot
      BY <1>2, <2>2, RecordFacts
    <3>2. \A t \in DOMAIN txs' : t \in Txs /\ txs'[t] \in TxSnapshot
      BY <2>1, <2>2, <3>1 DEF Put
    <3> QED BY <3>2
  <2>3. CASE txs' = Without(txs, call.rec.tx)
    BY <2>1, <2>3, MapTyped
  <2> QED BY <1>1, <2>2, <2>3
<1>5. nextSeq' \in 0 .. MaxSeq
  BY <1>1, <1>2, MaxSeqAssumption
<1>6. TypeOK'
  BY <1>0, <1>1, <1>3, <1>4, <1>5 DEF TypeOK
<1>7. CallInv'
  BY <1>0, <1>1, <1>2, <1>3 DEF CallInv, Undoing, Repairing
<1>8. SeqInv'
  <2>1. DOMAIN wal \subseteq 1 .. nextSeq
    BY <1>0, <1>1 DEF SeqInv
  <2>2. \A i \in 1 .. nextSeq : i # call.seq => i \in 1 .. (call.seq - 1)
    BY <1>2
  <2>3. DOMAIN wal' \subseteq 1 .. nextSeq'
    BY <1>1, <1>2, <2>1, <2>2
  <2> QED BY <1>0, <1>1, <1>2, <2>3 DEF SeqInv
<1>9. KeyBoundOnce'
  BY <1>0, <1>1 DEF KeyBoundOnce
<1>10. Kept
  BY <1>1, <1>3 DEF Kept, Doomed, Repairing
<1>11. AckInv' /\ BackInv' /\ ReplyInv' /\ RepliesAgree'
  <2>1. Serving' => Serving /\ idem' = idem
    BY <1>0, <1>1 DEF Serving, TypeOK
  <2>2. call' # None /\ call'.rec.key # None =>
           \A r \in replies : r.key # None => r.key # BindingKey(call'.rec)
    BY <1>0, <1>1, <1>3 DEF ReplyInv, Bound
  <2> QED BY <1>0, <1>1, <1>10, <2>1, <2>2, AnswersKept
<1> QED BY <1>6, <1>7, <1>8, <1>9, <1>11 DEF Inv

\* Removing the binding of a call that was rolled back.
LEMMA UnbindInv == ASSUME Inv, Unbind PROVE Inv'
<1>0. /\ TypeOK /\ CallInv /\ SeqInv /\ KeyBoundOnce /\ AckInv
      /\ BackInv /\ ReplyInv /\ RepliesAgree
  BY DEF Inv
<1>1. /\ call # None /\ call.step = "unbind" /\ call' = None
      /\ UNCHANGED <<wal, walTemp, walReadable, checkpoint, events, eventsOk,
                     up, safeMode, txs, nextSeq, base, issued, replies, blind, adrift>>
  BY DEF Unbind, At, Return, outside, history
<1>2. PICK k : k = BindingKey(call.rec)
  OBVIOUS
<1>3. \/ idemFiles' = Without(idemFiles, k) /\ idem' = Without(idem, k)
      \/ idemFiles' = idemFiles /\ idem' = idem
  BY <1>2 DEF Unbind
<1>4. call.rec.key # None
  BY <1>0, <1>1 DEF CallInv
<1>5. Kept
  BY <1>1 DEF Kept, Doomed
<1>6. \A j : j # k => /\ j \in DOMAIN idemFiles' <=> j \in DOMAIN idemFiles
                      /\ j \in DOMAIN idemFiles => idemFiles'[j] = idemFiles[j]
                      /\ j \in DOMAIN idem' <=> j \in DOMAIN idem
                      /\ j \in DOMAIN idem => idem'[j] = idem[j]
  BY <1>3 DEF Without, Restrict
<1>7. (k \in DOMAIN idem => Backed(k, idem[k]))'
  <2>1. CASE idem' = Without(idem, k)
    BY <2>1 DEF Without, Restrict
  <2>2. CASE idemFiles' = idemFiles /\ idem' = idem
    <3>1. PICK e : e = idem[k]
      OBVIOUS
    <3>2. k \in DOMAIN idem => Backed(k, e)'
      BY <1>0, <1>5, <2>2, <3>1, BackedKept DEF BackInv
    <3> QED BY <2>2, <3>1, <3>2
  <2> QED BY <1>3, <2>1, <2>2
<1>8. /\ \A r \in replies : r.fresh => Acked(r)'
      /\ BackInv'
      /\ \A r \in replies : r.key # None => Bound(r)'
  <2>1. Serving' => Serving
    BY <1>1 DEF Serving
  <2> QED BY <1>0, <1>1, <1>2, <1>4, <1>5, <1>6, <1>7, <2>1, BindingStep
<1>9. AckInv' /\ ReplyInv' /\ RepliesAgree'
  BY <1>0, <1>1, <1>8, NoReply
<1>10. /\ DOMAIN idemFiles' \subseteq BindingKeys
       /\ \A j \in DOMAIN idemFiles' : idemFiles'[j] \in IdempotencyRecord
       /\ DOMAIN idem' \subseteq BindingKeys
       /\ \A j \in DOMAIN idem' : idem'[j] \in IdempotencyRecord
  BY <1>0, <1>3, MapTyped DEF TypeOK
<1>11. TypeOK'
  BY <1>0, <1>1, <1>10 DEF TypeOK
<1>12. CallInv' /\ SeqInv'
  BY <1>0, <1>1 DEF CallInv, SeqInv, Serving
<1>13. KeyBoundOnce'
  BY <1>0, <1>1 DEF KeyBoundOnce
<1> QED BY <1>8, <1>9, <1>11, <1>12, <1>13 DEF Inv

\* What merge_from_wal returns: the index, and for every other key a record
\* of the WAL that carries it.
LEMMA Merged ==
    ASSUME TypeOK, SeqInv, NEW m, m = MergeFromWal(idemFiles, wal)
    PROVE  /\ DOMAIN m \subseteq BindingKeys
           /\ \A k \in DOMAIN m : m[k] \in IdempotencyRecord
           /\ \A k \in DOMAIN idemFiles : k \in DOMAIN m /\ m[k] = idemFiles[k]
           /\ \A k \in DOMAIN m : k \notin DOMAIN idemFiles =>
                \E i \in DOMAIN wal : FirstOf(i, k) /\ m[k] = IdemOf(wal[i])
           /\ \A i \in DOMAIN wal : wal[i].key # None => BindingKey(wal[i]) \in DOMAIN m
<1> DEFINE bound(k) == {i \in DOMAIN wal : wal[i].key # None /\ BindingKey(wal[i]) = k}
           keys == {k \in BindingKeys : bound(k) # {}}
<1>1. m = [k \in DOMAIN idemFiles \cup keys |->
             IF k \in DOMAIN idemFiles THEN idemFiles[k] ELSE IdemOf(wal[Min(bound(k))])]
  BY DEF MergeFromWal
<1>2. /\ DOMAIN idemFiles \subseteq BindingKeys
      /\ \A k \in DOMAIN idemFiles : idemFiles[k] \in IdempotencyRecord
  BY DEF TypeOK
<1>3. /\ DOMAIN wal \subseteq 1 .. MaxSeq /\ \A i \in DOMAIN wal : wal[i] \in WalRecord
      /\ \A i \in DOMAIN wal : wal[i].key # None => Bindable(wal[i])
  BY WalTypes DEF SeqInv
<1>4. DOMAIN m = DOMAIN idemFiles \cup keys
  BY <1>1
<1>5. ASSUME NEW k \in DOMAIN idemFiles PROVE k \in DOMAIN m /\ m[k] = idemFiles[k]
  BY <1>1
<1>6. ASSUME NEW k \in DOMAIN m, k \notin DOMAIN idemFiles
      PROVE  \E i \in DOMAIN wal : FirstOf(i, k) /\ m[k] = IdemOf(wal[i])
  <2>1. bound(k) # {} /\ bound(k) \in SUBSET (1 .. MaxSeq)
    BY <1>3, <1>4, <1>6
  <2>2. Min(bound(k)) \in bound(k) /\ \A j \in bound(k) : Min(bound(k)) <= j
    BY <2>1, Extremes, MaxSeqAssumption
  <2>3. m[k] = IdemOf(wal[Min(bound(k))])
    BY <1>1, <1>4, <1>6
  <2>4. PICK i : i = Min(bound(k))
    OBVIOUS
  <2>5. FirstOf(i, k)
    BY <2>2, <2>4 DEF FirstOf, RecordsOf
  <2> QED BY <2>2, <2>3, <2>4, <2>5
<1>7. ASSUME NEW i \in DOMAIN wal, wal[i].key # None PROVE BindingKey(wal[i]) \in DOMAIN m
  <2>1. BindingKey(wal[i]) \in BindingKeys
    BY <1>3, <1>7, RecordFacts
  <2>2. PICK k : k = BindingKey(wal[i])
    OBVIOUS
  <2>3. i \in bound(k)
    BY <1>7, <2>2
  <2> QED BY <1>4, <2>1, <2>2, <2>3
<1>8. ASSUME NEW k \in DOMAIN m PROVE m[k] \in IdempotencyRecord
  <2>1. CASE k \in DOMAIN idemFiles
    BY <1>2, <1>5, <2>1
  <2>2. CASE k \notin DOMAIN idemFiles
    BY <1>3, <1>6, <2>2, RecordFacts DEF FirstOf, RecordsOf
  <2> QED BY <2>1, <2>2
<1>9. DOMAIN m \subseteq BindingKeys
  BY <1>2, <1>4
<1> HIDE DEF bound, keys
<1> QED BY <1>5, <1>6, <1>7, <1>8, <1>9

\* What a restart rebuilds: the last record of every transaction.
LEMMA Rebuilt ==
    ASSUME NEW w, DOMAIN w \subseteq 1 .. MaxSeq, \A i \in DOMAIN w : w[i] \in WalRecord,
           NEW t, t = RebuildTxs(w)
    PROVE  /\ DOMAIN t \subseteq Txs
           /\ \A i \in DOMAIN w : w[i].tx \in DOMAIN t
           /\ \A tx \in DOMAIN t :
                /\ t[tx] \in TxSnapshot
                /\ \E i \in IndicesOf(w, tx) : /\ \A j \in IndicesOf(w, tx) : j <= i
                                                 /\ t[tx] = SnapshotOf(w[i])
<1>1. /\ DOMAIN w \subseteq 1 .. MaxSeq /\ \A i \in DOMAIN w : w[i] \in WalRecord
  OBVIOUS
<1>2. DOMAIN t = {w[i].tx : i \in DOMAIN w}
  BY DEF RebuildTxs
<1>3. DOMAIN t \subseteq Txs
  BY <1>1, <1>2, RecordFacts
<1>4. ASSUME NEW tx \in DOMAIN t
      PROVE  /\ t[tx] \in TxSnapshot
             /\ \E i \in IndicesOf(w, tx) : /\ \A j \in IndicesOf(w, tx) : j <= i
                                              /\ t[tx] = SnapshotOf(w[i])
  <2>1. IndicesOf(w, tx) # {} /\ IndicesOf(w, tx) \in SUBSET (1 .. MaxSeq)
    BY <1>1, <1>2 DEF IndicesOf
  <2>2. PICK i : i = Max(IndicesOf(w, tx))
    OBVIOUS
  <2>3. i \in IndicesOf(w, tx) /\ \A j \in IndicesOf(w, tx) : j <= i
    BY <2>1, <2>2, Extremes, MaxSeqAssumption
  <2>4. t[tx] = SnapshotOf(w[i])
    BY <1>2, <2>2 DEF RebuildTxs
  <2>5. w[i] \in WalRecord
    BY <1>1, <2>3 DEF IndicesOf
  <2> QED BY <2>3, <2>4, <2>5, RecordFacts
<1> QED BY <1>2, <1>3, <1>4

\* A restart binds every answered key to its answer again.
LEMMA OpenInv == ASSUME Inv, Open PROVE Inv'
<1>0. /\ TypeOK /\ CallInv /\ SeqInv /\ KeyBoundOnce /\ AckInv
      /\ BackInv /\ ReplyInv /\ RepliesAgree
  BY DEF Inv
<1>1. /\ ~up /\ up' = TRUE /\ call = None /\ call' = None
      /\ UNCHANGED <<wal, walTemp, walReadable, checkpoint, events, eventsOk, idemFiles,
                     base, issued, replies, blind>>
      /\ safeMode' = OpensInSafeMode /\ adrift' = {}
      /\ txs' = IF OpensInSafeMode THEN Empty ELSE RebuildTxs(wal)
      /\ nextSeq' = IF OpensInSafeMode THEN 0 ELSE checkpoint
  BY <1>0 DEF Open, stores, outside, SeqInv
<1>2. PICK m : m = MergeFromWal(idemFiles, wal)
  OBVIOUS
<1>3. (RecoverOk /\ idem' = m) \/ (~RecoverOk /\ idem' = idemFiles)
  BY <1>2 DEF Open
<1>4. /\ DOMAIN m \subseteq BindingKeys
      /\ \A k \in DOMAIN m : m[k] \in IdempotencyRecord
      /\ \A k \in DOMAIN idemFiles : k \in DOMAIN m /\ m[k] = idemFiles[k]
      /\ \A k \in DOMAIN m : k \notin DOMAIN idemFiles =>
           \E i \in DOMAIN wal : FirstOf(i, k) /\ m[k] = IdemOf(wal[i])
      /\ \A i \in DOMAIN wal : wal[i].key # None => BindingKey(wal[i]) \in DOMAIN m
  BY <1>0, <1>2, Merged
<1>5. ~OpensInSafeMode => /\ RecoverOk /\ walReadable /\ DOMAIN wal = 1 .. checkpoint
  BY DEF OpensInSafeMode, RecoverOk
<1>6. Doomed = {} /\ Doomed' = {} /\ Kept
  BY <1>1 DEF Doomed, Kept
<1>7. TypeOK'
  <2>1. DOMAIN txs' \subseteq Txs /\ \A t \in DOMAIN txs' : txs'[t] \in TxSnapshot
    <3>1. CASE OpensInSafeMode
      BY <1>1, <3>1 DEF Empty
    <3>2. CASE ~OpensInSafeMode
      BY <1>0, <1>1, <3>2, WalTypes, Rebuilt
    <3> QED BY <3>1, <3>2
  <2>2. DOMAIN idem' \subseteq BindingKeys /\ \A k \in DOMAIN idem' : idem'[k] \in IdempotencyRecord
    BY <1>0, <1>3, <1>4 DEF TypeOK
  <2>3. nextSeq' \in 0 .. MaxSeq
    BY <1>0, <1>1, MaxSeqAssumption DEF TypeOK
  <2>4. safeMode' \in BOOLEAN
    BY <1>1 DEF OpensInSafeMode
  <2> QED BY <1>0, <1>1, <2>1, <2>2, <2>3, <2>4 DEF TypeOK
<1>8. CallInv'
  BY <1>1 DEF CallInv
<1>9. SeqInv'
  BY <1>0, <1>1, <1>5 DEF SeqInv, Serving
<1>10. KeyBoundOnce'
  BY <1>0, <1>1 DEF KeyBoundOnce
<1>11. BackInv'
  <2> SUFFICES ASSUME NEW k \in DOMAIN idem' PROVE Backed(k, idem[k])'
    BY DEF BackInv
  <2>1. CASE k \in DOMAIN idemFiles
    <3>1. idemFiles'[k] = idem'[k] /\ k \in DOMAIN idemFiles'
      BY <1>1, <1>3, <1>4, <2>1
    <3> QED BY <3>1 DEF Backed
  <2>2. CASE k \notin DOMAIN idemFiles
    <3>1. idem' = m
      BY <1>3, <2>2
    <3>2. PICK i \in DOMAIN wal : FirstOf(i, k) /\ m[k] = IdemOf(wal[i])
      BY <1>4, <2>2, <3>1
    <3>3. FirstOf(i, k)'
      BY <1>1, <3>2 DEF FirstOf, RecordsOf
    <3>4. /\ i \in DOMAIN wal' \ Doomed'
          /\ IdemOf(wal'[i]) = idem'[k] /\ k \notin DOMAIN idemFiles'
      BY <1>1, <1>6, <2>2, <3>1, <3>2
    <3> QED BY <3>3, <3>4 DEF Backed
  <2> QED BY <2>1, <2>2
<1>12. \A r \in replies : r.fresh => Acked(r)'
  BY <1>0, <1>6, AckedKept DEF AckInv
<1>13. ASSUME NEW r \in replies, r.key # None PROVE Bound(r)'
  <2>1. Backed(r.key, EntryOf(r))
    BY <1>0, <1>13 DEF ReplyInv, Bound
  <2>2. Backed(r.key, EntryOf(r))'
    BY <1>1, <1>6, <2>1, BackedKept
  <2>3. ASSUME Serving' PROVE r.key \in DOMAIN idem' /\ idem'[r.key] = EntryOf(r)
    <3>1. idem' = m /\ walReadable
      BY <1>1, <1>3, <1>5, <2>3 DEF Serving
    <3>2. CASE r.key \in DOMAIN idemFiles
      BY <1>4, <2>1, <3>1, <3>2 DEF Backed
    <3>3. CASE r.key \notin DOMAIN idemFiles
      <4>1. PICK i \in DOMAIN wal : FirstOf(i, r.key) /\ IdemOf(wal[i]) = EntryOf(r)
        BY <2>1, <3>3 DEF Backed
      <4>2. r.key \in DOMAIN m
        BY <1>4, <4>1 DEF FirstOf, RecordsOf
      <4>3. PICK j \in DOMAIN wal : FirstOf(j, r.key) /\ m[r.key] = IdemOf(wal[j])
        BY <1>4, <3>3, <4>2
      <4>4. i = j
        <5>1. i \in Int /\ j \in Int
          BY <1>0, WalTypes
        <5>2. i <= j /\ j <= i
          BY <4>1, <4>3 DEF FirstOf
        <5> QED BY <5>1, <5>2
      <4> QED BY <3>1, <4>1, <4>2, <4>3, <4>4
    <3> QED BY <3>2, <3>3
  <2> QED BY <1>1, <2>2, <2>3 DEF Bound, EntryOf
<1>14. AckInv' /\ ReplyInv' /\ RepliesAgree'
  BY <1>0, <1>1, <1>12, <1>13, NoReply
<1> QED BY <1>7, <1>8, <1>9, <1>10, <1>11, <1>14 DEF Inv

-----------------------------------------------------------------------------
(* The invariant and what follows from it. *)

\* An empty state_dir satisfies the invariant.
LEMMA InitInv == Init => Inv
<1> SUFFICES ASSUME Init PROVE Inv
  OBVIOUS
<1>1. /\ DOMAIN Empty = {} /\ wal = Empty /\ idem = Empty /\ idemFiles = Empty
      /\ txs = Empty /\ replies = {} /\ call = None /\ ~up /\ ~safeMode
  BY DEF Init, Empty
<1>2. \E s \in SUBSET (1 .. MaxSeq) : wal \in [s -> WalRecord]
  <2>1. wal \in [{} -> WalRecord]
    BY <1>1 DEF Empty
  <2> QED BY <2>1
<1>3. TypeOK
  <2>1. 0 \in 0 .. MaxSeq
    BY MaxSeqAssumption
  <2>2. events = <<>> /\ <<>> \in Seq([tx : Txs, state : States])
    BY DEF Init
  <2>3. /\ walTemp = FALSE /\ walReadable = TRUE /\ checkpoint = 0 /\ eventsOk = TRUE
        /\ nextSeq = 0 /\ base \in Bases /\ issued = {} /\ up = FALSE /\ safeMode = FALSE
        /\ blind = {} /\ adrift = {}
    BY DEF Init
  <2> QED BY <1>1, <1>2, <2>1, <2>2, <2>3 DEF TypeOK
<1>4. CallInv /\ SeqInv /\ KeyBoundOnce /\ AckInv /\ BackInv /\ ReplyInv /\ RepliesAgree
  BY <1>1 DEF CallInv, SeqInv, KeyBoundOnce, AckInv, BackInv, ReplyInv, RepliesAgree,
              Serving
<1> QED BY <1>3, <1>4 DEF Inv

\* Every step keeps the invariant.
LEMMA NextInv == Inv /\ [Next]_vars => Inv'
<1> SUFFICES ASSUME Inv, [Next]_vars PROVE Inv'
  OBVIOUS
<1>1. CASE Open
  BY <1>1, OpenInv
<1>2. CASE Request
  <2>1. TypeOK
    BY DEF Inv
  <2> QED BY <1>2, <2>1, RequestCases, StartsInv, AnswersAgainInv, RepairsInv
<1>3. CASE CallStep
  BY <1>3, InsertSnapshotInv, RecordIdempotencyInv, RecordRefusalInv, RepairRecordInv, AppendStateEventInv,
     RevertWalInv, UnwindInv, UnbindInv DEF CallStep
<1>4. CASE Crash
  BY <1>4, CrashInv
<1>5. CASE BaseMoves \/ WalDamaged \/ UNCHANGED vars
  BY <1>5, OutsideInv
<1> QED BY <1>1, <1>2, <1>3, <1>4, <1>5 DEF Next

\* Invariance: the inductive invariant on stores, memory, the call in progress
\* and the answers given holds in every reachable state.
\* (broker/src/transaction/engine.rs)
THEOREM Invariance == Spec => []Inv
  BY InitInv, NextInv, PTL DEF Spec

\* TypeCorrect: TypeOK holds whatever fails and wherever the process dies; in
\* particular a binding always names a request and a state that can be bound.
\* (broker/src/transaction/engine.rs, storage/wal.rs, storage/idempotency.rs)
THEOREM TypeCorrect == Spec => []TypeOK
<1>1. Inv => TypeOK
  BY DEF Inv
<1> QED BY <1>1, Invariance, PTL

\* An acknowledged step is in the WAL and stays there: a rollback takes away
\* the record of the call in progress only, and that one is not acknowledged.
\* (broker/src/transaction/engine.rs rollback_transition)
THEOREM AckedStaysRecorded == Spec => []AckedDurable
<1>1. Inv => AckedDurable
  BY DEF Inv, AckInv, Acked, AckedDurable, Recorded
<1> QED BY <1>1, Invariance, PTL

\* An idempotency key is bound to at most one record of its operation: a retry
\* after a lost binding finds the record in the WAL.  The keys of which this is
\* not claimed are those that were looked up while the WAL could not be read.
\* (broker/src/transaction/engine.rs lookup_idempotency_from_wal)
THEOREM KeysBoundOnce == Spec => []KeyBoundOnce
<1>1. Inv => KeyBoundOnce
  BY DEF Inv
<1> QED BY <1>1, Invariance, PTL

\* Two answers for the same key agree, over any crashes, repairs and
\* restarts between them. (broker/src/storage/idempotency.rs merge_from_wal)
THEOREM AnswersAgree == Spec => []RepliesAgree
<1>1. Inv => RepliesAgree
  BY DEF Inv
<1> QED BY <1>1, Invariance, PTL

\* What a step may do in safe mode.
LEMMA SafeModeStep ==
    ASSUME Inv, Next, up, safeMode
    PROVE  /\ DOMAIN wal' \subseteq DOMAIN wal
           /\ up' => safeMode' /\ events' = events
           /\ replies' = replies
<1>0. TypeOK /\ CallInv /\ ~Serving
  BY DEF Inv, Serving
<1>1. \A seq : wal' = Without(wal, seq) => DOMAIN wal' \subseteq DOMAIN wal
  BY DEF Without, Restrict
<1>2. CASE Open
  BY <1>2 DEF Open
<1>3. CASE Request
  BY <1>0, <1>3, RequestCases DEF Starts, AnswersAgain, Repairs
<1>4. CASE InsertSnapshot \/ RecordIdempotency \/ RecordRefusal \/ RepairRecord
           \/ AppendStateEvent
  BY <1>0, <1>4 DEF InsertSnapshot, RecordIdempotency, RecordRefusal, RepairRecord, AppendStateEvent,
                    At, CallInv, Undoing
<1>5. CASE RevertWal
  BY <1>1, <1>5 DEF RevertWal, outside
<1>6. CASE Unwind
  BY <1>6 DEF Unwind, stores, outside
<1>7. CASE Unbind
  BY <1>7 DEF Unbind, outside
<1>8. CASE Crash
  BY <1>1, <1>8 DEF Crash, Die, stores, outside
<1>9. CASE BaseMoves \/ WalDamaged
  BY <1>9 DEF BaseMoves, WalDamaged, stores, memory, outside
<1> QED BY <1>2, <1>3, <1>4, <1>5, <1>6, <1>7, <1>8, <1>9 DEF Next, CallStep

\* In safe mode nothing is recorded, published or acknowledged: only a rollback
\* under way goes on. (broker/src/transaction/engine.rs enter_safe_mode)
THEOREM SafeModeStops == Spec => SafeModeStopsWork
<1>1. Inv /\ [Next]_vars =>
        [up /\ safeMode =>
           /\ DOMAIN wal' \subseteq DOMAIN wal
           /\ up' => safeMode' /\ events' = events
           /\ replies' = replies]_vars
  BY SafeModeStep
<1> QED BY <1>1, Invariance, PTL DEF Spec, SafeModeStopsWork

\* A step of the transition table goes up in rank.
LEMMA RankSteps ==
    /\ \A s \in States : Rank[s] \in Nat
    /\ \A s, t \in States : BrokerMayEnter(s, t) => Rank[s] < Rank[t]
<1>1. /\ Rank["Proposed"] = 1 /\ Rank["Testing"] = 2 /\ Rank["Applying"] = 3
      /\ Rank["Probation"] = 4 /\ Rank["Rejected"] = 5
  BY DEF Rank, States
<1>2. \A s \in States : Rank[s] \in Nat
  BY <1>1 DEF States
<1>3. ASSUME NEW s \in States, NEW t \in States, BrokerMayEnter(s, t)
      PROVE  Rank[s] < Rank[t]
  BY <1>1, <1>3 DEF BrokerMayEnter
<1> QED BY <1>2, <1>3

\* In a WAL that passes validate_wal_semantics a transaction never goes down.
LEMMA RankGrows ==
    ASSUME TypeOK, ValidateWalSemantics(wal), NEW tx,
           NEW i \in IndicesOf(wal, tx), NEW n \in IndicesOf(wal, tx), i <= n
    PROVE  Rank[wal[n].state] >= Rank[wal[i].state]
<1> DEFINE T == {j \in IndicesOf(wal, tx) : i <= j /\ ~(Rank[wal[j].state] >= Rank[wal[i].state])}
<1>1. /\ DOMAIN wal \subseteq 1 .. MaxSeq
      /\ \A j \in DOMAIN wal : wal[j].state \in States
  BY WalTypes, RecordFacts
<1>2. \A j \in IndicesOf(wal, tx) : /\ j \in DOMAIN wal /\ wal[j].tx = tx /\ j \in 1 .. MaxSeq
                                    /\ Rank[wal[j].state] \in Nat
  BY <1>1, RankSteps DEF IndicesOf
<1>3. SUFFICES ASSUME T # {} PROVE FALSE
  <2>1. n \notin T
    BY <1>3
  <2> QED BY <2>1
<1>4. T \in SUBSET Nat
  BY <1>2
<1>5. PICK j \in T : \A l \in T : j <= l
  BY <1>3, <1>4, LeastExists
<1>6. /\ j \in IndicesOf(wal, tx) /\ i <= j
      /\ ~(Rank[wal[j].state] >= Rank[wal[i].state])
  BY <1>5
<1>7. i < j
  BY <1>2, <1>6
<1> DEFINE earlier == {l \in IndicesOf(wal, wal[j].tx) : l < j}
<1>8. i \in earlier /\ earlier \in SUBSET (1 .. MaxSeq)
  BY <1>2, <1>6, <1>7
<1>9. PICK p : p = Max(earlier)
  OBVIOUS
<1>10. p \in earlier /\ \A l \in earlier : l <= p
  BY <1>8, <1>9, Extremes, MaxSeqAssumption
<1>11. p \in IndicesOf(wal, tx) /\ i <= p /\ p < j
  BY <1>2, <1>6, <1>8, <1>10
<1>12. BrokerMayEnter(wal[p].state, wal[j].state)
  BY <1>2, <1>6, <1>8, <1>9 DEF ValidateWalSemantics
<1>13. Rank[wal[p].state] < Rank[wal[j].state]
  BY <1>1, <1>2, <1>6, <1>11, <1>12, RankSteps
<1>14. Rank[wal[p].state] >= Rank[wal[i].state]
  <2>1. p \notin T
    BY <1>2, <1>5, <1>11
  <2> QED BY <1>11, <2>1
<1> QED BY <1>2, <1>6, <1>11, <1>13, <1>14

\* Only a restart brings the broker up.
LEMMA OnlyOpenStarts == ASSUME Inv, Next, ~up, up' PROVE Open
<1>0. TypeOK /\ call = None
  BY DEF Inv, SeqInv
<1>1. ~Request
  BY <1>0, RequestCases DEF Starts, AnswersAgain, Repairs, Serving
<1>2. ~CallStep
  BY <1>0 DEF CallStep, InsertSnapshot, RecordIdempotency, RecordRefusal, RepairRecord,
              AppendStateEvent, RevertWal, Unwind, Unbind, At
<1>3. ~Crash /\ ~BaseMoves /\ ~WalDamaged
  BY DEF Crash, BaseMoves, WalDamaged, memory
<1> QED BY <1>1, <1>2, <1>3 DEF Next

\* A restart that serves knows every acknowledged step.
LEMMA RestartRemembers ==
    ASSUME Inv, Next, ~up, up', ~safeMode', NEW r \in replies, r.fresh
    PROVE  r.tx \in DOMAIN txs' /\ Rank[txs'[r.tx].state] >= Rank[r.state]
<1>0. TypeOK /\ AckInv
  BY DEF Inv
<1>1. txs' = RebuildTxs(wal) /\ ValidateWalSemantics(wal)
  BY OnlyOpenStarts DEF Open, OpensInSafeMode
<1>2. PICK i \in DOMAIN wal : wal[i].tx = r.tx /\ wal[i].state = r.state
  BY <1>0 DEF AckInv, Acked
<1>3. i \in IndicesOf(wal, r.tx)
  BY <1>2 DEF IndicesOf
<1>4. PICK t : t = RebuildTxs(wal)
  OBVIOUS
<1>5. r.tx \in DOMAIN t
  BY <1>0, <1>2, <1>4, WalTypes, Rebuilt
<1>6. PICK n \in IndicesOf(wal, r.tx) : /\ \A j \in IndicesOf(wal, r.tx) : j <= n
                                        /\ t[r.tx] = SnapshotOf(wal[n])
  BY <1>0, <1>4, <1>5, WalTypes, Rebuilt
<1>7. Rank[wal[n].state] >= Rank[wal[i].state]
  BY <1>0, <1>1, <1>3, <1>6, RankGrows
<1>8. t[r.tx].state = wal[n].state
  BY <1>6 DEF SnapshotOf
<1> QED BY <1>1, <1>2, <1>4, <1>5, <1>7, <1>8

\* No transaction comes back from a restart in a state before one its client
\* was told: a WAL that goes back is not served.
\* (broker/src/transaction/recovery.rs validate_wal_semantics)
THEOREM NothingForgotten == Spec => NoAckedStepForgotten
<1>1. Inv /\ [Next]_vars =>
        [~up /\ up' /\ ~safeMode' =>
           \A r \in replies : r.fresh =>
             /\ r.tx \in DOMAIN txs'
             /\ Rank[txs'[r.tx].state] >= Rank[r.state]]_vars
  BY RestartRemembers
<1> QED BY <1>1, Invariance, PTL DEF Spec, NoAckedStepForgotten

-----------------------------------------------------------------------------
(* The snapshots and the WAL. *)

\* s is the snapshot of the last record of tx in w; None if w has no record.
LatestIn(w, tx, s) ==
    \/ IndicesOf(w, tx) = {} /\ s = None
    \/ \E i \in IndicesOf(w, tx) : /\ s = SnapshotOf(w[i])
                                   /\ \A j \in IndicesOf(w, tx) : j <= i

\* What tx_status answers for a transaction.
Held(t, tx) == IF tx \in DOMAIN t THEN t[tx] ELSE None

\* The snapshots follow the WAL; a refusal is only taken back in safe mode.
MemInv ==
    /\ call # None /\ ~safeMode /\ call.step \in {"record", "revert", "unwind"} =>
           call.rec.state # "Rejected"
    /\ Serving => \A tx \in Txs \ adrift : LatestIn(ShownWal, tx, Held(txs, tx))

\* Two logs with the same records of a transaction.
SameFor(w, v, tx) ==
    IndicesOf(w, tx) = IndicesOf(v, tx) /\ \A i \in IndicesOf(w, tx) : w[i] = v[i]

LEMMA LatestSame ==
    ASSUME NEW w, NEW v, NEW tx, NEW s, SameFor(w, v, tx), LatestIn(w, tx, s)
    PROVE  LatestIn(v, tx, s)
<1>1. CASE IndicesOf(w, tx) = {} /\ s = None
  BY <1>1 DEF LatestIn, SameFor
<1>2. ASSUME NEW i \in IndicesOf(w, tx), s = SnapshotOf(w[i]),
             \A j \in IndicesOf(w, tx) : j <= i
      PROVE  LatestIn(v, tx, s)
  <2>1. i \in IndicesOf(v, tx) /\ w[i] = v[i]
    BY DEF SameFor
  <2>2. s = SnapshotOf(v[i])
    BY <1>2, <2>1
  <2>3. \A j \in IndicesOf(v, tx) : j <= i
    BY <1>2 DEF SameFor
  <2> QED BY <2>1, <2>2, <2>3 DEF LatestIn
<1> QED BY <1>1, <1>2 DEF LatestIn

\* A log that differs from another at one place at most, where the record is of
\* another transaction.
LEMMA SameElsewhere ==
    ASSUME NEW w, NEW v, NEW k, NEW tx,
           \A i : i # k => /\ i \in DOMAIN w <=> i \in DOMAIN v
                           /\ i \in DOMAIN w => w[i] = v[i],
           k \in DOMAIN w => w[k].tx # tx,
           k \in DOMAIN v => v[k].tx # tx
    PROVE  SameFor(w, v, tx)
<1>1. \A i \in IndicesOf(w, tx) : i # k /\ i \in IndicesOf(v, tx) /\ w[i] = v[i]
  BY DEF IndicesOf
<1>2. \A i \in IndicesOf(v, tx) : i # k /\ i \in IndicesOf(w, tx)
  BY DEF IndicesOf
<1> QED BY <1>1, <1>2 DEF SameFor

\* The shown log, by the step of the call.
LEMMA ShownCases ==
    /\ call = None => ShownWal = wal
    /\ call # None /\ call.step \notin {"insert", "unwind"} => ShownWal = wal
    /\ call # None /\ call.step = "insert" =>
         /\ DOMAIN ShownWal = DOMAIN wal \ {call.seq}
         /\ \A i \in DOMAIN ShownWal : ShownWal[i] = wal[i]
    /\ call # None /\ call.step = "unwind" =>
         /\ DOMAIN ShownWal = DOMAIN wal \cup {call.seq}
         /\ ShownWal[call.seq] = call.rec
         /\ \A i \in DOMAIN wal : i # call.seq => ShownWal[i] = wal[i]
  BY DEF ShownWal, At, Without, Restrict, Put

\* A step that shows every transaction as before.
LEMMA SameShown ==
    ASSUME MemInv, adrift \subseteq adrift', txs' = txs, Serving' => Serving,
           \A tx \in Txs \ adrift' : SameFor(ShownWal, ShownWal', tx),
           call' # None /\ ~safeMode' /\ call'.step \in {"record", "revert", "unwind"} =>
               call'.rec.state # "Rejected"
    PROVE  MemInv'
<1> SUFFICES ASSUME Serving', NEW tx \in Txs \ adrift'
             PROVE  LatestIn(ShownWal', tx, Held(txs', tx))
  BY DEF MemInv, LatestIn, Held, IndicesOf, SnapshotOf
<1>1. LatestIn(ShownWal, tx, Held(txs, tx))
  BY DEF MemInv
<1>2. PICK s : s = Held(txs, tx)
  OBVIOUS
<1>3. Held(txs', tx) = s
  BY <1>2 DEF Held
<1>4. LatestIn(ShownWal', tx, s)
  BY <1>1, <1>2, LatestSame
<1> QED BY <1>3, <1>4

LEMMA SameItself == \A w, tx : SameFor(w, w, tx)
  BY DEF SameFor

\* A call begins, its write fails, or the process dies while it does.
LEMMA StartsMem == ASSUME Inv, MemInv, NEW rec, Starts(rec) PROVE MemInv'
<1> DEFINE seq == nextSeq + 1
<1>0. TypeOK /\ SeqInv
  BY DEF Inv
<1>1. /\ Serving /\ call = None /\ rec \in WalRecord /\ nextSeq < MaxSeq
      /\ wal' = wal \/ wal' = Put(wal, seq, rec)
      /\ \/ /\ wal' = Put(wal, seq, rec)
            /\ call' = [step |-> "insert", seq |-> seq, rec |-> rec,
                        before |-> IF rec.tx \in DOMAIN txs THEN txs[rec.tx] ELSE None,
                        unbinds |-> FALSE]
            /\ UNCHANGED <<up, safeMode, txs, adrift>>
         \/ /\ UNCHANGED <<txs, call, up, safeMode>>
            /\ adrift' = adrift \cup {rec.tx}
         \/ Die
  BY DEF Starts, PersistTransition, AppendInterrupted
<1>2. seq \notin DOMAIN wal
  BY <1>0, <1>1 DEF SeqInv, TypeOK
<1> HIDE DEF seq
<1>3. /\ \A i : i # seq => /\ i \in DOMAIN wal <=> i \in DOMAIN wal'
                           /\ i \in DOMAIN wal => wal[i] = wal'[i]
      /\ seq \in DOMAIN wal' => wal'[seq] = rec
  BY <1>1, <1>2 DEF Put
<1>4. CASE /\ wal' = Put(wal, seq, rec)
           /\ call' = [step |-> "insert", seq |-> seq, rec |-> rec,
                       before |-> IF rec.tx \in DOMAIN txs THEN txs[rec.tx] ELSE None,
                       unbinds |-> FALSE]
           /\ UNCHANGED <<up, safeMode, txs, adrift>>
  <2>1. call'.step = "insert" /\ call'.seq = seq
    BY <1>4
  <2>2. call' # None
    <3>1. (IF rec.tx \in DOMAIN txs THEN txs[rec.tx] ELSE None) \in TxSnapshot \cup {None}
      BY <1>0 DEF TypeOK
    <3>2. seq \in 0 .. MaxSeq
      BY <1>0, <1>1, MaxSeqAssumption DEF TypeOK, seq
    <3>3. "insert" \in Steps
      BY DEF Steps
    <3> QED BY <1>1, <1>4, <3>1, <3>2, <3>3, CallStarted
  <2>3. ShownWal = wal
    BY <1>1, ShownCases
  <2>4. ShownWal' = Without(wal', seq)
    BY <2>1, <2>2 DEF ShownWal, At
  <2>5. DOMAIN ShownWal' = DOMAIN wal /\ \A i \in DOMAIN wal : ShownWal'[i] = wal[i]
    <3>1. DOMAIN wal' = DOMAIN wal \cup {seq}
      BY <1>4 DEF Put
    <3>2. /\ DOMAIN ShownWal' = DOMAIN wal' \ {seq}
          /\ \A i \in DOMAIN ShownWal' : ShownWal'[i] = wal'[i]
      BY <2>4 DEF Without, Restrict
    <3> QED BY <1>2, <1>3, <3>1, <3>2
  <2>6. \A tx : SameFor(ShownWal, ShownWal', tx)
    BY <2>3, <2>5 DEF SameFor, IndicesOf
  <2>7. Serving' => Serving
    BY <1>1
  <2> QED BY <1>4, <2>1, <2>6, <2>7, SameShown
<1>5. CASE /\ UNCHANGED <<txs, call, up, safeMode>>
           /\ adrift' = adrift \cup {rec.tx}
  <2>1. ShownWal = wal /\ ShownWal' = wal'
    BY <1>1, <1>5 DEF ShownWal, At
  <2>2. ASSUME NEW tx \in Txs \ adrift' PROVE SameFor(ShownWal, ShownWal', tx)
    <3>1. rec.tx # tx
      BY <1>5
    <3>2. SameFor(wal, wal', tx)
      BY <1>2, <1>3, <3>1, SameElsewhere
    <3> QED BY <2>1, <3>2
  <2>3. Serving' => Serving
    BY <1>1
  <2> QED BY <1>1, <1>5, <2>2, <2>3, SameShown
<1>6. CASE Die
  BY <1>6 DEF Die, MemInv, Serving
<1> QED BY <1>1, <1>4, <1>5, <1>6

\* The snapshot of the last record is put in place.
LEMMA InsertSnapshotMem == ASSUME Inv, MemInv, InsertSnapshot PROVE MemInv'
<1>0. TypeOK /\ CallInv /\ SeqInv
  BY DEF Inv
<1>1. /\ call # None /\ call.step = "insert" /\ GoTo(AfterInsert(call.rec))
      /\ txs' = Put(txs, call.rec.tx, SnapshotOf(call.rec))
      /\ UNCHANGED <<wal, up, safeMode, nextSeq, adrift>>
  BY DEF InsertSnapshot, At, stores, history
<1>2. /\ AfterInsert(call.rec) \in {"record", "event", "refusal_event"}
      /\ AfterInsert(call.rec) = "record" => call.rec.state # "Rejected"
  BY DEF AfterInsert
<1>3. /\ call' # None /\ call'.step = AfterInsert(call.rec) /\ call'.rec = call.rec
  BY <1>0, <1>1, <1>2, GoToStep DEF Steps
<1>4. ShownWal' = wal
  <2>1. call' # None /\ call'.step \notin {"insert", "unwind"}
    BY <1>2, <1>3
  <2>2. ShownWal' = wal'
    BY <2>1 DEF ShownWal, At
  <2> QED BY <1>1, <2>2
<1>5. /\ call.seq \in DOMAIN wal /\ wal[call.seq] = call.rec
      /\ call.seq = nextSeq /\ DOMAIN wal \subseteq 1 .. nextSeq
  BY <1>0, <1>1 DEF CallInv, SeqInv, Repairing
<1>6. nextSeq \in Nat
  BY <1>0 DEF TypeOK
<1>7. PICK t : t = call.rec.tx
  OBVIOUS
<1>8. PICK n : n = call.seq
  OBVIOUS
<1>9. ASSUME Serving', NEW tx \in Txs \ adrift
      PROVE  LatestIn(wal, tx, Held(txs', tx))
  <2>1. CASE tx = t
    <3>1. n \in IndicesOf(wal, tx) /\ \A j \in IndicesOf(wal, tx) : j <= n
      BY <1>5, <1>6, <1>7, <1>8, <2>1 DEF IndicesOf
    <3>2. tx \in DOMAIN txs' /\ txs'[tx] = SnapshotOf(call.rec)
      BY <1>1, <1>7, <2>1 DEF Put
    <3>3. Held(txs', tx) = SnapshotOf(wal[n])
      BY <1>5, <1>8, <3>2 DEF Held
    <3> QED BY <3>1, <3>3 DEF LatestIn
  <2>2. CASE tx # t
    <3>1. Held(txs', tx) = Held(txs, tx)
      BY <1>1, <1>7, <2>2 DEF Held, Put
    <3>2. LatestIn(ShownWal, tx, Held(txs, tx))
      BY <1>1, <1>9 DEF MemInv, Serving
    <3>3. /\ DOMAIN ShownWal = DOMAIN wal \ {n}
          /\ \A i \in DOMAIN ShownWal : ShownWal[i] = wal[i]
      BY <1>1, <1>8, ShownCases
    <3>4. SameFor(ShownWal, wal, tx)
      BY <1>5, <1>7, <1>8, <2>2, <3>3, SameElsewhere
    <3>5. PICK s : s = Held(txs, tx)
      OBVIOUS
    <3>6. LatestIn(wal, tx, s)
      BY <3>2, <3>4, <3>5, LatestSame
    <3> QED BY <3>1, <3>5, <3>6
  <2> QED BY <2>1, <2>2
<1>10. ASSUME Serving', NEW tx \in Txs \ adrift'
       PROVE  LatestIn(ShownWal', tx, Held(txs', tx))
  BY <1>1, <1>4, <1>9, <1>10
<1> QED BY <1>2, <1>3, <1>10 DEF MemInv, LatestIn, Held, IndicesOf, SnapshotOf

\* The steps that leave the WAL and the snapshots alone.
LEMMA QuietMem ==
    ASSUME Inv, MemInv,
           \/ \E k : AnswersAgain(k)
           \/ \E i : Repairs(i)
           \/ RecordIdempotency \/ RecordRefusal \/ RepairRecord \/ AppendStateEvent
           \/ Unbind \/ BaseMoves \/ WalDamaged \/ UNCHANGED vars
    PROVE  MemInv'
<1>0. TypeOK /\ CallInv
  BY DEF Inv
<1>1. UNCHANGED <<wal, txs, adrift>> /\ up' = up /\ (safeMode' = safeMode \/ safeMode' = TRUE)
  BY DEF AnswersAgain, Repairs, RecordIdempotency, RecordRefusal, RepairRecord,
         AppendStateEvent, Unbind, BaseMoves, WalDamaged, vars, stores, memory, history
<1>2. Serving' => Serving
  BY <1>1 DEF Serving
<1>3. \/ call' = call
      \/ /\ call = None \/ call.step \notin {"insert", "unwind"}
         /\ \/ call' = None
            \/ call'.step \in {"event", "repair_event", "refusal_record", "repair_record"}
            \/ /\ call'.step = "revert"
               /\ safeMode' \/ (call # None /\ call.step = "record" /\ call'.rec = call.rec)
  <2>1. CASE \E k : AnswersAgain(k)
    BY <2>1 DEF AnswersAgain, memory
  <2>2. CASE \E i : Repairs(i)
    BY <2>2 DEF Repairs
  <2>3. CASE RecordIdempotency
    BY <1>0, <2>3, GoToStep DEF RecordIdempotency, At, Return, Steps
  <2>4. CASE RecordRefusal \/ Unbind
    BY <2>4 DEF RecordRefusal, Unbind, At, Return
  <2>5. CASE RepairRecord
    BY <1>0, <2>5, GoToStep DEF RepairRecord, At, Return, Steps
  <2>6. CASE AppendStateEvent
    <3>1. /\ call # None /\ call.step \in {"event", "refusal_event", "repair_event"}
          /\ \/ call' = None \/ GoTo("refusal_record")
             \/ /\ safeMode' = TRUE
                /\ call' = [call EXCEPT !.step = "revert",
                              !.unbinds = At("event") /\ call.rec.key # None]
      BY <2>6 DEF AppendStateEvent, At, Return
    <3>2. GoTo("refusal_record") => call'.step = "refusal_record"
      BY <1>0, <3>1, GoToStep DEF Steps
    <3>3. (At("event") /\ call.rec.key # None) \in BOOLEAN /\ "revert" \in Steps
      BY DEF Steps
    <3>4. call' = [call EXCEPT !.step = "revert",
                     !.unbinds = At("event") /\ call.rec.key # None]
          => call'.step = "revert"
      BY <1>0, <3>1, <3>3, GoToFacts
    <3> QED BY <3>1, <3>2, <3>4
  <2>7. CASE BaseMoves \/ WalDamaged \/ UNCHANGED vars
    BY <2>7 DEF BaseMoves, WalDamaged, vars, memory
  <2> QED BY <2>1, <2>2, <2>3, <2>4, <2>5, <2>6, <2>7
<1>4. ShownWal' = ShownWal
  <2>1. CASE call' = call
    BY <1>1, <2>1 DEF ShownWal, At
  <2>2. CASE /\ call = None \/ call.step \notin {"insert", "unwind"}
             /\ call' = None \/ call'.step \notin {"insert", "unwind"}
    <3>1. ShownWal = wal
      BY <2>2, ShownCases
    <3>2. ShownWal' = wal'
      BY <2>2 DEF ShownWal, At
    <3> QED BY <1>1, <3>1, <3>2
  <2> QED BY <1>3, <2>1, <2>2
<1>5. call' # None /\ ~safeMode' /\ call'.step \in {"record", "revert", "unwind"} =>
        call'.rec.state # "Rejected"
  BY <1>0, <1>1, <1>3 DEF MemInv, TypeOK
<1> QED BY <1>1, <1>2, <1>4, <1>5, SameShown, SameItself

\* The record goes, and the snapshot shows it until it is unwound.
LEMMA RevertWalMem == ASSUME Inv, MemInv, RevertWal PROVE MemInv'
<1>0. TypeOK /\ CallInv
  BY DEF Inv
<1>1. /\ call # None /\ call.step = "revert" /\ UNCHANGED <<up, safeMode, txs>>
      /\ \/ wal' = Without(wal, call.seq) /\ GoTo("unwind") /\ adrift' = adrift
         \/ /\ wal' = wal \/ wal' = Without(wal, call.seq)
            /\ call' = None /\ adrift' = adrift \cup {call.rec.tx}
  BY DEF RevertWal, At, Return
<1>2. call.seq \in DOMAIN wal /\ wal[call.seq] = call.rec /\ ShownWal = wal
  BY <1>0, <1>1, ShownCases DEF CallInv
<1>3. Serving' => Serving
  BY <1>1 DEF Serving
<1>4. PICK n : n = call.seq
  OBVIOUS
<1>5. wal' = Without(wal, call.seq) => /\ DOMAIN wal' = DOMAIN wal \ {n}
                                       /\ \A i \in DOMAIN wal' : wal'[i] = wal[i]
  BY <1>4 DEF Without, Restrict
<1>6. CASE wal' = Without(wal, call.seq) /\ GoTo("unwind") /\ adrift' = adrift
  <2>1. call' # None /\ call'.step = "unwind" /\ call'.seq = n /\ call'.rec = call.rec
    BY <1>0, <1>1, <1>4, <1>6, GoToStep DEF Steps
  <2>2. ShownWal' = Put(wal', n, call.rec)
    BY <2>1 DEF ShownWal, At
  <2>3. DOMAIN ShownWal' = DOMAIN wal /\ \A i \in DOMAIN wal : ShownWal'[i] = wal[i]
    BY <1>2, <1>4, <1>5, <1>6, <2>2 DEF Put
  <2>4. \A tx : SameFor(ShownWal, ShownWal', tx)
    BY <1>2, <2>3 DEF SameFor, IndicesOf
  <2>5. ~safeMode' => call'.rec.state # "Rejected"
    BY <1>1, <2>1 DEF MemInv
  <2> QED BY <1>1, <1>3, <1>6, <2>4, <2>5, SameShown
<1>7. CASE /\ wal' = wal \/ wal' = Without(wal, call.seq)
           /\ call' = None /\ adrift' = adrift \cup {call.rec.tx}
  <2>1. ShownWal' = wal'
    BY <1>7 DEF ShownWal, At
  <2>2. ASSUME NEW tx \in Txs \ adrift' PROVE SameFor(ShownWal, ShownWal', tx)
    <3>1. wal[n].tx # tx
      BY <1>2, <1>4, <1>7
    <3>2. \A i : i # n => /\ i \in DOMAIN wal <=> i \in DOMAIN wal'
                          /\ i \in DOMAIN wal => wal[i] = wal'[i]
      BY <1>5, <1>7
    <3>3. n \in DOMAIN wal' => wal'[n].tx # tx
      BY <1>5, <1>7, <3>1
    <3>4. SameFor(wal, wal', tx)
      BY <3>1, <3>2, <3>3, SameElsewhere
    <3> QED BY <1>2, <2>1, <3>4
  <2> QED BY <1>1, <1>3, <1>7, <2>2, SameShown
<1> QED BY <1>1, <1>6, <1>7

\* A transaction is unwound into safe mode; a crash and a restart.
LEMMA RestartMem == ASSUME Inv, MemInv, Unwind \/ Crash \/ Open PROVE MemInv'
<1>0. TypeOK /\ SeqInv /\ CallInv
  BY DEF Inv
<1>1. CASE Unwind
  <2>1. safeMode'
    BY <1>0, <1>1 DEF Unwind, At, MemInv, TypeOK
  <2> QED BY <2>1 DEF MemInv, Serving
<1>2. CASE Crash
  BY <1>2 DEF Crash, Die, MemInv, Serving
<1>3. CASE Open
  <2>1. call' = None /\ wal' = wal /\ up' = TRUE
    BY <1>0, <1>3 DEF Open, stores, SeqInv
  <2>2. ShownWal' = wal
    BY <2>1 DEF ShownWal, At
  <2>3. ASSUME Serving', NEW tx \in Txs PROVE LatestIn(wal, tx, Held(txs', tx))
    <3>1. PICK t : t = RebuildTxs(wal) /\ txs' = t
      BY <1>3, <2>3 DEF Open, Serving
    <3>2. /\ DOMAIN wal \subseteq 1 .. MaxSeq /\ \A i \in DOMAIN wal : wal[i] \in WalRecord
      BY <1>0, WalTypes
    <3>3. CASE tx \in DOMAIN t
      <4>1. PICK i \in IndicesOf(wal, tx) : /\ \A j \in IndicesOf(wal, tx) : j <= i
                                            /\ t[tx] = SnapshotOf(wal[i])
        BY <3>1, <3>2, <3>3, Rebuilt
      <4>2. Held(txs', tx) = SnapshotOf(wal[i])
        BY <3>1, <3>3, <4>1 DEF Held
      <4> QED BY <4>1, <4>2 DEF LatestIn
    <3>4. CASE tx \notin DOMAIN t
      <4>1. IndicesOf(wal, tx) = {}
        BY <3>1, <3>2, <3>4, Rebuilt DEF IndicesOf
      <4>2. Held(txs', tx) = None
        BY <3>1, <3>4 DEF Held
      <4> QED BY <4>1, <4>2 DEF LatestIn
    <3> QED BY <3>3, <3>4
  <2>4. ASSUME Serving', NEW tx \in Txs \ adrift'
        PROVE  LatestIn(ShownWal', tx, Held(txs', tx))
    BY <2>2, <2>3, <2>4
  <2> QED BY <2>1, <2>4 DEF MemInv, LatestIn, Held, IndicesOf, SnapshotOf
<1> QED BY <1>1, <1>2, <1>3

\* Every step keeps it.
LEMMA NextMem == Inv /\ MemInv /\ [Next]_vars => MemInv'
<1> SUFFICES ASSUME Inv, MemInv, [Next]_vars PROVE MemInv'
  OBVIOUS
<1>1. CASE Request
  <2>1. TypeOK
    BY DEF Inv
  <2> QED BY <1>1, <2>1, RequestCases, StartsMem, QuietMem
<1>2. CASE CallStep
  BY <1>2, InsertSnapshotMem, QuietMem, RevertWalMem, RestartMem DEF CallStep
<1>3. CASE Open \/ Crash
  BY <1>3, RestartMem
<1>4. CASE BaseMoves \/ WalDamaged \/ UNCHANGED vars
  BY <1>4, QuietMem
<1> QED BY <1>1, <1>2, <1>3, <1>4 DEF Next

\* What a status call reads at any moment, another call's writes in progress
\* included, is what a restart would rebuild, but for the record in progress and
\* for transactions whose own write or rollback failed.
\* (broker/src/transaction/engine.rs persist_transition, rollback_transition)
THEOREM SnapshotsMatchWal == Spec => []MemoryMatchesWal
<1>1. Init => MemInv
  BY DEF Init, MemInv, Serving
<1>2. Inv /\ MemInv => MemoryMatchesWal
  <2> SUFFICES ASSUME Inv, MemInv, Serving, NEW tx \in Txs \ adrift
               PROVE  LET rebuilt == RebuildTxs(ShownWal) IN
                      /\ tx \in DOMAIN txs <=> tx \in DOMAIN rebuilt
                      /\ tx \in DOMAIN txs => txs[tx] = rebuilt[tx]
    BY DEF MemoryMatchesWal
  <2>0. TypeOK /\ CallInv
    BY DEF Inv
  <2>1. PICK w : w = ShownWal
    OBVIOUS
  <2>2. DOMAIN w \subseteq 1 .. MaxSeq /\ \A i \in DOMAIN w : w[i] \in WalRecord
    <3>1. DOMAIN wal \subseteq 1 .. MaxSeq /\ \A i \in DOMAIN wal : wal[i] \in WalRecord
      BY <2>0, WalTypes
    <3>2. CASE call # None /\ call.step = "unwind"
      <4>1. call.seq \in 1 .. MaxSeq /\ call.rec \in WalRecord
        BY <2>0, <3>2, CallFields DEF CallInv, Repairing
      <4>2. /\ DOMAIN w = DOMAIN wal \cup {call.seq} /\ w[call.seq] = call.rec
            /\ \A i \in DOMAIN wal : i # call.seq => w[i] = wal[i]
        BY <2>1, <3>2, ShownCases
      <4> QED BY <3>1, <4>1, <4>2
    <3>3. CASE call # None /\ call.step = "insert"
      BY <2>1, <3>1, <3>3, ShownCases
    <3>4. CASE ~(call # None /\ call.step \in {"insert", "unwind"})
      BY <2>1, <3>1, <3>4, ShownCases
    <3> QED BY <3>2, <3>3, <3>4
  <2>3. PICK t : t = RebuildTxs(w)
    OBVIOUS
  <2>4. LatestIn(w, tx, Held(txs, tx))
    BY <2>1 DEF MemInv
  <2>5. tx \in DOMAIN txs => txs[tx] # None
    BY <2>0, CallAssumption DEF TypeOK
  <2>6. CASE tx \in DOMAIN t
    <3>1. PICK i \in IndicesOf(w, tx) : /\ \A j \in IndicesOf(w, tx) : j <= i
                                        /\ t[tx] = SnapshotOf(w[i])
      BY <2>2, <2>3, <2>6, Rebuilt
    <3>2. PICK j \in IndicesOf(w, tx) : /\ \A n \in IndicesOf(w, tx) : n <= j
                                        /\ Held(txs, tx) = SnapshotOf(w[j])
      BY <2>4, <3>1 DEF LatestIn
    <3>3. i = j
      <4>1. i \in Int /\ j \in Int
        BY <2>2 DEF IndicesOf
      <4>2. i <= j /\ j <= i
        BY <3>1, <3>2
      <4> QED BY <4>1, <4>2
    <3>4. w[j] \in WalRecord
      BY <2>2, <3>2 DEF IndicesOf
    <3>5. SnapshotOf(w[j]) # None
      BY <3>4, RecordFacts, CallAssumption
    <3>6. tx \in DOMAIN txs /\ txs[tx] = t[tx]
      BY <3>1, <3>2, <3>3, <3>5 DEF Held
    <3> QED BY <2>1, <2>3, <2>6, <3>6
  <2>7. CASE tx \notin DOMAIN t
    <3>1. IndicesOf(w, tx) = {}
      BY <2>2, <2>3, <2>7, Rebuilt DEF IndicesOf
    <3>2. Held(txs, tx) = None
      BY <2>4, <3>1 DEF LatestIn
    <3> QED BY <2>1, <2>3, <2>5, <2>7, <3>2 DEF Held
  <2> QED BY <2>6, <2>7
<1> QED BY <1>1, <1>2, NextMem, Invariance, PTL DEF Spec

-----------------------------------------------------------------------------
(* The events and the WAL. *)

StateEvents == [tx : Txs, state : States]

\* The entries of a log that show a state of a transaction.
Shows(r, e)   == r.tx = e.tx /\ r.state = e.state
Showing(s, e) == {i \in DOMAIN s : Shows(s[i], e)}

\* Log t has one entry more than s: r, at k.
OneMore(t, s, k, r) ==
    /\ k \notin DOMAIN s /\ DOMAIN t = DOMAIN s \cup {k} /\ t[k] = r
    /\ \A i \in DOMAIN s : t[i] = s[i]

\* How often a log shows a state is a number.
LEMMA CountNat ==
    ASSUME NEW s, IsFiniteSet(DOMAIN s), NEW e
    PROVE  Count(s, e) \in Nat
<1>1. IsFiniteSet(Showing(s, e))
  BY FS_Subset DEF Showing
<1>2. Cardinality(Showing(s, e)) \in Nat
  BY <1>1, FS_CardinalityType
<1> QED BY <1>2 DEF Count, Showing, Shows

\* A log that gains or loses one entry.
LEMMA CountOneMore ==
    ASSUME NEW s, NEW t, NEW k, NEW r, NEW e, IsFiniteSet(DOMAIN s), OneMore(t, s, k, r)
    PROVE  Count(t, e) = Count(s, e) + (IF Shows(r, e) THEN 1 ELSE 0)
<1>0. Count(s, e) = Cardinality(Showing(s, e)) /\ Count(t, e) = Cardinality(Showing(t, e))
  BY DEF Count, Showing, Shows
<1>1. IsFiniteSet(Showing(s, e))
  BY FS_Subset DEF Showing
<1>2. k \notin Showing(s, e) /\ Cardinality(Showing(s, e)) \in Nat
  BY <1>1, FS_CardinalityType DEF Showing, OneMore
<1>3. CASE Shows(r, e)
  <2>1. Showing(t, e) = Showing(s, e) \cup {k}
    BY <1>3 DEF Showing, OneMore
  <2>2. Cardinality(Showing(t, e)) = Cardinality(Showing(s, e)) + 1
    BY <1>1, <1>2, <2>1, FS_AddElement
  <2> QED BY <1>0, <1>2, <1>3, <2>2
<1>4. CASE ~Shows(r, e)
  <2>1. Showing(t, e) = Showing(s, e)
    BY <1>4 DEF Showing, OneMore
  <2> QED BY <1>0, <1>2, <1>4, <2>1
<1> QED BY <1>3, <1>4

\* Later entries of a transaction have higher places.
LEMMA NthGrows ==
    ASSUME NEW s, IsFiniteSet(DOMAIN s), DOMAIN s \subseteq Nat,
           NEW i \in DOMAIN s, NEW j \in DOMAIN s, s[i].tx = s[j].tx, i < j
    PROVE  Nth(s, i) # Nth(s, j)
<1> DEFINE A == {k \in IndicesOf(s, s[i].tx) : k <= i}
           B == {k \in IndicesOf(s, s[j].tx) : k <= j}
<1>1. IsFiniteSet(B)
  BY FS_Subset DEF IndicesOf
<1>2. A \subseteq B
  BY DEF IndicesOf
<1>3. j \in B /\ j \notin A
  BY DEF IndicesOf
<1>4. Cardinality(A) # Cardinality(B)
  <2> HIDE DEF A, B
  <2> QED BY <1>1, <1>2, <1>3, FS_Subset
<1> QED BY <1>4 DEF Nth

\* Events that are a prefix of the WAL, transaction by transaction, show no
\* state more often than it was recorded.
LEMMA PrefixCounts ==
    ASSUME NEW w, NEW ev, NEW e, IsFiniteSet(DOMAIN w), IsFiniteSet(DOMAIN ev),
           DOMAIN ev \subseteq Nat, ValidateEventsAgainstWal(w, ev)
    PROVE  Count(ev, e) <= Count(w, e)
<1> DEFINE S == Showing(ev, e)
           T == Showing(w, e)
           f == [i \in S |-> CHOOSE j \in T : Nth(w, j) = Nth(ev, i)]
<1>1. IsFiniteSet(T)
  BY FS_Subset DEF Showing
<1>2. ASSUME NEW i \in S PROVE f[i] \in T /\ Nth(w, f[i]) = Nth(ev, i)
  <2>1. i \in DOMAIN ev /\ ev[i].tx = e.tx /\ ev[i].state = e.state
    BY DEF Showing, Shows
  <2>2. PICK j \in IndicesOf(w, ev[i].tx) : Nth(w, j) = Nth(ev, i) /\ w[j].state = ev[i].state
    BY <2>1 DEF ValidateEventsAgainstWal
  <2>3. j \in T
    BY <2>1, <2>2 DEF Showing, Shows, IndicesOf
  <2> QED BY <2>2, <2>3
<1>3. ASSUME NEW i \in S, NEW j \in S, f[i] = f[j] PROVE i = j
  <2>1. Nth(ev, i) = Nth(ev, j)
    BY <1>2, <1>3
  <2>2. /\ i \in DOMAIN ev /\ j \in DOMAIN ev /\ i \in Nat /\ j \in Nat
        /\ ev[i].tx = ev[j].tx
    BY DEF Showing, Shows
  <2>3. ~(i < j) /\ ~(j < i)
    BY <2>1, <2>2, NthGrows
  <2> QED BY <2>2, <2>3
<1> HIDE DEF S, T
<1>4. f \in Injection(S, T)
  BY <1>2, <1>3 DEF Injection, IsInjective
<1> HIDE DEF f
<1>5. Cardinality(S) <= Cardinality(T)
  BY <1>1, <1>4, FS_Injection
<1> QED BY <1>5 DEF S, T, Count, Showing, Shows
-----------------------------------------------------------------------------
(* What makes it inductive. *)

\* The transactions in use were all introduced.
IssuedInv ==
    /\ \A i \in DOMAIN wal : wal[i].tx \in issued
    /\ \A i \in DOMAIN events : events[i].tx \in issued
    /\ DOMAIN txs \subseteq issued
    /\ call # None => call.rec.tx \in issued

\* A transaction is proposed once, with a key.
ProposedInv ==
    /\ \A i \in DOMAIN wal : wal[i].state = "Proposed" => wal[i].key # None
    /\ \A i, j \in DOMAIN wal :
           /\ wal[i].tx = wal[j].tx
           /\ wal[i].state = "Proposed" /\ wal[j].state = "Proposed"
           => i = j

\* A binding is only taken away in safe mode; a refusal is not a proposal.
FlowInv ==
    /\ call # None /\ (call.unbinds \/ call.step = "unbind") => safeMode
    /\ call # None /\ call.step = "refusal_event" => call.rec.state # "Proposed"

\* A proposal whose key is not bound has no event: a repair may still add it.
UnpublishedInv ==
    Serving => \A i \in DOMAIN wal, j \in DOMAIN events :
        wal[i].state = "Proposed" /\ BindingKey(wal[i]) \notin DOMAIN idem
        => ~(events[j].tx = wal[i].tx /\ events[j].state = "Proposed")

\* The steps at which the record of a call has no event of its own.
Owing == {"insert", "record", "event", "refusal_event", "repair_event", "revert"}

Owed(e) ==
    IF call # None /\ call.step \in Owing /\ Shows(call.rec, e) THEN 1 ELSE 0

\* A state was recorded as often as it was published, once more while the
\* call in progress has yet to publish it.
CountInv ==
    Serving => \A e \in StateEvents : Count(events, e) + Owed(e) <= Count(wal, e)

PubInv == IssuedInv /\ ProposedInv /\ FlowInv /\ UnpublishedInv /\ CountInv

\* Both logs are finite.
LEMMA LogsFinite ==
    ASSUME TypeOK
    PROVE  /\ IsFiniteSet(DOMAIN wal) /\ IsFiniteSet(DOMAIN events)
           /\ DOMAIN events \subseteq Nat
<1>1. DOMAIN wal \subseteq 1 .. MaxSeq
  BY WalTypes
<1>2. DOMAIN events = 1 .. Len(events) /\ Len(events) \in Nat
  BY DEF TypeOK
<1>3. IsFiniteSet(1 .. MaxSeq) /\ IsFiniteSet(1 .. Len(events))
  <2>1. MaxSeq \in Int /\ Len(events) \in Int /\ 1 \in Int
    BY <1>2, MaxSeqAssumption
  <2> QED BY <2>1, FS_Interval
<1>4. IsFiniteSet(DOMAIN wal)
  BY <1>1, <1>3, FS_Subset
<1>5. IsFiniteSet(DOMAIN events)
  BY <1>2, <1>3
<1>6. DOMAIN events \subseteq Nat
  BY <1>2
<1> QED BY <1>4, <1>5, <1>6

\* What is counted is counted with numbers.
LEMMA CountsNat ==
    ASSUME TypeOK, NEW e
    PROVE  Count(wal, e) \in Nat /\ Count(events, e) \in Nat
  BY LogsFinite, CountNat

\* One more record.
LEMMA CountRecord ==
    ASSUME TypeOK, NEW seq, seq \notin DOMAIN wal, NEW rec, NEW e,
           wal' = Put(wal, seq, rec)
    PROVE  Count(wal', e) = Count(wal, e) + (IF Shows(rec, e) THEN 1 ELSE 0)
<1>1. OneMore(wal', wal, seq, rec)
  BY DEF OneMore, Put
<1> QED BY <1>1, LogsFinite, CountOneMore

\* One more event.
LEMMA CountEvent ==
    ASSUME TypeOK, NEW x \in StateEvents, NEW e, events' = Append(events, x)
    PROVE  Count(events', e) = Count(events, e) + (IF Shows(x, e) THEN 1 ELSE 0)
<1>1. events \in Seq(StateEvents)
  BY DEF TypeOK, StateEvents
<1>2. OneMore(events', events, Len(events) + 1, x)
  BY <1>1 DEF OneMore
<1> QED BY <1>2, LogsFinite, CountOneMore

\* One record less.
LEMMA CountWithout ==
    ASSUME TypeOK, NEW seq \in DOMAIN wal, NEW e, wal' = Without(wal, seq)
    PROVE  Count(wal, e) = Count(wal', e) + (IF Shows(wal[seq], e) THEN 1 ELSE 0)
<1>1. OneMore(wal, wal', seq, wal[seq])
  BY DEF OneMore, Without, Restrict
<1>2. DOMAIN wal' \subseteq DOMAIN wal
  BY DEF Without, Restrict
<1>3. IsFiniteSet(DOMAIN wal')
  BY <1>2, LogsFinite, FS_Subset
<1> QED BY <1>1, <1>3, CountOneMore

\* A step that leaves both logs alone.
LEMMA QuietStep ==
    ASSUME TypeOK, PubInv, UNCHANGED <<wal, events, issued>>,
           DOMAIN txs' \subseteq issued,
           call' # None => call'.rec.tx \in issued,
           call' # None /\ (call'.unbinds \/ call'.step = "unbind") => safeMode',
           call' # None /\ call'.step = "refusal_event" => call'.rec.state # "Proposed",
           Serving' => Serving /\ DOMAIN idem \subseteq DOMAIN idem',
           Serving' /\ call' # None /\ call'.step \in Owing =>
               call # None /\ call.step \in Owing /\ call.rec = call'.rec
    PROVE  PubInv'
<1>0. IssuedInv /\ ProposedInv /\ FlowInv /\ UnpublishedInv /\ CountInv
  BY DEF PubInv
<1>1. IssuedInv'
  BY <1>0 DEF IssuedInv
<1>2. ProposedInv'
  BY <1>0 DEF ProposedInv
<1>3. FlowInv'
  BY DEF FlowInv
<1>4. UnpublishedInv'
  BY <1>0 DEF UnpublishedInv
<1>5. CountInv'
  <2> SUFFICES ASSUME Serving', NEW e \in StateEvents
               PROVE  (Count(events, e) + Owed(e) <= Count(wal, e))'
    BY DEF CountInv
  <2>1. Count(events, e) + Owed(e) <= Count(wal, e)
    BY <1>0 DEF CountInv
  <2>2. Owed(e)' <= Owed(e) /\ Owed(e)' \in {0, 1} /\ Owed(e) \in {0, 1}
    BY DEF Owed
  <2>3. Count(wal, e) \in Nat /\ Count(events, e) \in Nat
    BY CountsNat
  <2>4. Count(events, e)' = Count(events, e) /\ Count(wal, e)' = Count(wal, e)
    OBVIOUS
  <2> QED BY <2>1, <2>2, <2>3, <2>4
<1> QED BY <1>1, <1>2, <1>3, <1>4, <1>5 DEF PubInv
\* Records that stay, and an event of an introduced transaction.
LEMMA LogsIssued ==
    ASSUME IssuedInv, ProposedInv, issued' = issued,
           \A i \in DOMAIN wal' : i \in DOMAIN wal /\ wal'[i] = wal[i],
           \A i \in DOMAIN events' : events'[i].tx \in issued,
           DOMAIN txs' \subseteq issued,
           call' # None => call'.rec.tx \in issued
    PROVE  IssuedInv' /\ ProposedInv'
<1>1. IssuedInv'
  BY DEF IssuedInv
<1>2. ProposedInv'
  BY DEF ProposedInv
<1> QED BY <1>1, <1>2

\* The event of a call in progress is of an introduced transaction.
LEMMA EventIssued ==
    ASSUME TypeOK, IssuedInv, call # None,
           events' = events \/ events' = Append(events, StateEvent)
    PROVE  \A i \in DOMAIN events' : events'[i].tx \in issued
<1>1. StateEvent \in StateEvents /\ StateEvent.tx \in issued
  BY CallFields, RecordFacts DEF StateEvent, StateEvents, IssuedInv
<1>2. \A i \in DOMAIN events : events[i].tx \in issued
  BY DEF IssuedInv
<1>3. events \in Seq(StateEvents)
  BY DEF TypeOK, StateEvents
<1>4. PICK x \in StateEvents : x = StateEvent
  BY <1>1
<1>5. CASE events' = Append(events, x)
  BY <1>1, <1>2, <1>3, <1>4, <1>5
<1> QED BY <1>2, <1>4, <1>5

\* A call begins, its write fails, or the process dies while it does.
LEMMA StartsPub ==
    ASSUME Inv, PubInv, NEW rec, Starts(rec)
    PROVE  PubInv'
<1> DEFINE seq == nextSeq + 1
<1>0. /\ TypeOK /\ SeqInv /\ IssuedInv /\ ProposedInv /\ FlowInv
      /\ UnpublishedInv /\ CountInv
  BY DEF Inv, PubInv
<1>1. /\ Serving /\ call = None /\ rec \in WalRecord /\ nextSeq < MaxSeq
      /\ Introduces(rec)
      /\ UNCHANGED <<events>>
      /\ wal' = wal \/ wal' = Put(wal, seq, rec)
      /\ \/ /\ wal' = Put(wal, seq, rec)
            /\ call' = [step |-> "insert", seq |-> seq, rec |-> rec,
                        before |-> IF rec.tx \in DOMAIN txs THEN txs[rec.tx] ELSE None,
                        unbinds |-> FALSE]
            /\ UNCHANGED <<up, safeMode, txs, idem>>
         \/ UNCHANGED <<txs, call, up, safeMode, idem>>
         \/ Die
  BY DEF Starts, PersistTransition, AppendInterrupted
<1>2. seq \notin DOMAIN wal
  BY <1>0, <1>1 DEF SeqInv, TypeOK
<1>3. rec.tx \in issued' /\ issued \subseteq issued'
  BY <1>0, <1>1 DEF Introduces, IssuedInv
<1> HIDE DEF seq
<1>4. \/ /\ DOMAIN wal' = DOMAIN wal \cup {seq} /\ wal'[seq] = rec
         /\ \A i \in DOMAIN wal : wal'[i] = wal[i]
      \/ wal' = wal
  BY <1>1, <1>2 DEF Put
<1>5. /\ DOMAIN txs' \subseteq issued'
      /\ call' # None => /\ call'.rec = rec /\ call'.step = "insert"
                         /\ call'.unbinds = FALSE
  BY <1>0, <1>1, <1>3 DEF Die, Empty, IssuedInv
<1>6. IssuedInv'
  BY <1>0, <1>1, <1>3, <1>4, <1>5 DEF IssuedInv
<1>7. ProposedInv'
  <2>1. rec.state = "Proposed" => rec.key # None /\ \A i \in DOMAIN wal : wal[i].tx # rec.tx
    BY <1>0, <1>1 DEF Introduces, IssuedInv
  <2> QED BY <1>0, <1>4, <2>1 DEF ProposedInv
<1>8. FlowInv'
  BY <1>5 DEF FlowInv
<1>9. Serving' => idem' = idem
  BY <1>1 DEF Die, Serving
<1>10. UnpublishedInv'
  <2>1. rec.state = "Proposed" => \A j \in DOMAIN events : events[j].tx # rec.tx
    BY <1>0, <1>1 DEF Introduces, IssuedInv
  <2>2. CASE wal' = wal
    BY <1>0, <1>1, <1>9, <2>2 DEF UnpublishedInv
  <2>3. CASE /\ DOMAIN wal' = DOMAIN wal \cup {seq} /\ wal'[seq] = rec
             /\ \A i \in DOMAIN wal : wal'[i] = wal[i]
    <3> SUFFICES ASSUME Serving', NEW i \in DOMAIN wal', NEW j \in DOMAIN events,
                        wal'[i].state = "Proposed", BindingKey(wal'[i]) \notin DOMAIN idem'
                 PROVE  ~(events[j].tx = wal'[i].tx /\ events[j].state = "Proposed")
      BY <1>1 DEF UnpublishedInv
    <3>1. CASE i = seq
      BY <2>1, <2>3, <3>1
    <3>2. CASE i \in DOMAIN wal
      BY <1>0, <1>1, <1>9, <2>3, <3>2 DEF UnpublishedInv
    <3> QED BY <2>3, <3>1, <3>2
  <2> QED BY <1>4, <2>2, <2>3
<1>11. CountInv'
  <2> SUFFICES ASSUME Serving', NEW e \in StateEvents
               PROVE  (Count(events, e) + Owed(e) <= Count(wal, e))'
    BY DEF CountInv
  <2>1. Count(events, e) + Owed(e) <= Count(wal, e)
    BY <1>0, <1>1 DEF CountInv
  <2>2. Count(wal, e) \in Nat /\ Count(events, e) \in Nat /\ IsFiniteSet(DOMAIN wal)
    BY <1>0, CountsNat, LogsFinite
  <2>3. Owed(e) = 0
    BY <1>1 DEF Owed
  <2>4. Count(events, e)' = Count(events, e)
    BY <1>1
  <2>5. CASE call' = None
    <3>1. Owed(e)' = 0
      BY <2>5 DEF Owed
    <3>2. Count(wal, e)' \in Nat /\ Count(wal, e)' >= Count(wal, e)
      <4>1. CASE wal' = wal
        BY <2>2, <4>1
      <4>2. CASE wal' = Put(wal, seq, rec)
        BY <1>0, <1>2, <2>2, <4>2, CountRecord
      <4> QED BY <1>1, <4>1, <4>2
    <3> QED BY <2>1, <2>2, <2>3, <2>4, <3>1, <3>2
  <2>6. CASE call' # None
    <3>1. wal' = Put(wal, seq, rec) /\ call'.rec = rec
      BY <1>1, <2>6 DEF Die
    <3>2. Count(wal', e) = Count(wal, e) + (IF Shows(rec, e) THEN 1 ELSE 0)
      BY <1>0, <1>2, <3>1, CountRecord
    <3>3. Owed(e)' = IF Shows(rec, e) THEN 1 ELSE 0
      BY <1>1, <2>6, <3>1 DEF Owed, Owing, Die
    <3> QED BY <2>1, <2>2, <2>3, <2>4, <3>2, <3>3
  <2> QED BY <2>5, <2>6
<1> QED BY <1>6, <1>7, <1>8, <1>10, <1>11 DEF PubInv
\* An answer from the index, the start of a repair, and the outside.
LEMMA OutsidePub ==
    ASSUME Inv, PubInv,
           \/ \E k : AnswersAgain(k)
           \/ \E i : Repairs(i)
           \/ BaseMoves \/ WalDamaged \/ UNCHANGED vars
    PROVE  PubInv'
<1>0. TypeOK /\ IssuedInv /\ FlowInv
  BY DEF Inv, PubInv
<1>1. /\ UNCHANGED <<wal, events, issued, txs, idem, up, safeMode>>
      /\ \/ call' = call
         \/ \E i \in DOMAIN wal :
               call' = [step |-> "repair_record", seq |-> i, rec |-> wal[i],
                        before |-> None, unbinds |-> FALSE]
  BY DEF AnswersAgain, Repairs, BaseMoves, WalDamaged, vars, stores, memory, outside
<1>2. Serving' = Serving
  BY <1>1 DEF Serving
<1>3. CASE call' = call
  BY <1>0, <1>1, <1>2, <1>3, QuietStep DEF IssuedInv, FlowInv
<1>4. ASSUME NEW i \in DOMAIN wal,
             call' = [step |-> "repair_record", seq |-> i, rec |-> wal[i],
                      before |-> None, unbinds |-> FALSE]
      PROVE  PubInv'
  <2>1. /\ call'.rec = wal[i] /\ call'.step = "repair_record" /\ call'.unbinds = FALSE
        /\ call'.step \notin Owing
    BY <1>4 DEF Owing
  <2>2. call'.rec.tx \in issued /\ DOMAIN txs' \subseteq issued
    BY <1>0, <1>1, <2>1 DEF IssuedInv
  <2> QED BY <1>0, <1>1, <1>2, <2>1, <2>2, QuietStep
<1> QED BY <1>1, <1>3, <1>4

\* A call goes on without touching either log, and owes no more than before.
LEMMA QuietCall ==
    ASSUME Inv, PubInv, call # None, UNCHANGED <<wal, events, issued>>,
           \/ call' = None
           \/ \E step \in Steps : /\ GoTo(step)
                                  /\ step \in Owing => call.step \in Owing
                                  /\ step \notin {"unbind", "refusal_event"},
           DOMAIN txs' \subseteq DOMAIN txs \cup {call.rec.tx},
           DOMAIN idem \subseteq DOMAIN idem',
           up' = up, safeMode => safeMode'
    PROVE  PubInv'
<1>0. TypeOK /\ IssuedInv /\ FlowInv
  BY DEF Inv, PubInv
<1>1. /\ call.rec.tx \in issued /\ DOMAIN txs' \subseteq issued
      /\ Serving' => Serving
  BY <1>0 DEF IssuedInv, Serving
<1>2. call' # None =>
        /\ call'.rec = call.rec /\ call'.unbinds = call.unbinds
        /\ call'.step \notin {"unbind", "refusal_event"}
        /\ call'.step \in Owing => call.step \in Owing
  BY <1>0, GoToStep
<1> QED BY <1>0, <1>1, <1>2, QuietStep DEF FlowInv

\* The snapshot of a call; a refusal is published next.
LEMMA InsertSnapshotPub == ASSUME Inv, PubInv, InsertSnapshot PROVE PubInv'
<1>0. TypeOK /\ IssuedInv /\ FlowInv
  BY DEF Inv, PubInv
<1>1. /\ call # None /\ call.step = "insert" /\ GoTo(AfterInsert(call.rec))
      /\ UNCHANGED <<wal, events, issued, up, safeMode, idem>>
      /\ DOMAIN txs' = DOMAIN txs \cup {call.rec.tx}
  BY DEF InsertSnapshot, At, stores, outside, Put
<1>2. /\ AfterInsert(call.rec) \in Steps /\ AfterInsert(call.rec) # "unbind"
      /\ AfterInsert(call.rec) = "refusal_event" => call.rec.state # "Proposed"
  BY DEF AfterInsert, Steps
<1>3. call'.rec = call.rec /\ call'.unbinds = call.unbinds /\ call'.step = AfterInsert(call.rec)
  BY <1>0, <1>1, <1>2, GoToStep
<1>4. call.rec.tx \in issued /\ DOMAIN txs' \subseteq issued
  BY <1>0, <1>1 DEF IssuedInv
<1>5. Serving' = Serving
  BY <1>1 DEF Serving
<1>6. call' # None /\ (call'.unbinds \/ call'.step = "unbind") => safeMode'
  BY <1>0, <1>1, <1>2, <1>3 DEF FlowInv
<1> QED BY <1>0, <1>1, <1>2, <1>3, <1>4, <1>5, <1>6, QuietStep DEF Owing

\* The binding of a proposal or an apply, and of a refusal.
LEMMA BindingPub ==
    ASSUME Inv, PubInv, RecordIdempotency \/ RecordRefusal
    PROVE  PubInv'
<1>1. /\ call # None /\ UNCHANGED <<wal, events, issued, up, safeMode, txs>>
      /\ \/ call' = None
         \/ At("record") /\ (GoTo("event") \/ GoTo("revert"))
  BY DEF RecordIdempotency, RecordRefusal, At, Return, outside
<1>2. DOMAIN idem \subseteq DOMAIN idem'
  BY DEF RecordIdempotency, RecordRefusal, InsertOk, InsertFails, Put
<1> QED BY <1>1, <1>2, QuietCall DEF At, Steps, Owing

\* A repair binds the key again; its proposal has no event yet.
LEMMA RepairRecordPub == ASSUME Inv, PubInv, RepairRecord PROVE PubInv'
<1>0. /\ TypeOK /\ CallInv /\ IssuedInv /\ ProposedInv /\ FlowInv
      /\ UnpublishedInv /\ CountInv
  BY DEF Inv, PubInv
<1>1. /\ call # None /\ call.step = "repair_record"
      /\ UNCHANGED <<wal, events, issued, up, safeMode, txs>>
      /\ call' = None \/ (call.rec.state = "Proposed" /\ GoTo("repair_event"))
  BY DEF RepairRecord, At, Return
<1>2. DOMAIN idem \subseteq DOMAIN idem'
  BY DEF RepairRecord, InsertOk, InsertFails, Put
<1>3. CASE call' = None
  BY <1>1, <1>2, <1>3, QuietCall
<1>4. CASE call.rec.state = "Proposed" /\ GoTo("repair_event")
  <2>1. /\ call' # None /\ call'.rec = call.rec /\ call'.step = "repair_event"
        /\ call'.unbinds = call.unbinds
    BY <1>0, <1>1, <1>4, GoToStep DEF Steps
  <2>2. IssuedInv' /\ ProposedInv'
    BY <1>0, <1>1, <2>1, LogsIssued DEF IssuedInv
  <2>3. FlowInv'
    BY <1>0, <1>1, <2>1 DEF FlowInv
  <2>4. Serving' = Serving
    BY <1>1 DEF Serving
  <2>5. UnpublishedInv'
    BY <1>0, <1>1, <1>2, <2>4 DEF UnpublishedInv
  <2>6. CountInv'
    <3> SUFFICES ASSUME Serving', NEW e \in StateEvents
                 PROVE  (Count(events, e) + Owed(e) <= Count(wal, e))'
      BY DEF CountInv
    <3>1. Count(events, e) + Owed(e) <= Count(wal, e)
      BY <1>0, <2>4 DEF CountInv
    <3>2. /\ Count(wal, e) \in Nat /\ Count(events, e) \in Nat
          /\ Count(wal, e)' = Count(wal, e) /\ Count(events, e)' = Count(events, e)
      BY <1>0, <1>1, CountsNat
    <3>3. Owed(e) = 0
      BY <1>1 DEF Owed, Owing
    <3>4. CASE ~Shows(call.rec, e)
      <4>1. Owed(e)' = 0
        BY <2>1, <3>4 DEF Owed
      <4> QED BY <3>1, <3>2, <3>3, <4>1
    <3>5. CASE Shows(call.rec, e)
      <4>1. /\ call.seq \in DOMAIN wal /\ wal[call.seq] = call.rec
            /\ BindingKey(call.rec) \notin DOMAIN idem
        BY <1>0, <1>1 DEF CallInv
      <4>2. \A j \in DOMAIN events : ~Shows(events[j], e)
        BY <1>0, <1>4, <2>4, <3>5, <4>1 DEF UnpublishedInv, Shows
      <4>3. Showing(events, e) = {}
        BY <4>2 DEF Showing
      <4>4. Count(events, e) = 0
        BY <4>3, FS_EmptySet DEF Count, Showing, Shows
      <4>5. Showing(wal, e) # {} /\ IsFiniteSet(Showing(wal, e))
        BY <1>0, <3>5, <4>1, LogsFinite, FS_Subset DEF Showing
      <4>6. Count(wal, e) # 0
        BY <4>5, FS_EmptySet DEF Count, Showing, Shows
      <4>7. Owed(e)' \in {0, 1}
        BY DEF Owed
      <4> QED BY <3>2, <4>4, <4>6, <4>7
    <3> QED BY <3>4, <3>5
  <2> QED BY <2>2, <2>3, <2>5, <2>6 DEF PubInv
<1> QED BY <1>1, <1>3, <1>4
\* The event of a call: it was owed.  A failed append enters safe mode.
LEMMA AppendStateEventPub == ASSUME Inv, PubInv, AppendStateEvent PROVE PubInv'
<1>0. /\ TypeOK /\ CallInv /\ IssuedInv /\ ProposedInv /\ FlowInv
      /\ UnpublishedInv /\ CountInv
  BY DEF Inv, PubInv
<1>1. /\ call # None /\ call.step \in {"event", "refusal_event", "repair_event"}
      /\ UNCHANGED <<wal, issued, up, txs, idem>>
      /\ events' = events \/ events' = Append(events, StateEvent)
  BY DEF AppendStateEvent, At, AppendOk, AppendFails
<1>2. /\ StateEvent \in StateEvents /\ StateEvent.tx = call.rec.tx
      /\ StateEvent.state = call.rec.state
  BY <1>0, <1>1, CallFields, RecordFacts DEF StateEvent, StateEvents
<1>3. /\ \A i \in DOMAIN events' : events'[i].tx \in issued
      /\ \A i \in DOMAIN wal' : i \in DOMAIN wal /\ wal'[i] = wal[i]
      /\ DOMAIN txs' \subseteq issued /\ call.rec.tx \in issued
  BY <1>0, <1>1, EventIssued DEF IssuedInv
<1>4. CASE safeMode'
  <2>1. call' = None \/ (call'.rec = call.rec /\ call'.step # "refusal_event")
    <3>1. \/ call' = None \/ GoTo("refusal_record")
          \/ call' = [call EXCEPT !.step = "revert",
                         !.unbinds = At("event") /\ call.rec.key # None]
      BY DEF AppendStateEvent, Return
    <3>2. GoTo("refusal_record") => call'.rec = call.rec /\ call'.step = "refusal_record"
      BY <1>0, <1>1, GoToStep DEF Steps
    <3>3. (At("event") /\ call.rec.key # None) \in BOOLEAN /\ "revert" \in Steps
      BY DEF Steps
    <3>4. call' = [call EXCEPT !.step = "revert",
                     !.unbinds = At("event") /\ call.rec.key # None]
          => call'.rec = call.rec /\ call'.step = "revert"
      BY <1>0, <1>1, <3>3, GoToFacts
    <3> QED BY <3>1, <3>2, <3>4
  <2>2. IssuedInv' /\ ProposedInv'
    BY <1>0, <1>1, <1>3, <2>1, LogsIssued
  <2> QED BY <1>4, <2>1, <2>2 DEF PubInv, FlowInv, UnpublishedInv, CountInv, Serving
<1>5. CASE ~safeMode'
  <2>1. /\ events' = Append(events, StateEvent) /\ safeMode' = safeMode
        /\ call' = None \/ GoTo("refusal_record")
    BY <1>0, <1>5 DEF AppendStateEvent, AppendOk, Return
  <2>2. call' # None => /\ call'.rec = call.rec /\ call'.step = "refusal_record"
                        /\ call'.unbinds = call.unbinds
    BY <1>0, <1>1, <2>1, GoToStep DEF Steps
  <2>3. IssuedInv' /\ ProposedInv'
    BY <1>0, <1>1, <1>3, <2>2, LogsIssued
  <2>4. FlowInv'
    BY <1>0, <1>1, <2>1, <2>2 DEF FlowInv
  <2>5. Serving' = Serving
    BY <1>1, <2>1 DEF Serving
  <2>6. PICK x \in StateEvents : x = StateEvent
    BY <1>2
  <2>7. \A j \in DOMAIN events' : events'[j] = x \/ (j \in DOMAIN events /\ events'[j] = events[j])
    <3>1. events \in Seq(StateEvents) /\ events' = Append(events, x)
      BY <1>0, <2>1, <2>6 DEF TypeOK, StateEvents
    <3> QED BY <3>1
  <2>8. UnpublishedInv'
    <3> SUFFICES ASSUME Serving', NEW i \in DOMAIN wal, NEW j \in DOMAIN events',
                        wal[i].state = "Proposed", BindingKey(wal[i]) \notin DOMAIN idem
                 PROVE  ~(events'[j].tx = wal[i].tx /\ events'[j].state = "Proposed")
      BY <1>1 DEF UnpublishedInv
    <3>1. CASE events'[j] = x
      <4> SUFFICES ASSUME x.tx = wal[i].tx, x.state = "Proposed" PROVE FALSE
        BY <3>1
      <4>1. call.seq \in DOMAIN wal /\ wal[call.seq] = call.rec
        BY <1>0, <1>1 DEF CallInv
      <4>2. i = call.seq
        BY <1>0, <1>2, <2>6, <4>1 DEF ProposedInv
      <4>3. call.rec.key # None
        BY <1>0, <4>1, <4>2 DEF ProposedInv
      <4>4. call.step # "refusal_event"
        <5>1. call.step = "refusal_event" => call.rec.state # "Proposed"
          BY <1>0, <1>1, <2>5 DEF FlowInv
        <5> QED BY <1>2, <2>6, <5>1
      <4>5. BindingKey(call.rec) \in DOMAIN idem
        BY <1>0, <1>1, <4>3, <4>4 DEF CallInv
      <4> QED BY <4>1, <4>2, <4>5
    <3>2. CASE j \in DOMAIN events /\ events'[j] = events[j]
      BY <1>0, <2>5, <3>2 DEF UnpublishedInv
    <3> QED BY <2>7, <3>1, <3>2
  <2>9. CountInv'
    <3> SUFFICES ASSUME Serving', NEW e \in StateEvents
                 PROVE  (Count(events, e) + Owed(e) <= Count(wal, e))'
      BY DEF CountInv
    <3>1. Count(events, e) + Owed(e) <= Count(wal, e)
      BY <1>0, <2>5 DEF CountInv
    <3>2. /\ Count(wal, e) \in Nat /\ Count(events, e) \in Nat
          /\ Count(wal, e)' = Count(wal, e)
      BY <1>0, <1>1, CountsNat
    <3>3. Count(events', e) = Count(events, e) + (IF Shows(x, e) THEN 1 ELSE 0)
      BY <1>0, <2>1, <2>6, CountEvent
    <3>4. Owed(e) = IF Shows(x, e) THEN 1 ELSE 0
      BY <1>1, <1>2, <2>6 DEF Owed, Owing, Shows
    <3>5. Owed(e)' = 0
      BY <2>2 DEF Owed, Owing
    <3> QED BY <3>1, <3>2, <3>3, <3>4, <3>5
  <2> QED BY <2>3, <2>4, <2>8, <2>9 DEF PubInv
<1> QED BY <1>4, <1>5
\* A rollback takes a record away that still owed its event.
LEMMA RevertWalPub == ASSUME Inv, PubInv, RevertWal PROVE PubInv'
<1>0. /\ TypeOK /\ CallInv /\ IssuedInv /\ ProposedInv /\ FlowInv
      /\ UnpublishedInv /\ CountInv
  BY DEF Inv, PubInv
<1>1. /\ call # None /\ call.step = "revert"
      /\ UNCHANGED <<events, issued, up, safeMode, txs, idem>>
      /\ wal' = wal \/ wal' = Without(wal, call.seq)
      /\ call' = None \/ GoTo("unwind")
  BY DEF RevertWal, At, Return, outside
<1>2. call.seq \in DOMAIN wal /\ wal[call.seq] = call.rec
  BY <1>0, <1>1 DEF CallInv
<1>3. call' # None => /\ call'.rec = call.rec /\ call'.step = "unwind"
                      /\ call'.unbinds = call.unbinds
  BY <1>0, <1>1, GoToStep DEF Steps
<1>4. \A i \in DOMAIN wal' : i \in DOMAIN wal /\ wal'[i] = wal[i]
  BY <1>1 DEF Without, Restrict
<1>5. IssuedInv' /\ ProposedInv'
  BY <1>0, <1>1, <1>3, <1>4, LogsIssued DEF IssuedInv
<1>6. FlowInv'
  BY <1>0, <1>1, <1>3 DEF FlowInv
<1>7. Serving' = Serving
  BY <1>1 DEF Serving
<1>8. UnpublishedInv'
  BY <1>0, <1>1, <1>4, <1>7 DEF UnpublishedInv
<1>9. CountInv'
  <2> SUFFICES ASSUME Serving', NEW e \in StateEvents
               PROVE  (Count(events, e) + Owed(e) <= Count(wal, e))'
    BY DEF CountInv
  <2>1. Count(events, e) + Owed(e) <= Count(wal, e)
    BY <1>0, <1>7 DEF CountInv
  <2>2. /\ Count(wal, e) \in Nat /\ Count(events, e) \in Nat
        /\ Count(events, e)' = Count(events, e)
    BY <1>0, <1>1, CountsNat
  <2>3. Owed(e)' = 0 /\ Owed(e) = IF Shows(call.rec, e) THEN 1 ELSE 0
    BY <1>1, <1>3 DEF Owed, Owing
  <2>4. CASE wal' = wal
    BY <2>1, <2>2, <2>3, <2>4
  <2>5. CASE wal' = Without(wal, call.seq)
    <3>1. Count(wal, e) = Count(wal', e) + (IF Shows(wal[call.seq], e) THEN 1 ELSE 0)
      BY <1>0, <1>2, <2>5, CountWithout
    <3>2. Count(wal', e) \in Nat
      <4>1. DOMAIN wal' \subseteq DOMAIN wal
        BY <1>4
      <4>2. IsFiniteSet(DOMAIN wal')
        BY <1>0, <4>1, LogsFinite, FS_Subset
      <4> QED BY <4>2, CountNat
    <3> QED BY <1>2, <2>1, <2>2, <2>3, <3>1, <3>2
  <2> QED BY <1>1, <2>4, <2>5
<1> QED BY <1>5, <1>6, <1>8, <1>9 DEF PubInv

\* The rest of a rollback.
LEMMA UnwindPub == ASSUME Inv, PubInv, Unwind \/ Unbind PROVE PubInv'
<1>0. TypeOK /\ IssuedInv /\ FlowInv
  BY DEF Inv, PubInv
<1>1. /\ call # None /\ UNCHANGED <<wal, events, issued, up>>
      /\ safeMode => safeMode'
      /\ DOMAIN txs' \subseteq DOMAIN txs \cup {call.rec.tx}
      /\ \/ call' = None \/ (call.unbinds /\ GoTo("unbind"))
  BY DEF Unwind, Unbind, At, Return, stores, outside, Put, Without, Restrict
<1>2. call' # None => /\ call'.rec = call.rec /\ call'.step = "unbind"
                      /\ call.unbinds
  BY <1>0, <1>1, GoToStep DEF Steps
<1>3. Serving' => Serving /\ DOMAIN idem \subseteq DOMAIN idem'
  BY <1>0, <1>1 DEF Unwind, Unbind, At, Serving, FlowInv
<1>4. /\ DOMAIN txs' \subseteq issued
      /\ call' # None => call'.rec.tx \in issued /\ call'.step \notin Owing /\ safeMode'
      /\ call' # None => call'.step # "refusal_event"
  BY <1>0, <1>1, <1>2 DEF IssuedInv, FlowInv, Owing
<1> QED BY <1>0, <1>1, <1>3, <1>4, QuietStep

\* A death leaves the stores as a write in progress left them.
LEMMA CrashPub == ASSUME Inv, PubInv, Crash PROVE PubInv'
<1>0. TypeOK /\ IssuedInv /\ ProposedInv
  BY DEF Inv, PubInv
<1>1. /\ ~up' /\ call' = None /\ DOMAIN txs' = {} /\ issued' = issued
      /\ \A i \in DOMAIN wal' : i \in DOMAIN wal /\ wal'[i] = wal[i]
      /\ \/ events' = events
         \/ call # None /\ events' = Append(events, StateEvent)
  BY DEF Crash, Die, Empty, stores, outside, At, AppendFails, Without, Restrict
<1>2. \A i \in DOMAIN events' : events'[i].tx \in issued
  <2>1. CASE events' = events
    BY <1>0, <2>1 DEF IssuedInv
  <2>2. CASE call # None /\ events' = Append(events, StateEvent)
    BY <1>0, <2>2, EventIssued
  <2> QED BY <1>1, <2>1, <2>2
<1>3. IssuedInv' /\ ProposedInv'
  BY <1>0, <1>1, <1>2, LogsIssued
<1> QED BY <1>1, <1>3 DEF PubInv, FlowInv, UnpublishedInv, CountInv, Serving

\* A restart serves only if the events are behind the WAL, and binds every
\* key that the WAL has.
LEMMA OpenPub == ASSUME Inv, PubInv, Open PROVE PubInv'
<1>0. TypeOK /\ SeqInv /\ IssuedInv /\ ProposedInv
  BY DEF Inv, PubInv
<1>1. /\ UNCHANGED <<wal, events, issued>> /\ call' = None
      /\ safeMode' = OpensInSafeMode
      /\ txs' = IF OpensInSafeMode THEN Empty ELSE RebuildTxs(wal)
      /\ idem' = IF RecoverOk THEN MergeFromWal(idemFiles, wal) ELSE idemFiles
  BY <1>0 DEF Open, stores, outside, SeqInv
<1>2. DOMAIN txs' \subseteq issued
  BY <1>0, <1>1 DEF RebuildTxs, Empty, IssuedInv
<1>3. IssuedInv' /\ ProposedInv'
  BY <1>0, <1>1, <1>2, LogsIssued DEF IssuedInv
<1>4. FlowInv'
  BY <1>1 DEF FlowInv
<1>5. Serving' => RecoverOk /\ ValidateEventsAgainstWal(wal, events)
  BY <1>1 DEF Serving, OpensInSafeMode
<1>6. UnpublishedInv'
  <2> SUFFICES ASSUME Serving', NEW i \in DOMAIN wal, wal[i].state = "Proposed"
               PROVE  BindingKey(wal[i]) \in DOMAIN idem'
    BY <1>1 DEF UnpublishedInv
  <2>1. PICK m : m = MergeFromWal(idemFiles, wal)
    OBVIOUS
  <2>2. wal[i].key # None
    BY <1>0 DEF ProposedInv
  <2>3. BindingKey(wal[i]) \in DOMAIN m
    BY <1>0, <2>1, <2>2, Merged
  <2> QED BY <1>1, <1>5, <2>1, <2>3
<1>7. CountInv'
  <2> SUFFICES ASSUME Serving', NEW e \in StateEvents
               PROVE  (Count(events, e) + Owed(e) <= Count(wal, e))'
    BY DEF CountInv
  <2>1. Count(events, e) <= Count(wal, e)
    BY <1>0, <1>5, LogsFinite, PrefixCounts
  <2>2. Owed(e)' = 0
    BY <1>1 DEF Owed
  <2>3. /\ Count(wal, e) \in Nat /\ Count(events, e) \in Nat
        /\ Count(wal, e)' = Count(wal, e) /\ Count(events, e)' = Count(events, e)
    BY <1>0, <1>1, CountsNat
  <2> QED BY <2>1, <2>2, <2>3
<1> QED BY <1>3, <1>4, <1>6, <1>7 DEF PubInv

\* Every step keeps it.
LEMMA NextPub == Inv /\ PubInv /\ [Next]_vars => PubInv'
<1> SUFFICES ASSUME Inv, PubInv, [Next]_vars PROVE PubInv'
  OBVIOUS
<1>1. CASE Request
  <2>1. TypeOK
    BY DEF Inv
  <2> QED BY <1>1, <2>1, RequestCases, StartsPub, OutsidePub
<1>2. CASE CallStep
  BY <1>2, InsertSnapshotPub, BindingPub, RepairRecordPub, AppendStateEventPub, RevertWalPub, UnwindPub
     DEF CallStep
<1>3. CASE Open \/ Crash
  BY <1>3, OpenPub, CrashPub
<1>4. CASE BaseMoves \/ WalDamaged \/ UNCHANGED vars
  BY <1>4, OutsidePub
<1> QED BY <1>1, <1>2, <1>3, <1>4 DEF Next

\* Nothing is recorded or published at first.
LEMMA InitPub == Init => PubInv
<1> SUFFICES ASSUME Init PROVE PubInv
  OBVIOUS
<1>1. /\ DOMAIN wal = {} /\ DOMAIN events = {} /\ DOMAIN txs = {} /\ call = None /\ ~up
  BY DEF Init, Empty
<1> QED BY <1>1 DEF PubInv, IssuedInv, ProposedInv, FlowInv, UnpublishedInv, CountInv, Serving

\* While the engine serves, no state was published more often than it was
\* recorded, through failed bindings, repairs, rollbacks, torn appends and
\* restarts. (broker/src/transaction/engine.rs append_state_event,
\* recovery.rs validate_tx_state_events_against_wal)
THEOREM EventsStayBehind == Spec => []EventsBehindWal
<1>1. Inv /\ PubInv => EventsBehindWal
  <2> SUFFICES ASSUME Inv, PubInv, Serving, NEW i \in DOMAIN events
               PROVE  Count(events, events[i]) <= Count(wal, events[i])
    BY DEF EventsBehindWal
  <2>1. TypeOK /\ CountInv
    BY DEF Inv, PubInv
  <2>0. events \in Seq(StateEvents)
    BY <2>1 DEF TypeOK, StateEvents
  <2>2. PICK e \in StateEvents : e = events[i]
    BY <2>0
  <2>3. Count(events, e) + Owed(e) <= Count(wal, e) /\ Owed(e) \in {0, 1}
    BY <2>1 DEF CountInv, Owed
  <2>4. Count(wal, e) \in Nat /\ Count(events, e) \in Nat
    BY <2>1, CountsNat
  <2> QED BY <2>2, <2>3, <2>4
<1> QED BY <1>1, InitPub, NextPub, Invariance, PTL DEF Spec
=============================================================================
