------------------------------ MODULE StoreProofs ------------------------------
(***************************************************************************)
(* Proofs about what processes share through files alone. The NEB          *)
(* checkpoint store implements DurableLatest for any number of writers,    *)
(* faults and losses of power; in a NEB run directory no false success is  *)
(* read, nothing computed is lost and artifacts.json follows the attempt   *)
(* at work, for any number of attempts; no analysis returns a success that *)
(* a later failure has outdated; and the displacements an analysis reads   *)
(* off a trajectory are those of the atoms.                                *)
(***************************************************************************)
EXTENDS CheckpointStore, NebRun, AnalysisStore, TrajectoryData,
        SequenceTheorems, WellFoundedInduction, TLAPS

-------------------------------------------------------------------------------
(* Numbers *)

\* A set of numbers that is not empty has a least one.
LEMMA LeastNumber ==
    ASSUME NEW T \in SUBSET Nat, T # {}
    PROVE  \E x \in T : \A y \in T : x <= y
<1> DEFINE R == {ss \in Nat \X Nat : ss[1] < ss[2]}
<1>1. IsWellFoundedOn(R, Nat)
  BY NatLessThanWellFounded DEF OpToRel
<1>2. PICK x \in T : \A y \in T : ~ (<<y, x>> \in R)
  <2> HIDE DEF R
  <2> QED BY <1>1, WFMin
<1>3. ASSUME NEW y \in T PROVE x <= y
  <2>1. ASSUME y < x PROVE FALSE
    <3>1. <<y, x>> \in R
      BY <2>1
    <3> HIDE DEF R
    <3> QED BY <1>2, <3>1
  <2>2. x \in Nat /\ y \in Nat
    OBVIOUS
  <2> HIDE DEF R
  <2> QED BY <2>1, <2>2
<1> QED BY <1>3

\* A bounded set that is not empty has a greatest number, and Max returns it.
LEMMA GreatestNumber ==
    ASSUME NEW n \in Nat, NEW S \in SUBSET (0..n), S # {}
    PROVE  Max(S) \in S /\ \A y \in S : y <= Max(S)
<1> DEFINE T == {n - y : y \in S}
<1>1. T \in SUBSET Nat /\ T # {}
  <2>1. \A y \in S : n - y \in Nat
    OBVIOUS
  <2> QED BY <2>1
<1>2. PICK t \in T : \A u \in T : t <= u
  <2> HIDE DEF T
  <2> QED BY <1>1, LeastNumber
<1>3. PICK x \in S : t = n - x
  OBVIOUS
<1>4. \A y \in S : x >= y
  <2> SUFFICES ASSUME NEW y \in S PROVE x >= y
    OBVIOUS
  <2>1. n - y \in T
    OBVIOUS
  <2>2. n - x <= n - y
    BY <1>2, <1>3, <2>1
  <2> QED BY <2>2
<1>5. \E m \in S : \A y \in S : m >= y
  BY <1>4
<1>6. Max(S) \in S /\ \A y \in S : Max(S) >= y
  BY <1>5 DEF Max
<1> QED BY <1>6

\* Of two numbers it returns the greater.
LEMMA GreaterOfTwo ==
    ASSUME NEW a \in Nat, NEW b \in Nat
    PROVE  Max({a, b}) = IF a >= b THEN a ELSE b
<1>1. {a, b} \in SUBSET (0..(a + b)) /\ {a, b} # {}
  OBVIOUS
<1>2. Max({a, b}) \in {a, b} /\ \A y \in {a, b} : y <= Max({a, b})
  BY <1>1, GreatestNumber
<1> QED BY <1>2

-------------------------------------------------------------------------------
(* CheckpointStore: the invariant *)

\* What a writer remembers.
WriterRecord ==
    [pc : Pcs, next : Nat \ {0}, seq : 0..MaxWrites, id : 0..MaxWrites, synced : SUBSET Parts]

CheckpointTypes == CheckpointTypeOK /\ writer \in [Writers -> WriterRecord]

\* A checkpoint that no loss of power takes away or tears.
Safe(n) ==
    n \in durable /\ step[n].id # 0 /\ step[n].whole /\ step[n].synced = Parts

\* What latest names, and what it names on the disk, is safe; what was announced
\* is not ahead of either, and nothing is announced in a directory that may go.
LinksSafe ==
    /\ durable \subseteq Present
    /\ latestLink # 0 => Safe(latestLink)
    /\ latestDur # 0 => Safe(latestDur)
    /\ announced <= latestDur /\ latestDur <= latestLink
    /\ ~rootDur => announced = 0

\* Numbers are given out after those that are there, and not faster than calls.
NumbersOrdered ==
    /\ \A n \in Present : n <= writes
    /\ \A w \in Writers : writer[w].next <= writes + 1
    /\ (\E w \in Writers : WriterAt(w, "choose")) =>
          /\ \A n \in Present : n < writes
          /\ \A v \in Writers : writer[v].next <= writes

\* How far a write with the record r is; the checkpoint of a writer that is
\* through is on the disk.
FarAs(r) ==
    /\ r.pc \in {"band", "metadata", "rename"} =>
          r.seq \in 1..writes /\ r.id # 0 /\ \A m \in Present : m < r.seq
    /\ r.pc = "metadata" => "band" \in r.synced
    /\ r.pc = "rename" => r.synced = Parts
    /\ r.pc \in {"syncStep", "link"} =>
          /\ r.seq \in Present /\ step[r.seq].whole /\ step[r.seq].synced = Parts
          /\ latestLink < r.seq
    /\ r.pc = "link" => r.seq \in durable
    /\ r.pc = "syncLatest" => latestLink = r.seq
    /\ r.pc = "written" => r.seq <= latestDur

WriteUnderWay == \A w \in Writers : FarAs(writer[w])

CheckpointInv == CheckpointTypes /\ LinksSafe /\ NumbersOrdered /\ WriteUnderWay

-------------------------------------------------------------------------------
(* Every step keeps the invariant *)

\* LastStep is the number of the last directory.
LEMMA LastStepIsLast ==
    ASSUME CheckpointTypes
    PROVE  /\ LastStep \in Nat /\ LastStep \in {0} \cup Present
           /\ \A m \in Present : m <= LastStep
<1> USE StoreAssumption
<1>1. CASE Present = {}
  BY <1>1 DEF LastStep
<1>2. CASE Present # {}
  <2>1. Present \in SUBSET (0..MaxWrites)
    BY DEF Present, Steps
  <2>2. LastStep = Max(Present)
    BY <1>2 DEF LastStep
  <2>3. LastStep \in Present /\ \A m \in Present : m <= LastStep
    BY <1>2, <2>1, <2>2, GreatestNumber
  <2> QED BY <2>1, <2>3
<1> QED BY <1>1, <1>2

\* A writer that is inside write holds the lock.
LEMMA OneInside ==
    ASSUME CheckpointTypes, NEW w \in Writers, lock \in {0, w}
    PROVE  \A v \in Writers \ {w} : writer[v].pc \in {"closed", "open", "written", "refused"}
BY StoreAssumption DEF CheckpointTypes, CheckpointTypeOK, Pcs, InWrite

\* A step of the writer w that leaves it with the record r.
Becomes(w, r) ==
    /\ w \in Writers /\ r \in WriterRecord /\ writer' = [writer EXCEPT ![w] = r]
    /\ lock' = IF r.pc \in InWrite THEN w ELSE IF lock = w THEN 0 ELSE lock
    /\ r.pc \in InWrite => lock \in {0, w}
    /\ fails' \in 0..MaxFails /\ kills' \in 0..MaxKills /\ UNCHANGED losses

\* What such a step keeps of the types and of the lock.
LEMMA BecomesTypes ==
    ASSUME CheckpointTypes, NEW w, NEW r, Becomes(w, r)
    PROVE  /\ writer' \in [Writers -> WriterRecord] /\ writer'[w] = r
           /\ \A v \in Writers \ {w} : writer'[v] = writer[v]
           /\ lock' \in {0} \cup Writers
           /\ \A v \in Writers :
                 /\ writer'[v].pc \in Pcs /\ writer'[v].next \in Nat \ {0} /\ writer'[v].seq \in 0..MaxWrites
                 /\ writer'[v].pc \in InWrite <=> lock' = v
<1>1. /\ writer' \in [Writers -> WriterRecord] /\ writer'[w] = r
      /\ \A v \in Writers \ {w} : writer'[v] = writer[v]
  BY DEF CheckpointTypes, Becomes
<1>2. \A v \in Writers :
         writer'[v].pc \in Pcs /\ writer'[v].next \in Nat \ {0} /\ writer'[v].seq \in 0..MaxWrites
  BY <1>1 DEF WriterRecord
<1>3. lock' \in {0} \cup Writers
  BY DEF CheckpointTypes, CheckpointTypeOK, Becomes
<1>4. ASSUME NEW v \in Writers PROVE writer'[v].pc \in InWrite <=> lock' = v
  <2>1. CASE v = w
    BY <1>1, <2>1, StoreAssumption DEF CheckpointTypes, CheckpointTypeOK, Becomes
  <2>2. CASE v # w
    <3>1. writer[v].pc \in InWrite <=> lock = v
      BY DEF CheckpointTypes, CheckpointTypeOK
    <3> QED BY <1>1, <2>2, <3>1, StoreAssumption DEF CheckpointTypes, CheckpointTypeOK, Becomes
  <2> QED BY <2>1, <2>2
<1> QED BY <1>1, <1>2, <1>3, <1>4

\* A step that changes a writer and nothing on the disk.
LEMMA QuietStep ==
    ASSUME CheckpointInv, NEW w, NEW r, Becomes(w, r), UNCHANGED disk,
           \/ r.pc # "choose" /\ UNCHANGED writes
           \/ r.pc = "choose" /\ lock = 0 /\ writes' = writes + 1 /\ writes < MaxWrites,
           r.next <= writes + 1,
           (\E v \in Writers \ {w} : WriterAt(v, "choose")) => r.next <= writes,
           r.pc \in {"syncStep", "link", "syncLatest", "written"} => FALSE,
           r.pc \in {"band", "metadata", "rename"} =>
                r.seq \in 1..writes /\ r.id # 0 /\ \A m \in Present : m < r.seq,
           r.pc = "metadata" => "band" \in r.synced,
           r.pc = "rename" => r.synced = Parts
    PROVE  CheckpointInv'
<1> USE StoreAssumption DEF CheckpointInv
<1>1. /\ writer' \in [Writers -> WriterRecord] /\ writer'[w] = r /\ w \in Writers
      /\ \A v \in Writers \ {w} : writer'[v] = writer[v]
  BY BecomesTypes DEF Becomes
<1>2. CheckpointTypes'
  <2>1. CheckpointTypeOK
    BY DEF CheckpointTypes
  <2>2. /\ lock' \in {0} \cup Writers
        /\ \A v \in Writers :
              /\ writer'[v].pc \in Pcs /\ writer'[v].next \in Nat \ {0} /\ writer'[v].seq \in 0..MaxWrites
              /\ writer'[v].pc \in InWrite <=> lock' = v
    BY BecomesTypes
  <2>3. writes' \in 0..MaxWrites
    BY <2>1 DEF CheckpointTypeOK
  <2>4. UNCHANGED <<step, durable, latestLink, latestDur, rootDur, announced>>
    BY DEF disk
  <2>5. fails' \in 0..MaxFails /\ kills' \in 0..MaxKills /\ losses' \in 0..MaxLosses
    BY <2>1 DEF Becomes, CheckpointTypeOK
  <2>6. CheckpointTypeOK'
    BY <2>1, <2>2, <2>3, <2>4, <2>5 DEF CheckpointTypeOK
  <2> QED BY <1>1, <2>6 DEF CheckpointTypes
<1>3. LinksSafe'
  BY DEF LinksSafe, Safe, Present, disk
<1>4. Present' = Present
  BY DEF Present, disk
<1>5. writes \in Nat /\ writes' \in Nat /\ \A v \in Writers : writer[v].next \in Nat /\ writer'[v].next \in Nat
  BY <1>2 DEF CheckpointTypes, CheckpointTypeOK
<1>6. \A n \in Present : n \in Nat
  BY DEF Present, Steps
<1>7. NumbersOrdered'
  BY <1>1, <1>4, <1>5, <1>6 DEF NumbersOrdered, WriterAt
<1>8. WriteUnderWay'
  <2> SUFFICES ASSUME NEW v \in Writers PROVE FarAs(writer[v])'
    BY DEF WriteUnderWay
  <2>1. FarAs(r)'
    BY <1>4, <1>5 DEF FarAs, disk
  <2>2. ASSUME v # w PROVE FarAs(writer[v])'
    BY <1>1, <1>4, <1>5, <2>2 DEF FarAs, disk, WriteUnderWay
  <2> QED BY <1>1, <2>1, <2>2
<1> QED BY <1>2, <1>3, <1>7, <1>8

\* The steps of write before anything shows, and those that end it early.
LEMMA BeforeRename ==
    ASSUME CheckpointInv, NEW w \in Writers,
           Open(w) \/ Acquire(w) \/ Choose(w) \/ WriteBand(w) \/ WriteMetadata(w) \/ Fail(w) \/ Kill(w)
    PROVE  CheckpointInv'
<1> USE StoreAssumption
<1>1. /\ CheckpointTypes /\ CheckpointTypeOK /\ NumbersOrdered /\ FarAs(writer[w])
      /\ writer[w] \in WriterRecord
      /\ (writer[w].pc \in InWrite) <=> (lock = w)
  BY DEF CheckpointInv, CheckpointTypes, CheckpointTypeOK, WriteUnderWay
<1>2. /\ writes \in Nat /\ writes <= MaxWrites /\ writer[w].next \in Nat \ {0} /\ writer[w].seq \in 0..MaxWrites
      /\ lock \in {0} \cup Writers
      /\ writer[w].id \in 0..MaxWrites /\ writer[w].synced \in SUBSET Parts
      /\ fails \in 0..MaxFails /\ kills \in 0..MaxKills
  BY <1>1 DEF CheckpointTypeOK, WriterRecord
<1>3. /\ LastStep \in Nat /\ LastStep <= writes /\ LastStep <= MaxWrites
      /\ \A m \in Present : m <= LastStep
      /\ Present \subseteq Steps /\ Steps \subseteq Nat
      /\ (\E v \in Writers : WriterAt(v, "choose")) => LastStep < writes /\ \A v \in Writers : writer[v].next <= writes
  <2>1. LastStep \in Nat /\ LastStep \in {0} \cup Present /\ \A m \in Present : m <= LastStep
    BY <1>1, LastStepIsLast
  <2>2. Present \subseteq Steps /\ Steps \subseteq Nat
    BY DEF Present, Steps
  <2>3. ASSUME NEW v \in Writers, WriterAt(v, "choose") PROVE LastStep < writes
    <3>1. writer[v].next \in Nat \ {0} /\ writer[v].next <= writes
      BY <1>1, <2>3 DEF NumbersOrdered, CheckpointTypeOK
    <3> QED BY <1>1, <1>2, <2>1, <2>3, <3>1 DEF NumbersOrdered
  <2>4. LastStep <= writes
    <3>1. \A m \in Present : m <= writes
      BY <1>1 DEF NumbersOrdered
    <3>2. CASE LastStep = 0
      BY <1>2, <3>2
    <3>3. CASE LastStep \in Present
      BY <3>1, <3>3
    <3> QED BY <2>1, <3>2, <3>3
  <2>5. LastStep <= MaxWrites
    BY <1>2, <2>1, <2>4
  <2>6. (\E v \in Writers : WriterAt(v, "choose")) => \A v \in Writers : writer[v].next <= writes
    BY <1>1 DEF NumbersOrdered
  <2> QED BY <2>1, <2>2, <2>3, <2>4, <2>5, <2>6
<1>4. /\ {"closed", "open", "choose", "band", "metadata", "rename", "refused", "written"} \subseteq Pcs
      /\ InWrite = {"choose", "band", "metadata", "rename", "syncStep", "link", "syncLatest"}
  BY DEF Pcs, InWrite
<1>5. 0 \notin Writers
  OBVIOUS
<1>6. lock \in {0, w} => \A v \in Writers \ {w} : ~WriterAt(v, "choose")
  BY <1>1, OneInside DEF WriterAt
<1>7. CASE Open(w)
  <2>1. PICK r : r = [Closed EXCEPT !.pc = "open", !.next = LastStep + 1]
    OBVIOUS
  <2>2. /\ r.pc = "open" /\ r.next = LastStep + 1 /\ r \in WriterRecord
    <3>1. Closed \in WriterRecord
      BY <1>4 DEF Closed, WriterRecord
    <3>2. LastStep + 1 \in Nat \ {0} /\ "open" \in Pcs
      BY <1>3, <1>4
    <3> QED BY <2>1, <3>1, <3>2 DEF WriterRecord
  <2>3. writer' = [writer EXCEPT ![w] = r]
    BY <1>7, <2>1 DEF Open
  <2>4. lock # w /\ UNCHANGED <<lock, disk, bounds>>
    BY <1>1, <1>4, <1>7 DEF Open, WriterAt
  <2>5. Becomes(w, r) /\ UNCHANGED disk /\ UNCHANGED writes
    BY <1>2, <1>4, <2>2, <2>3, <2>4 DEF Becomes, bounds
  <2> QED BY <1>2, <1>3, <2>2, <2>5, QuietStep
<1>8. CASE Acquire(w)
  <2>1. PICK r : r = [writer[w] EXCEPT !.pc = "choose"]
    OBVIOUS
  <2>2. /\ r.pc = "choose" /\ r.next = writer[w].next /\ r \in WriterRecord
    BY <1>1, <1>4, <2>1 DEF WriterRecord
  <2>3. /\ Becomes(w, r) /\ UNCHANGED disk
        /\ lock = 0 /\ writes' = writes + 1 /\ writes < MaxWrites
    BY <1>2, <1>4, <1>8, <2>1, <2>2 DEF Acquire, Becomes, WriterGoto
  <2>4. r.next <= writes + 1
    BY <1>1, <2>2 DEF NumbersOrdered
  <2> QED BY <1>6, <2>2, <2>3, <2>4, QuietStep
<1>9. CASE Choose(w)
  <2>0. WriterAt(w, "choose") /\ lock = w
    BY <1>1, <1>4, <1>9 DEF Choose, WriterAt
  <2>1. PICK n : n = Max({writer[w].next, LastStep + 1})
    OBVIOUS
  <2>2. n \in Nat /\ n >= LastStep + 1 /\ n >= 1 /\ n <= writes
    <3> DEFINE own == writer[w].next  last == LastStep + 1
    <3>0. own \in Nat /\ last \in Nat
      BY <1>2, <1>3
    <3>1. n = IF own >= last THEN own ELSE last
      <4> HIDE DEF own, last
      <4>1. Max({own, last}) = IF own >= last THEN own ELSE last
        BY <3>0, GreaterOfTwo
      <4> QED BY <2>1, <4>1 DEF own, last
    <3> QED BY <1>2, <1>3, <2>0, <3>1
  <2>3. n \notin Present /\ \A m \in Present : m < n
    <3>1. LastStep \in Nat /\ \A m \in Present : m \in Nat /\ m <= LastStep
      BY <1>3
    <3>2. \A m \in Present : m < n
      BY <2>2, <3>1
    <3> QED BY <2>2, <3>2
  <2>4. PICK r : r = [pc |-> "band", next |-> n + 1, seq |-> n, id |-> writes, synced |-> {}]
    OBVIOUS
  <2>5. r.pc = "band" /\ r.seq = n /\ r.id = writes /\ r.next = n + 1 /\ r \in WriterRecord
    BY <1>2, <1>4, <2>2, <2>4 DEF WriterRecord
  <2>6. Take(w, n)
    BY <1>9, <2>1 DEF Choose
  <2>7. writer' = [writer EXCEPT ![w] = r] /\ lock' = lock
    BY <2>3, <2>4, <2>6 DEF Take
  <2>8. Becomes(w, r) /\ UNCHANGED disk /\ UNCHANGED writes
    BY <1>2, <1>4, <1>9, <2>0, <2>5, <2>7 DEF Choose, Becomes, bounds
  <2>9. /\ r.next <= writes + 1 /\ r.seq \in 1..writes /\ r.id # 0
        /\ \A m \in Present : m < r.seq
    BY <1>2, <2>2, <2>3, <2>5
  <2> QED BY <1>6, <2>0, <2>5, <2>8, <2>9, QuietStep
<1>10. CASE WriteBand(w)
  <2>0. writer[w].pc = "band" /\ lock = w
    BY <1>1, <1>4, <1>10 DEF WriteBand, WriterAt
  <2>1. PICK r : r = [writer[w] EXCEPT !.pc = "metadata", !.synced = @ \cup {"band"}]
    OBVIOUS
  <2>2. /\ r.pc = "metadata" /\ r.next = writer[w].next /\ r.seq = writer[w].seq /\ r.id = writer[w].id
        /\ r.synced = writer[w].synced \cup {"band"} /\ r \in WriterRecord
    BY <1>1, <1>4, <2>1 DEF WriterRecord, Parts
  <2>3. writer' = [writer EXCEPT ![w] = r]
    BY <1>1, <1>10, <2>1 DEF WriteBand, WriterRecord
  <2>4. Becomes(w, r) /\ UNCHANGED disk /\ UNCHANGED writes
    BY <1>2, <1>4, <1>10, <2>0, <2>2, <2>3 DEF WriteBand, Becomes, bounds
  <2>5. /\ r.next <= writes + 1 /\ r.seq \in 1..writes /\ r.id # 0
        /\ \A m \in Present : m < r.seq
    BY <1>1, <2>0, <2>2 DEF NumbersOrdered, FarAs
  <2> QED BY <1>6, <2>0, <2>2, <2>4, <2>5, QuietStep
<1>11. CASE WriteMetadata(w)
  <2>0. writer[w].pc = "metadata" /\ lock = w
    BY <1>1, <1>4, <1>11 DEF WriteMetadata, WriterAt
  <2>1. PICK r : r = [writer[w] EXCEPT !.pc = "rename", !.synced = @ \cup {"entries"}]
    OBVIOUS
  <2>2. /\ r.pc = "rename" /\ r.next = writer[w].next /\ r.seq = writer[w].seq /\ r.id = writer[w].id
        /\ r.synced = writer[w].synced \cup {"entries"} /\ r \in WriterRecord
    BY <1>1, <1>4, <2>1 DEF WriterRecord, Parts
  <2>3. r.synced = Parts
    BY <1>1, <1>2, <2>0, <2>2 DEF FarAs, Parts
  <2>4. writer' = [writer EXCEPT ![w] = r]
    BY <1>1, <1>11, <2>1 DEF WriteMetadata, WriterRecord
  <2>5. Becomes(w, r) /\ UNCHANGED disk /\ UNCHANGED writes
    BY <1>2, <1>4, <1>11, <2>0, <2>2, <2>4 DEF WriteMetadata, Becomes, bounds
  <2>6. /\ r.next <= writes + 1 /\ r.seq \in 1..writes /\ r.id # 0
        /\ \A m \in Present : m < r.seq
    BY <1>1, <2>0, <2>2 DEF NumbersOrdered, FarAs
  <2> QED BY <1>6, <2>0, <2>2, <2>3, <2>5, <2>6, QuietStep
<1>12. CASE Fail(w)
  <2>0. lock = w
    BY <1>1, <1>12 DEF Fail
  <2>1. PICK r : r = [writer[w] EXCEPT !.pc = "open"]
    OBVIOUS
  <2>2. r.pc = "open" /\ r.next = writer[w].next /\ r \in WriterRecord
    BY <1>1, <1>4, <2>1 DEF WriterRecord
  <2>3. fails' \in 0..MaxFails
    BY <1>2, <1>12 DEF Fail
  <2>4. Becomes(w, r) /\ UNCHANGED disk /\ UNCHANGED writes
    BY <1>2, <1>4, <1>12, <2>0, <2>1, <2>2, <2>3 DEF Fail, Becomes, WriterGoto
  <2>5. r.next <= writes + 1
    BY <1>1, <2>2 DEF NumbersOrdered
  <2> QED BY <1>6, <2>0, <2>2, <2>4, <2>5, QuietStep
<1>13. CASE Kill(w)
  <2>1. PICK r : r = Closed
    OBVIOUS
  <2>2. r.pc = "closed" /\ r.next = 1 /\ r \in WriterRecord
    BY <1>4, <2>1 DEF Closed, WriterRecord
  <2>3. kills' \in 0..MaxKills
    BY <1>2, <1>13 DEF Kill
  <2>4. Becomes(w, r) /\ UNCHANGED disk /\ UNCHANGED writes
    BY <1>2, <1>4, <1>13, <2>1, <2>2, <2>3 DEF Kill, Becomes
  <2> QED BY <1>2, <1>3, <2>2, <2>4, QuietStep
<1> QED BY <1>7, <1>8, <1>9, <1>10, <1>11, <1>12, <1>13

\* The part of the types that is about the disk.
DiskTypes ==
    /\ step \in [Steps -> [id : 0..MaxWrites, whole : BOOLEAN, synced : SUBSET Parts]]
    /\ durable \subseteq Steps /\ rootDur \in BOOLEAN
    /\ latestLink \in 0..MaxWrites /\ latestDur \in 0..MaxWrites /\ announced \in 0..MaxWrites

\* A step that moves a writer on and may change the disk keeps the types, and
\* the order of the numbers when no new checkpoint shows.
LEMMA MovesOn ==
    ASSUME CheckpointInv, NEW w, NEW r, Becomes(w, r), UNCHANGED writes, DiskTypes',
           r.pc # "choose", r.next = writer[w].next
    PROVE  /\ CheckpointTypes'
           /\ Present' \subseteq Present => NumbersOrdered'
<1> USE DEF CheckpointInv
<1>1. /\ writer' \in [Writers -> WriterRecord] /\ writer'[w] = r /\ w \in Writers
      /\ \A v \in Writers \ {w} : writer'[v] = writer[v]
  BY BecomesTypes DEF Becomes
<1>2. CheckpointTypes'
  <2>1. CheckpointTypeOK
    BY DEF CheckpointTypes
  <2>2. /\ lock' \in {0} \cup Writers
        /\ \A v \in Writers :
              /\ writer'[v].pc \in Pcs /\ writer'[v].next \in Nat \ {0} /\ writer'[v].seq \in 0..MaxWrites
              /\ writer'[v].pc \in InWrite <=> lock' = v
    BY BecomesTypes
  <2>3. writes' \in 0..MaxWrites /\ fails' \in 0..MaxFails /\ kills' \in 0..MaxKills /\ losses' \in 0..MaxLosses
    BY <2>1 DEF Becomes, CheckpointTypeOK
  <2>4. CheckpointTypeOK'
    BY <2>2, <2>3 DEF CheckpointTypeOK, DiskTypes
  <2> QED BY <1>1, <2>4 DEF CheckpointTypes
<1>3. ASSUME Present' \subseteq Present PROVE NumbersOrdered'
  <2>1. \A v \in Writers : writer'[v].next = writer[v].next /\ (writer'[v].pc = "choose" => writer[v].pc = "choose")
    BY <1>1
  <2> QED BY <1>3, <2>1 DEF NumbersOrdered, WriterAt
<1> QED BY <1>2, <1>3

\* The steps of write that others see, from the rename to the announcement.
LEMMA OnTheDisk ==
    ASSUME CheckpointInv, NEW w \in Writers,
           Rename(w) \/ SyncStep(w) \/ Link(w) \/ SyncLatest(w) \/ AnnounceStep(w)
    PROVE  CheckpointInv'
<1> USE StoreAssumption
<1>1. /\ CheckpointTypes /\ CheckpointTypeOK /\ LinksSafe /\ NumbersOrdered /\ FarAs(writer[w])
      /\ writer[w] \in WriterRecord
      /\ (writer[w].pc \in InWrite) <=> (lock = w)
  BY DEF CheckpointInv, CheckpointTypes, CheckpointTypeOK, WriteUnderWay
<1>2. /\ writes \in Nat /\ writes <= MaxWrites /\ writer[w].seq \in 0..MaxWrites
      /\ writer[w].id \in 0..MaxWrites /\ writer[w].synced \in SUBSET Parts
      /\ fails \in 0..MaxFails /\ kills \in 0..MaxKills /\ lock \in {0} \cup Writers
      /\ latestLink \in 0..MaxWrites /\ latestDur \in 0..MaxWrites /\ announced \in 0..MaxWrites
      /\ Present \subseteq Steps /\ Steps = 1..MaxWrites /\ DiskTypes
  <2>1. writer[w].seq \in 0..MaxWrites /\ writer[w].id \in 0..MaxWrites /\ writer[w].synced \in SUBSET Parts
    BY <1>1 DEF WriterRecord
  <2>2. DiskTypes /\ Present \subseteq Steps /\ Steps = 1..MaxWrites
    BY <1>1, Zenon DEF CheckpointTypeOK, DiskTypes, Present, Steps
  <2> QED BY <1>1, <2>1, <2>2 DEF CheckpointTypeOK
<1>3. /\ {"closed", "open", "syncStep", "link", "syncLatest", "refused", "written"} \subseteq Pcs
      /\ InWrite = {"choose", "band", "metadata", "rename", "syncStep", "link", "syncLatest"}
      /\ 0 \notin Writers
  BY DEF Pcs, InWrite
<1>4. lock = w => \A v \in Writers \ {w} : writer[v].pc \in {"closed", "open", "written", "refused"}
  BY <1>1, OneInside
<1>5. \A v \in Writers : FarAs(writer[v])
  BY DEF CheckpointInv, WriteUnderWay
<1>6. ASSUME lock = w, latestDur <= latestDur', NEW v \in Writers \ {w}, writer'[v] = writer[v],
             latestDur' \in 0..MaxWrites
      PROVE  FarAs(writer[v])'
  <2>1. writer[v].pc \in {"closed", "open", "written", "refused"} /\ writer[v].seq \in 0..MaxWrites
    BY <1>1, <1>4, <1>6 DEF CheckpointTypeOK
  <2>2. writer[v].pc = "written" => writer[v].seq <= latestDur
    BY <1>5 DEF FarAs
  <2>3. writer'[v].pc = "written" => writer'[v].seq <= latestDur'
    BY <1>2, <1>6, <2>1, <2>2
  <2> QED BY <1>6, <2>1, <2>3 DEF FarAs
<1>7. ASSUME NEW p \in Pcs \ {"choose"}, NEW r, r = [writer[w] EXCEPT !.pc = p],
             WriterGoto(w, p), UNCHANGED bounds, (p \in InWrite) => lock = w,
             lock' = IF p \in InWrite THEN w ELSE IF lock = w THEN 0 ELSE lock
      PROVE  Becomes(w, r) /\ UNCHANGED writes /\ r.next = writer[w].next
  <2>1. writer' = [writer EXCEPT ![w] = r]
    BY <1>7 DEF WriterGoto
  <2>2. r.next = writer[w].next /\ r.pc = p /\ r \in WriterRecord
    BY <1>1, <1>7 DEF WriterRecord
  <2> QED BY <1>2, <1>7, <2>1, <2>2 DEF Becomes, bounds
<1>8. \A p \in Pcs : /\ [writer[w] EXCEPT !.pc = p] \in WriterRecord
                     /\ [writer[w] EXCEPT !.pc = p].pc = p
                     /\ [writer[w] EXCEPT !.pc = p].seq = writer[w].seq
  BY <1>1 DEF WriterRecord
<1>9. CASE Rename(w)
  <2>0. writer[w].pc = "rename" /\ lock = w
    BY <1>1, <1>3, <1>9 DEF Rename, WriterAt
  <2>1. PICK n : n = writer[w].seq
    OBVIOUS
  <2>2. /\ n \in 1..writes /\ writer[w].id # 0 /\ writer[w].synced = Parts
        /\ \A m \in Present : m < n
    BY <1>1, <2>0, <2>1 DEF FarAs
  <2>3. n \in Steps /\ n \notin Present
    BY <1>2, <2>2
  <2>4. /\ step' = [step EXCEPT ![n] = [id |-> writer[w].id, whole |-> TRUE, synced |-> writer[w].synced]]
        /\ WriterGoto(w, "syncStep") /\ UNCHANGED lock
        /\ UNCHANGED <<durable, latestLink, latestDur, rootDur, announced, bounds>>
    BY <1>9, <2>1, <2>3 DEF Rename
  <2>5. PICK r : r = [writer[w] EXCEPT !.pc = "syncStep"]
    OBVIOUS
  <2>6. r \in WriterRecord /\ r.pc = "syncStep" /\ r.seq = n
    BY <1>3, <1>8, <2>1, <2>5
  <2>7. Becomes(w, r) /\ UNCHANGED writes /\ r.next = writer[w].next
    BY <1>3, <1>7, <2>0, <2>4, <2>5, <2>6
  <2>8. /\ step'[n].id # 0 /\ step'[n].whole /\ step'[n].synced = Parts
        /\ \A m \in Steps \ {n} : step'[m] = step[m]
        /\ DiskTypes'
    <3>1. [id |-> writer[w].id, whole |-> TRUE, synced |-> writer[w].synced]
             \in [id : 0..MaxWrites, whole : BOOLEAN, synced : SUBSET Parts]
      BY <1>2
    <3> QED BY <1>2, <2>2, <2>3, <2>4, <3>1 DEF DiskTypes
  <2>9. Present' = Present \cup {n}
    BY <2>3, <2>8 DEF Present
  <2>10. CheckpointTypes'
    BY <2>6, <2>7, <2>8, MovesOn
  <2>11. /\ writer' \in [Writers -> WriterRecord] /\ writer'[w] = r
         /\ \A v \in Writers \ {w} : writer'[v] = writer[v]
    BY <1>1, <2>7, BecomesTypes
  <2>12. NumbersOrdered'
    <3>1. \A v \in Writers : writer'[v].next = writer[v].next /\ ~WriterAt(v, "choose")'
      BY <1>4, <2>0, <2>6, <2>7, <2>11 DEF WriterAt
    <3>2. \A m \in Present' : m <= writes'
      BY <1>1, <1>2, <2>2, <2>7, <2>9 DEF NumbersOrdered
    <3> QED BY <1>1, <2>7, <3>1, <3>2 DEF NumbersOrdered
  <2>13. latestLink < n
    <3>1. latestLink = 0 \/ latestLink \in Present
      BY <1>1 DEF LinksSafe, Safe
    <3> QED BY <1>2, <2>2, <3>1
  <2>14. LinksSafe'
    <3>1. \A m \in durable : m # n /\ m \in Steps /\ step'[m] = step[m]
      BY <1>1, <1>2, <2>3, <2>8 DEF LinksSafe
    <3>2. \A m : Safe(m) => Safe(m)'
      BY <2>4, <3>1 DEF Safe
    <3>3. durable' \subseteq Present'
      BY <1>1, <2>4, <2>9 DEF LinksSafe
    <3> QED BY <1>1, <2>4, <3>2, <3>3 DEF LinksSafe
  <2>15. FarAs(writer[w])'
    BY <2>4, <2>6, <2>8, <2>9, <2>11, <2>13 DEF FarAs
  <2>16. \A v \in Writers \ {w} : FarAs(writer[v])'
    BY <1>2, <1>6, <2>0, <2>4, <2>11
  <2> QED BY <2>10, <2>12, <2>14, <2>15, <2>16 DEF CheckpointInv, WriteUnderWay
<1>10. CASE SyncStep(w)
  <2>0. writer[w].pc = "syncStep" /\ lock = w
    BY <1>1, <1>3, <1>10 DEF SyncStep, WriterAt
  <2>1. /\ durable' = Present /\ latestDur' = latestLink
        /\ WriterGoto(w, "link")
        /\ UNCHANGED <<lock, step, latestLink, rootDur, announced, bounds>>
    BY <1>10 DEF SyncStep, SyncRoot
  <2>2. PICK r : r = [writer[w] EXCEPT !.pc = "link"]
    OBVIOUS
  <2>3. r \in WriterRecord /\ r.pc = "link" /\ r.seq = writer[w].seq
    BY <1>3, <1>8, <2>2
  <2>4. Becomes(w, r) /\ UNCHANGED writes /\ r.next = writer[w].next
    BY <1>3, <1>7, <2>0, <2>1, <2>2, <2>3
  <2>5. DiskTypes' /\ Present' = Present
    BY <1>2, <2>1 DEF DiskTypes, Present
  <2>6. CheckpointTypes' /\ NumbersOrdered'
    BY <2>3, <2>4, <2>5, MovesOn
  <2>7. writer'[w] = r /\ \A v \in Writers \ {w} : writer'[v] = writer[v]
    BY <1>1, <2>4, BecomesTypes
  <2>8. LinksSafe'
    <3>1. \A m : Safe(m) => Safe(m)'
      BY <1>1, <2>1 DEF Safe, LinksSafe
    <3> QED BY <1>1, <1>2, <2>1, <2>5, <3>1 DEF LinksSafe
  <2>9. FarAs(writer[w])'
    BY <1>1, <2>0, <2>1, <2>3, <2>5, <2>7 DEF FarAs
  <2>10. \A v \in Writers \ {w} : FarAs(writer[v])'
    BY <1>1, <1>2, <1>6, <2>0, <2>1, <2>7 DEF LinksSafe
  <2> QED BY <2>6, <2>8, <2>9, <2>10 DEF CheckpointInv, WriteUnderWay
<1>11. CASE Link(w)
  <2>0. writer[w].pc = "link" /\ lock = w
    BY <1>1, <1>3, <1>11 DEF Link, WriterAt
  <2>1. /\ latestLink' = writer[w].seq
        /\ WriterGoto(w, "syncLatest")
        /\ UNCHANGED <<lock, step, durable, latestDur, rootDur, announced, bounds>>
    BY <1>11 DEF Link
  <2>2. PICK r : r = [writer[w] EXCEPT !.pc = "syncLatest"]
    OBVIOUS
  <2>3. r \in WriterRecord /\ r.pc = "syncLatest" /\ r.seq = writer[w].seq
    BY <1>3, <1>8, <2>2
  <2>4. Becomes(w, r) /\ UNCHANGED writes /\ r.next = writer[w].next
    BY <1>3, <1>7, <2>0, <2>1, <2>2, <2>3
  <2>5. DiskTypes' /\ Present' = Present
    BY <1>2, <2>1 DEF DiskTypes, Present
  <2>6. CheckpointTypes' /\ NumbersOrdered'
    BY <2>3, <2>4, <2>5, MovesOn
  <2>7. writer'[w] = r /\ \A v \in Writers \ {w} : writer'[v] = writer[v]
    BY <1>1, <2>4, BecomesTypes
  <2>8. LinksSafe'
    <3>1. \A m : Safe(m) => Safe(m)'
      BY <2>1 DEF Safe
    <3>2. Safe(latestLink)'
      BY <1>1, <2>0, <2>1 DEF FarAs, Safe, Present
    <3>3. latestLink < latestLink'
      BY <1>1, <2>0, <2>1 DEF FarAs
    <3> QED BY <1>1, <1>2, <2>1, <2>5, <3>1, <3>2, <3>3 DEF LinksSafe
  <2>9. FarAs(writer[w])'
    BY <2>1, <2>3, <2>7 DEF FarAs
  <2>10. \A v \in Writers \ {w} : FarAs(writer[v])'
    BY <1>2, <1>6, <2>0, <2>1, <2>7
  <2> QED BY <2>6, <2>8, <2>9, <2>10 DEF CheckpointInv, WriteUnderWay
<1>12. CASE SyncLatest(w)
  <2>0. writer[w].pc = "syncLatest" /\ lock = w
    BY <1>1, <1>3, <1>12 DEF SyncLatest, WriterAt
  <2>1. /\ durable' = Present /\ latestDur' = latestLink
        /\ WriterGoto(w, "written") /\ lock' = 0
        /\ UNCHANGED <<step, latestLink, rootDur, announced, bounds>>
    BY <1>12 DEF SyncLatest, SyncRoot
  <2>2. PICK r : r = [writer[w] EXCEPT !.pc = "written"]
    OBVIOUS
  <2>3. r \in WriterRecord /\ r.pc = "written" /\ r.seq = writer[w].seq
    BY <1>3, <1>8, <2>2
  <2>4. Becomes(w, r) /\ UNCHANGED writes /\ r.next = writer[w].next
    BY <1>3, <1>7, <2>0, <2>1, <2>2, <2>3
  <2>5. DiskTypes' /\ Present' = Present
    BY <1>2, <2>1 DEF DiskTypes, Present
  <2>6. CheckpointTypes' /\ NumbersOrdered'
    BY <2>3, <2>4, <2>5, MovesOn
  <2>7. writer'[w] = r /\ \A v \in Writers \ {w} : writer'[v] = writer[v]
    BY <1>1, <2>4, BecomesTypes
  <2>8. LinksSafe'
    <3>1. \A m : Safe(m) => Safe(m)'
      BY <1>1, <2>1 DEF Safe, LinksSafe
    <3> QED BY <1>1, <1>2, <2>1, <2>5, <3>1 DEF LinksSafe
  <2>9. FarAs(writer[w])'
    BY <1>1, <1>2, <2>0, <2>1, <2>3, <2>7 DEF FarAs
  <2>10. \A v \in Writers \ {w} : FarAs(writer[v])'
    BY <1>1, <1>2, <1>6, <2>0, <2>1, <2>7 DEF LinksSafe
  <2> QED BY <2>6, <2>8, <2>9, <2>10 DEF CheckpointInv, WriteUnderWay
<1>13. CASE AnnounceStep(w)
  <2>0. writer[w].pc = "written" /\ lock # w
    BY <1>1, <1>3, <1>13 DEF AnnounceStep, WriterAt
  <2>1. /\ announced' = Max({announced, writer[w].seq}) /\ rootDur' = TRUE
        /\ WriterGoto(w, "open")
        /\ UNCHANGED <<lock, step, durable, latestLink, latestDur, bounds>>
    BY <1>13 DEF AnnounceStep
  <2>2. PICK r : r = [writer[w] EXCEPT !.pc = "open"]
    OBVIOUS
  <2>3. r \in WriterRecord /\ r.pc = "open"
    BY <1>3, <1>8, <2>2
  <2>4. Becomes(w, r) /\ UNCHANGED writes /\ r.next = writer[w].next
    BY <1>3, <1>7, <2>0, <2>1, <2>2, <2>3
  <2>5. announced' \in 0..MaxWrites /\ announced' <= latestDur
    <3> DEFINE seq == writer[w].seq
    <3>0. announced \in Nat /\ seq \in Nat
      BY <1>2
    <3>1. Max({announced, seq}) = IF announced >= seq THEN announced ELSE seq
      <4> HIDE DEF seq
      <4> QED BY <3>0, GreaterOfTwo
    <3>2. announced <= latestDur /\ writer[w].seq <= latestDur
      BY <1>1, <2>0 DEF LinksSafe, FarAs
    <3> QED BY <1>2, <2>1, <3>1, <3>2
  <2>6. DiskTypes' /\ Present' = Present
    BY <1>2, <2>1, <2>5 DEF DiskTypes, Present
  <2>7. CheckpointTypes' /\ NumbersOrdered'
    BY <2>3, <2>4, <2>6, MovesOn
  <2>8. writer'[w] = r /\ \A v \in Writers \ {w} : writer'[v] = writer[v]
    BY <1>1, <2>4, BecomesTypes
  <2>9. LinksSafe'
    <3>1. \A m : Safe(m) => Safe(m)'
      BY <2>1 DEF Safe
    <3> QED BY <1>1, <2>1, <2>5, <2>6, <3>1 DEF LinksSafe
  <2>10. FarAs(writer[w])'
    BY <2>3, <2>8 DEF FarAs
  <2>11. ASSUME NEW v \in Writers \ {w} PROVE FarAs(writer[v])'
    BY <1>5, <2>1, <2>4, <2>6, <2>8 DEF FarAs
  <2> QED BY <2>7, <2>9, <2>10, <2>11 DEF CheckpointInv, WriteUnderWay
<1> QED BY <1>9, <1>10, <1>11, <1>12, <1>13

\* A loss of power takes no checkpoint that is Safe, and leaves no writer inside.
LEMMA AfterPowerLoss ==
    ASSUME CheckpointInv, PowerLoss
    PROVE  /\ CheckpointInv'
           /\ latestLink' \in announced..latestLink /\ announced' = announced
<1>0. MaxWrites \in Nat /\ MaxFails \in Nat /\ MaxKills \in Nat /\ MaxLosses \in Nat
  BY StoreAssumption
<1>1. /\ CheckpointTypes /\ CheckpointTypeOK /\ LinksSafe /\ NumbersOrdered
      /\ Present \subseteq Steps /\ Steps = 1..MaxWrites /\ writes \in Nat
  BY <1>0 DEF CheckpointInv, CheckpointTypes, CheckpointTypeOK, Present, Steps
<1>2. latestLink \in 0..MaxWrites /\ latestDur \in 0..MaxWrites /\ announced \in 0..MaxWrites
  BY <1>1 DEF CheckpointTypeOK
<1>3. /\ lock' = 0 /\ writer' = [w \in Writers |-> Closed]
      /\ UNCHANGED <<announced, writes, fails, kills>>
  BY DEF PowerLoss
<1>4. losses' \in 0..MaxLosses
  BY <1>0, <1>1 DEF PowerLoss, CheckpointTypeOK
<1>5. Absent \in [id : 0..MaxWrites, whole : BOOLEAN, synced : SUBSET Parts]
  BY <1>0 DEF Absent
<1>6. /\ DiskTypes' /\ LinksSafe' /\ Present' \subseteq Present
      /\ latestLink' \in announced..latestLink
  <2>1. ASSUME NEW S \in SUBSET (Present \ durable), NEW l \in {latestLink, latestDur},
               step' = [n \in Steps |-> IF n \in S \cup durable THEN Survives(n) ELSE Absent],
               durable' = S \cup durable, latestLink' = l, latestDur' = l, rootDur' \in {rootDur, TRUE}
        PROVE  /\ DiskTypes' /\ LinksSafe' /\ Present' \subseteq Present
               /\ latestLink' \in announced..latestLink
    <3>1. \A n \in Steps :
             /\ Survives(n) \in [id : 0..MaxWrites, whole : BOOLEAN, synced : SUBSET Parts]
             /\ Survives(n).id = step[n].id /\ Survives(n).synced = step[n].synced
             /\ Survives(n).whole <=> (step[n].whole /\ step[n].synced = Parts)
      BY <1>1 DEF Survives, CheckpointTypeOK
    <3>2. announced <= l /\ l <= latestLink
      BY <1>1, <1>2, <2>1 DEF LinksSafe
    <3>3. durable \subseteq Present
      BY <1>1 DEF LinksSafe
    <3>4. DiskTypes'
      <4>1. durable' \subseteq Steps /\ rootDur' \in BOOLEAN
        BY <1>1, <2>1, <3>3 DEF CheckpointTypeOK
      <4>2. step' \in [Steps -> [id : 0..MaxWrites, whole : BOOLEAN, synced : SUBSET Parts]]
        <5> DEFINE R == [id : 0..MaxWrites, whole : BOOLEAN, synced : SUBSET Parts]
        <5>1. Absent \in R /\ \A n \in Steps : Survives(n) \in R
          BY <1>5, <3>1, Zenon
        <5> HIDE DEF R
        <5>2. step' \in [Steps -> R]
          BY <2>1, <5>1
        <5> QED BY <5>2 DEF R
      <4> QED BY <1>2, <1>3, <2>1, <4>1, <4>2 DEF DiskTypes
    <3>5. Present' = S \cup durable
      <4>1. \A n \in Steps : step'[n] = IF n \in S \cup durable THEN Survives(n) ELSE Absent
        BY <2>1
      <4>2. \A n \in Steps : (step'[n].id # 0) <=> (n \in S \cup durable)
        <5> TAKE n \in Steps
        <5>1. n \in S \cup durable => step[n].id # 0
          BY <3>3 DEF Present
        <5>2. Absent.id = 0
          BY DEF Absent
        <5>3. Survives(n).id = step[n].id
          BY <3>1
        <5>4. CASE n \in S \cup durable
          <6>1. step'[n] = Survives(n)
            BY <4>1, <5>4
          <6> QED BY <5>1, <5>3, <5>4, <6>1
        <5>5. CASE n \notin S \cup durable
          <6>1. step'[n] = Absent
            BY <4>1, <5>5
          <6> QED BY <5>2, <5>5, <6>1
        <5> QED BY <5>4, <5>5
      <4>3. S \cup durable \subseteq Steps
        BY <1>1, <3>3
      <4> QED BY <4>2, <4>3 DEF Present
    <3>6. \A m : Safe(m) => Safe(m)'
      <4> SUFFICES ASSUME NEW m, Safe(m) PROVE Safe(m)'
        OBVIOUS
      <4>1. m \in durable /\ m \in Steps
        BY <1>1, <3>3 DEF Safe
      <4>2. step'[m] = Survives(m) /\ m \in durable'
        BY <2>1, <4>1
      <4> QED BY <3>1, <4>1, <4>2 DEF Safe
    <3>7. LinksSafe'
      <4>1. l # 0 => Safe(l)
        BY <1>1, <2>1 DEF LinksSafe
      <4>2. ~rootDur' => announced = 0
        BY <1>1, <2>1 DEF LinksSafe
      <4>3. durable' \subseteq Present'
        BY <2>1, <3>5
      <4> QED BY <1>2, <1>3, <2>1, <3>2, <3>6, <4>1, <4>2, <4>3 DEF LinksSafe
    <3> QED BY <1>2, <2>1, <3>2, <3>3, <3>4, <3>5, <3>7
  <2>2. ASSUME ~rootDur, step' = [n \in Steps |-> Absent], durable' = {},
               latestLink' = 0, latestDur' = 0, UNCHANGED rootDur
        PROVE  /\ DiskTypes' /\ LinksSafe' /\ Present' \subseteq Present
               /\ latestLink' \in announced..latestLink
    <3>1. announced = 0
      BY <1>1, <2>2 DEF LinksSafe
    <3>2. step' \in [Steps -> [id : 0..MaxWrites, whole : BOOLEAN, synced : SUBSET Parts]]
      BY <1>5, <2>2
    <3>3. DiskTypes'
      <4>1. durable' = {} /\ rootDur' \in BOOLEAN /\ announced' \in 0..MaxWrites
        BY <1>1, <1>2, <1>3, <2>2 DEF CheckpointTypeOK
      <4>2. latestLink' \in 0..MaxWrites /\ latestDur' \in 0..MaxWrites
        BY <1>0, <2>2
      <4> QED BY <3>2, <4>1, <4>2 DEF DiskTypes
    <3>4. Present' = {}
      BY <2>2 DEF Present, Absent
    <3> QED BY <1>2, <1>3, <2>2, <3>1, <3>3, <3>4 DEF LinksSafe
  <2> QED BY <2>1, <2>2 DEF PowerLoss
<1>7. Closed \in WriterRecord /\ Closed.pc = "closed" /\ Closed.next = 1 /\ "closed" \in Pcs /\ "closed" \notin InWrite
  BY <1>0 DEF Closed, WriterRecord, Pcs, InWrite
<1>8. \A w \in Writers : writer'[w] = Closed
  BY <1>3
<1>9. CheckpointTypes'
  <2>1. writer' \in [Writers -> WriterRecord]
    BY <1>3, <1>7
  <2>2. \A w \in Writers :
           /\ writer'[w].pc \in Pcs /\ writer'[w].next \in Nat \ {0}
           /\ writer'[w].seq \in 0..MaxWrites
           /\ (writer'[w].pc \in InWrite) <=> (lock' = w)
    BY <1>3, <1>7, <1>8, StoreAssumption DEF WriterRecord
  <2>3. /\ lock' \in {0} \cup Writers
        /\ writes' \in 0..MaxWrites /\ fails' \in 0..MaxFails /\ kills' \in 0..MaxKills
    BY <1>1, <1>3 DEF CheckpointTypeOK
  <2>4. DiskTypes'
    BY <1>6
  <2>5. CheckpointTypeOK'
    BY <1>4, <2>2, <2>3, <2>4 DEF CheckpointTypeOK, DiskTypes
  <2> QED BY <2>1, <2>5 DEF CheckpointTypes
<1>10. NumbersOrdered'
  BY <1>1, <1>3, <1>6, <1>7, <1>8 DEF NumbersOrdered, WriterAt
<1>11. WriteUnderWay'
  BY <1>7, <1>8 DEF WriteUnderWay, FarAs
<1> QED BY <1>3, <1>6, <1>9, <1>10, <1>11 DEF CheckpointInv

\* What latest names, what is durable and what is announced belong together in
\* every state the store reaches (NEBCheckpointStore of neb/io.py).
THEOREM CheckpointInvariant == CheckpointSpec => []CheckpointInv
<1>0. MaxWrites \in Nat /\ MaxFails \in Nat /\ MaxKills \in Nat /\ MaxLosses \in Nat
  BY StoreAssumption
<1>1. CheckpointInit => CheckpointInv
  <2> SUFFICES ASSUME CheckpointInit PROVE CheckpointInv
    OBVIOUS
  <2>1. Closed \in WriterRecord /\ Closed.pc = "closed" /\ Closed.next = 1 /\ "closed" \in Pcs /\ "closed" \notin InWrite
    BY <1>0 DEF Closed, WriterRecord, Pcs, InWrite
  <2>2. \A w \in Writers : writer[w] = Closed
    BY DEF CheckpointInit
  <2>3. step \in [Steps -> [id : 0..MaxWrites, whole : BOOLEAN, synced : SUBSET Parts]]
    BY <1>0 DEF CheckpointInit, Absent
  <2>4. CheckpointTypeOK
    <3>1. \A w \in Writers :
             /\ writer[w].pc \in Pcs /\ writer[w].next \in Nat \ {0}
             /\ writer[w].seq \in 0..MaxWrites
             /\ (writer[w].pc \in InWrite) <=> (lock = w)
      BY <2>1, <2>2, StoreAssumption DEF CheckpointInit, WriterRecord
    <3>2. DiskTypes
      <4>1. /\ durable = {} /\ rootDur \in BOOLEAN /\ announced \in 0..MaxWrites
            /\ latestLink \in 0..MaxWrites /\ latestDur \in 0..MaxWrites
        <5>1. /\ durable = {} /\ rootDur = FALSE
              /\ announced = 0 /\ latestLink = 0 /\ latestDur = 0
          BY DEF CheckpointInit
        <5>2. 0 \in 0..MaxWrites
          BY <1>0
        <5> QED BY <5>1, <5>2, Zenon
      <4> QED BY <2>3, <4>1 DEF DiskTypes
    <3>3. /\ lock \in {0} \cup Writers /\ writes \in 0..MaxWrites /\ fails \in 0..MaxFails
          /\ kills \in 0..MaxKills /\ losses \in 0..MaxLosses
      BY <1>0 DEF CheckpointInit
    <3> QED BY <3>1, <3>2, <3>3 DEF DiskTypes, CheckpointTypeOK
  <2>5. writer \in [Writers -> WriterRecord]
    BY <2>1 DEF CheckpointInit
  <2>6. Present = {}
    BY DEF CheckpointInit, Present, Absent
  <2>7. LinksSafe
    BY <2>6 DEF CheckpointInit, LinksSafe
  <2>8. NumbersOrdered
    BY <2>1, <2>2, <2>6 DEF CheckpointInit, NumbersOrdered, WriterAt
  <2>9. WriteUnderWay
    BY <2>1, <2>2 DEF WriteUnderWay, FarAs
  <2> QED BY <2>4, <2>5, <2>7, <2>8, <2>9 DEF CheckpointInv, CheckpointTypes
<1>2. CheckpointInv /\ [CheckpointNext]_checkpointVars => CheckpointInv'
  <2> SUFFICES ASSUME CheckpointInv, [CheckpointNext]_checkpointVars PROVE CheckpointInv'
    OBVIOUS
  <2>1. CASE UNCHANGED checkpointVars
    <3>1. UNCHANGED <<lock, step, durable, latestLink, latestDur, rootDur, announced, writer, writes, fails, kills, losses>>
      BY <2>1 DEF checkpointVars, disk, bounds
    <3> QED BY <3>1 DEF CheckpointInv, CheckpointTypes, CheckpointTypeOK, LinksSafe, Safe, Present,
                        NumbersOrdered, WriteUnderWay, FarAs, WriterAt
  <2>2. CASE PowerLoss
    BY <2>2, AfterPowerLoss
  <2>3. ASSUME NEW w \in Writers, Open(w) \/ WriteStep(w) \/ Fail(w) \/ Kill(w) PROVE CheckpointInv'
    BY <2>3, BeforeRename, OnTheDisk DEF WriteStep
  <2> QED BY <2>1, <2>2, <2>3 DEF CheckpointNext
<1> QED BY <1>1, <1>2, PTL DEF CheckpointSpec

\* The types of the checkpoint store; the lock is held while a writer is inside.
THEOREM CheckpointTypesInvariant == CheckpointSpec => []CheckpointTypeOK
<1>1. CheckpointInv => CheckpointTypeOK
  BY DEF CheckpointInv, CheckpointTypes
<1> QED BY <1>1, CheckpointInvariant, PTL

-------------------------------------------------------------------------------
(* CheckpointStore implements DurableLatest *)

\* The latest link only moves on to later checkpoints, a loss of power takes
\* back none that artifacts.json has named, and what latest names can be read
\* (NEBCheckpointStore.write and load_latest of neb/io.py).
THEOREM StoreKeepsPromise == CheckpointSpec => KeepsPromise
<1>1. CheckpointInit => Promise!Init
  BY DEF CheckpointInit, Promise!Init, Resumable
<1>2. CheckpointInv /\ CheckpointInv' /\ [CheckpointNext]_checkpointVars
        => [Promise!Next]_<<Resumable, announced>>
  <2> SUFFICES ASSUME CheckpointInv, CheckpointInv', [CheckpointNext]_checkpointVars
               PROVE  [Promise!Next]_<<Resumable, announced>>
    OBVIOUS
  <2>1. Resumable = latestLink /\ Resumable' = latestLink'
    BY DEF CheckpointInv, LinksSafe, Safe, Resumable
  <2>2. CheckpointTypeOK /\ CheckpointTypeOK' /\ announced <= latestLink /\ announced' <= latestLink'
    BY DEF CheckpointInv, CheckpointTypes, CheckpointTypeOK, LinksSafe
  <2>3. latestLink \in Nat /\ latestLink' \in Nat /\ announced \in Nat /\ announced' \in Nat
    BY <2>2, StoreAssumption DEF CheckpointTypeOK
  <2>4. CASE UNCHANGED <<latestLink, announced>>
    BY <2>1, <2>4
  <2>5. CASE PowerLoss
    <3>1. latestLink' \in announced..latestLink /\ announced' = announced
      BY <2>5, AfterPowerLoss
    <3> QED BY <2>1, <3>1 DEF Promise!Next, Promise!FallBack
  <2>6. ASSUME NEW w \in Writers, Link(w) PROVE Promise!Advance
    <3>1. latestLink' = writer[w].seq /\ writer[w].pc = "link" /\ announced' = announced
      BY <2>6 DEF Link, WriterAt
    <3>2. latestLink < writer[w].seq
      BY <3>1 DEF CheckpointInv, WriteUnderWay, FarAs
    <3> QED BY <2>1, <2>3, <3>1, <3>2 DEF Promise!Advance
  <2>7. ASSUME NEW w \in Writers, AnnounceStep(w) PROVE Promise!Keep
    <3>1. announced' = Max({announced, writer[w].seq}) /\ latestLink' = latestLink
      BY <2>7 DEF AnnounceStep
    <3>2. writer[w].seq \in Nat
      BY <2>2, StoreAssumption DEF CheckpointTypeOK
    <3>3. announced' = IF announced >= writer[w].seq THEN announced ELSE writer[w].seq
      BY <2>3, <3>1, <3>2, GreaterOfTwo
    <3>4. announced <= announced' /\ announced' <= latestLink
      BY <2>2, <2>3, <3>1, <3>2, <3>3
    <3> QED BY <2>1, <2>3, <3>1, <3>4 DEF Promise!Keep
  <2>8. ASSUME NEW w \in Writers,
               \/ Open(w) \/ Acquire(w) \/ Choose(w) \/ WriteBand(w) \/ WriteMetadata(w)
               \/ Rename(w) \/ SyncStep(w) \/ SyncLatest(w) \/ Fail(w) \/ Kill(w)
        PROVE  UNCHANGED <<latestLink, announced>>
    BY <2>8 DEF Open, Acquire, Choose, WriteBand, WriteMetadata, Rename, SyncStep, SyncLatest, Fail, Kill, disk
  <2> QED BY <2>4, <2>5, <2>6, <2>7, <2>8 DEF CheckpointNext, WriteStep, Promise!Next, checkpointVars, disk
<1> QED BY <1>1, <1>2, CheckpointInvariant, PTL DEF CheckpointSpec, KeepsPromise, Promise!Spec

-------------------------------------------------------------------------------
(* NebRun: the invariant *)

\* What an attempt remembers, and what a checkpoint holds.
AttRecord ==
    [pc : Inside \cup {"idle", "checked", "over", "dead"}, gain : Nat, from : Nat,
     source : {"endpoints", "checkpoint_prepared", "checkpoint_optimized_band"},
     stage : Stages, step : Nat, ckpt : Nat, verdict : Verdicts \cup {"none"}]
CkptRecord == [by : Attempts, stage : Stages, gain : Nat]

\* The types, those of the memory included; whoever is inside has left a mark.
NebTypes ==
    /\ NebTypeOK
    /\ att \in [Attempts -> AttRecord] /\ ckpts \in Seq(CkptRecord)
    /\ \A a \in Attempts : att[a].ckpt <= Len(ckpts)
    /\ \A a \in Attempts : att[a].pc \in Inside => used

\* How far the reports of the attempt a with the record r are: artifacts.json
\* lists a result only when neb_results.json is that of the same attempt.
Announced == {"construct", "begin", "yield", "point", "step", "final", "export", "results",
              "record", "artifacts"}
Reported(a, r) ==
    /\ r.pc \in {"record", "artifacts", "failRecord", "failArtifacts"} => results = Report(a, r.verdict)
    /\ r.pc \in {"failResults", "failRecord", "failArtifacts"} => r.verdict \in {"failed", "cancelled"}
    /\ r.pc \in Announced => ~arts.result

NebInv == NebTypes /\ NoFalseSuccess /\ \A a \in Attempts : Reported(a, att[a])

-------------------------------------------------------------------------------
(* What a step may change *)

\* A step of the attempt a that leaves it with the record r.
NebBecomes(a, r) ==
    /\ a \in Attempts /\ r \in AttRecord /\ att' = [att EXCEPT ![a] = r]
    /\ raises' \in 0..MaxRaises /\ crashes' \in 0..MaxCrashes

\* It acts in the directory, or enters or leaves it.
Acts(a, r) ==
    /\ NebBecomes(a, r) /\ owner \in {0, a} /\ owner' = IF r.pc \in Inside THEN a ELSE 0
    /\ used' = TRUE /\ exported' \in BOOLEAN

\* It stays outside, and changes nothing else.
Waits(a, r) ==
    /\ NebBecomes(a, r) /\ att[a].pc \notin Inside /\ r.pc \notin Inside
    /\ UNCHANGED <<owner, used, files, store>>

\* The attempt that acts is alone in the directory.
LEMMA AloneInside ==
    ASSUME NebTypes, NEW a \in Attempts, owner \in {0, a}
    PROVE  \A b \in Attempts \ {a} : att[b].pc \notin Inside
BY NebRunAssumption DEF NebTypes, NebTypeOK, Attempts

\* The memory of the others stays what it is.
LEMMA OneMoves ==
    ASSUME NebTypes, NEW a, NEW r, NebBecomes(a, r)
    PROVE  /\ att' \in [Attempts -> AttRecord] /\ att'[a] = r
           /\ \A b \in Attempts \ {a} : att'[b] = att[b]
BY DEF NebTypes, NebBecomes

\* The types of the reports, and of the checkpoints.
FileTypes ==
    /\ context.by \in {0} \cup Attempts /\ context.status \in Verdicts \cup {"none", "running"}
    /\ results.by \in {0} \cup Attempts /\ results.status \in Verdicts \cup {"none", "running"}
    /\ arts.by \in {0} \cup Attempts /\ arts.result \in BOOLEAN
BandStoreTypes ==
    /\ ckpts \in Seq(CkptRecord) /\ latest \in 0..Len(ckpts) /\ arts.ckpt \in 0..Len(ckpts)

\* A step inside keeps the invariant when what it writes and remembers agrees.
LEMMA ActsKeeps ==
    ASSUME NebInv, NEW a, NEW r, Acts(a, r), FileTypes', BandStoreTypes', Len(ckpts) <= Len(ckpts'),
           r.ckpt <= Len(ckpts'), Reported(a, r)', NoFalseSuccess'
    PROVE  NebInv'
<1>1. NebTypes /\ NebBecomes(a, r) /\ a \in Attempts /\ owner \in {0, a}
  BY DEF NebInv, Acts, NebBecomes
<1>2. /\ att' \in [Attempts -> AttRecord] /\ att'[a] = r
      /\ \A b \in Attempts \ {a} : att'[b] = att[b]
  BY <1>1, OneMoves
<1>3. \A b \in Attempts \ {a} : att[b].pc \notin Inside
  BY <1>1, AloneInside
<1>4. 0 \notin Attempts
  BY NebRunAssumption DEF Attempts
<1>5. owner' \in {0} \cup {b \in Attempts : att'[b].pc \in Inside}
  BY <1>1, <1>2 DEF Acts
<1>6. \A b \in Attempts : att'[b].pc \in Inside => owner' = b
  BY <1>1, <1>2, <1>3 DEF Acts
<1>7. \A b \in Attempts : att'[b].ckpt <= Len(ckpts')
  <2> SUFFICES ASSUME NEW b \in Attempts PROVE att'[b].ckpt <= Len(ckpts')
    OBVIOUS
  <2>1. att[b].ckpt \in Nat /\ att[b].ckpt <= Len(ckpts)
    BY <1>1 DEF NebTypes, AttRecord
  <2>2. Len(ckpts) \in Nat /\ Len(ckpts') \in Nat
    BY <1>1 DEF NebTypes, BandStoreTypes
  <2> QED BY <1>2, <2>1, <2>2
<1>8. \A k \in 1..Len(ckpts') : ckpts'[k].by \in Attempts /\ ckpts'[k].stage \in Stages
  <2> SUFFICES ASSUME NEW k \in 1..Len(ckpts') PROVE ckpts'[k].by \in Attempts /\ ckpts'[k].stage \in Stages
    OBVIOUS
  <2>1. ckpts'[k] \in CkptRecord
    BY DEF BandStoreTypes
  <2> QED BY <2>1 DEF CkptRecord
<1>9. /\ used' \in BOOLEAN /\ exported' \in BOOLEAN
      /\ raises' \in 0..MaxRaises /\ crashes' \in 0..MaxCrashes
  BY <1>1 DEF Acts, NebBecomes
<1>10. NebTypeOK'
  BY <1>5, <1>6, <1>8, <1>9 DEF NebTypeOK, FileTypes, BandStoreTypes
<1>11. NebTypes'
  BY <1>2, <1>7, <1>10 DEF NebTypes, BandStoreTypes, Acts
<1>12. ASSUME NEW b \in Attempts \ {a} PROVE Reported(b, att[b])'
  <2>1. att'[b].pc \notin Inside
    BY <1>2, <1>3
  <2> QED BY <2>1 DEF Reported, Announced, Inside, Guarded, Unguarded
<1> QED BY <1>2, <1>11, <1>12 DEF NebInv

\* A step outside keeps it.
LEMMA WaitsKeeps ==
    ASSUME NebInv, NEW a, NEW r, Waits(a, r), r.ckpt <= Len(ckpts)
    PROVE  NebInv'
<1>1. NebTypes /\ NebBecomes(a, r) /\ a \in Attempts
  BY DEF NebInv, Waits, NebBecomes
<1>2. /\ att' \in [Attempts -> AttRecord] /\ att'[a] = r
      /\ \A b \in Attempts \ {a} : att'[b] = att[b]
  BY <1>1, OneMoves
<1>3. UNCHANGED <<owner, used, context, results, arts, exported, ckpts, latest>>
  BY DEF Waits, files, store
<1>4. \A b \in Attempts : att'[b].pc \in Inside <=> att[b].pc \in Inside
  BY <1>1, <1>2 DEF Waits
<1>5. NebTypeOK'
  BY <1>1, <1>3, <1>4 DEF NebTypes, NebTypeOK, NebBecomes
<1>6. NebTypes'
  <2>1. ASSUME NEW b \in Attempts PROVE att'[b].ckpt <= Len(ckpts)
    BY <1>1, <1>2, <2>1 DEF NebTypes
  <2>2. ASSUME NEW b \in Attempts PROVE att'[b].pc \in Inside => used
    BY <1>1, <1>4, <2>2 DEF NebTypes
  <2> QED BY <1>1, <1>2, <1>3, <1>5, <2>1, <2>2 DEF NebTypes
<1>7. NoFalseSuccess'
  BY <1>3 DEF NebInv, NoFalseSuccess
<1>8. ASSUME NEW b \in Attempts PROVE Reported(b, att[b])'
  <2>1. CASE b = a
    BY <1>2, <2>1 DEF Waits, Reported, Announced, Inside, Guarded, Unguarded
  <2>2. CASE b # a
    BY <1>2, <1>3, <2>2 DEF NebInv, Reported
  <2> QED BY <2>1, <2>2
<1> QED BY <1>6, <1>7, <1>8 DEF NebInv

-------------------------------------------------------------------------------
(* NebRun: what is computed is kept *)

\* A second new run may enter a directory that the first one fills.
OneNewRun == \A a, b \in Fresh : a = b

\* A directory with a checkpoint is in use; a run is resumed once there is one,
\* and a new run enters while there is none.
Entered ==
    /\ latest # 0 => used
    /\ latest = 0 => \A a \in Resumes : att[a].pc = "idle"
    /\ \A a \in Fresh : att[a].pc \in {"checked", "load", "context", "config", "prepare"} => latest = 0

\* How much of what was computed the attempt a with the record r carries.
BeforeRunner == {"context", "config", "prepare", "announce", "construct", "begin"}
Carried(a, r) ==
    /\ a \in Resumes /\ r.pc \in BeforeRunner =>
          /\ r.from \in 1..Len(ckpts)
          /\ r.gain = ckpts[r.from].gain
          /\ r.source = SourceOf(ckpts[r.from].stage)
    /\ a \in Resumes /\ r.pc \in InRunner =>
          /\ r.from \in 1..Len(ckpts)
          /\ ckpts[r.from].stage # "prepared" => r.gain >= ckpts[r.from].gain
    /\ r.pc \in {"announce", "construct", "begin"} => latest # 0 /\ ckpts[latest].stage = "prepared"
    /\ (/\ r.pc \in BeforeRunner \cup InRunner /\ latest # 0
        /\ Policy = "relax" => ckpts[latest].stage # "prepared")
           => r.gain >= ckpts[latest].gain

ProgressInv == Entered /\ \A a \in Attempts : Carried(a, att[a])

\* A step inside keeps what was computed when the attempt that acts does.
LEMMA ActsCarries ==
    ASSUME NebTypes, OneNewRun, ProgressInv, NEW a, NEW r, Acts(a, r), Carried(a, r)',
           att[a].pc \notin {"idle", "over", "dead"},
           latest # 0 => latest' # 0,
           a \in Fresh /\ r.pc \in {"checked", "load", "context", "config", "prepare"} => latest' = 0,
           r.pc # "idle"
    PROVE  ProgressInv'
<1>1. NebBecomes(a, r) /\ a \in Attempts /\ owner \in {0, a}
  BY DEF Acts, NebBecomes
<1>2. att'[a] = r /\ \A b \in Attempts \ {a} : att'[b] = att[b]
  BY <1>1, OneMoves
<1>3. \A b \in Attempts \ {a} : att'[b].pc \notin Inside
  BY <1>1, <1>2, AloneInside
<1>4. a \in Resumes => latest # 0
  BY DEF ProgressInv, Entered
<1>5. used' = TRUE
  BY DEF Acts
<1>6. ASSUME latest' = 0, NEW b \in Resumes PROVE att'[b].pc = "idle"
  <2>1. latest = 0 /\ b \in Attempts
    BY <1>6 DEF Attempts
  <2>2. att[b].pc = "idle"
    BY <1>6, <2>1 DEF ProgressInv, Entered
  <2> QED BY <1>2, <1>4, <1>6, <2>1, <2>2
<1>7. ASSUME NEW b \in Fresh, att'[b].pc \in {"checked", "load", "context", "config", "prepare"}
      PROVE  latest' = 0
  <2>1. CASE b = a
    BY <1>2, <1>7, <2>1
  <2>2. CASE b # a
    <3>1. a \in Resumes /\ b \in Attempts
      BY <1>1, <2>2 DEF OneNewRun, Attempts
    <3>2. latest = 0
      BY <1>2, <1>7, <2>2, <3>1 DEF ProgressInv, Entered
    <3> QED BY <1>4, <3>1, <3>2
  <2> QED BY <2>1, <2>2
<1>8. Entered'
  BY <1>5, <1>6, <1>7 DEF Entered
<1>9. ASSUME NEW b \in Attempts PROVE Carried(b, att[b])'
  <2>1. CASE b = a
    BY <1>2, <2>1
  <2>2. CASE b # a
    BY <1>3, <2>2 DEF Carried, BeforeRunner, InRunner, Inside, Guarded, Unguarded
  <2> QED BY <2>1, <2>2
<1> QED BY <1>8, <1>9 DEF ProgressInv

\* A step outside keeps it.
LEMMA WaitsCarries ==
    ASSUME NebTypes, ProgressInv, NEW a, NEW r, Waits(a, r),
           a \in Resumes => r.pc = "idle" \/ latest # 0,
           a \in Fresh /\ r.pc = "checked" => latest = 0
    PROVE  ProgressInv'
<1>1. NebBecomes(a, r) /\ a \in Attempts
  BY DEF Waits, NebBecomes
<1>2. att'[a] = r /\ \A b \in Attempts \ {a} : att'[b] = att[b]
  BY <1>1, OneMoves
<1>3. UNCHANGED <<used, ckpts, latest>> /\ r.pc \notin Inside
  BY DEF Waits, store
<1>4. Resumes \subseteq Attempts /\ Fresh \subseteq Attempts
  BY DEF Attempts
<1>6. ASSUME latest' = 0, NEW b \in Resumes PROVE att'[b].pc = "idle"
  BY <1>2, <1>3, <1>4, <1>6 DEF ProgressInv, Entered
<1>7. ASSUME NEW b \in Fresh, att'[b].pc \in {"checked", "load", "context", "config", "prepare"}
      PROVE  latest' = 0
  BY <1>2, <1>3, <1>4, <1>7 DEF ProgressInv, Entered, Inside, Guarded, Unguarded
<1>8. Entered'
  BY <1>3, <1>6, <1>7 DEF ProgressInv, Entered
<1>9. ASSUME NEW b \in Attempts PROVE Carried(b, att[b])'
  <2>1. CASE b = a
    BY <1>2, <1>3, <2>1 DEF Carried, BeforeRunner, InRunner, Inside, Guarded, Unguarded
  <2>2. CASE b # a
    BY <1>2, <1>3, <2>2 DEF ProgressInv, Carried
  <2> QED BY <2>1, <2>2
<1> QED BY <1>8, <1>9 DEF ProgressInv


-------------------------------------------------------------------------------
(* Every step keeps both *)

\* What every step does: with one new run, it keeps what was computed as well.
Keeps == NebInv' /\ (OneNewRun /\ ProgressInv => ProgressInv')

\* A step inside that publishes no checkpoint.
LEMMA InsideKeeps ==
    ASSUME NebInv, NEW a, NEW r, Acts(a, r), UNCHANGED store, FileTypes',
           arts'.ckpt \in 0..Len(ckpts), r.ckpt <= Len(ckpts), Reported(a, r)', NoFalseSuccess',
           att[a].pc \notin {"idle", "over", "dead"}, r.pc # "idle",
           OneNewRun /\ ProgressInv =>
              /\ Carried(a, r)
              /\ a \in Fresh /\ r.pc \in {"checked", "load", "context", "config", "prepare"} => latest = 0
    PROVE  Keeps
<1>1. UNCHANGED <<ckpts, latest>>
  BY DEF store
<1>2. BandStoreTypes' /\ Len(ckpts) \in Nat /\ Len(ckpts') = Len(ckpts)
  BY <1>1 DEF NebInv, NebTypes, NebTypeOK, BandStoreTypes
<1>3. NebInv'
  BY <1>1, <1>2, ActsKeeps
<1>4. ASSUME OneNewRun, ProgressInv PROVE ProgressInv'
  <2>1. Carried(a, r)'
    BY <1>1, <1>4 DEF Carried
  <2> QED BY <1>1, <1>4, <2>1, ActsCarries DEF NebInv
<1> QED BY <1>3, <1>4 DEF Keeps

\* One that writes no file either.
LEMMA QuietKeeps ==
    ASSUME NebInv, NEW a, NEW r, Acts(a, r), UNCHANGED files, UNCHANGED store,
           r.ckpt <= Len(ckpts), Reported(a, r),
           att[a].pc \notin {"idle", "over", "dead"}, r.pc # "idle",
           OneNewRun /\ ProgressInv =>
              /\ Carried(a, r)
              /\ a \in Fresh /\ r.pc \in {"checked", "load", "context", "config", "prepare"} => latest = 0
    PROVE  Keeps
<1>1. UNCHANGED <<context, results, arts, exported>>
  BY DEF files
<1>2. FileTypes' /\ arts'.ckpt \in 0..Len(ckpts)
  BY <1>1 DEF NebInv, NebTypes, NebTypeOK, FileTypes
<1>3. Reported(a, r)' /\ NoFalseSuccess'
  BY <1>1 DEF NebInv, NoFalseSuccess, Reported
<1> QED BY <1>2, <1>3, InsideKeeps

\* The publication of a checkpoint.
LEMMA PublishKeeps ==
    ASSUME NebInv, NEW a \in Attempts, NEW stage \in Stages, NEW pc, Publish(a, stage, pc),
           \/ att[a].pc = "prepare" /\ stage = "prepared" /\ pc = "announce"
           \/ att[a].pc = "yield" /\ pc = "point"
           \/ att[a].pc = "final" /\ pc = "export"
    PROVE  Keeps
<1>0. /\ NebTypes /\ NebTypeOK /\ att[a] \in AttRecord /\ ckpts \in Seq(CkptRecord)
      /\ Reported(a, att[a])
      /\ "prepare" \in Inside /\ "yield" \in Inside /\ "final" \in Inside
      /\ pc \in Inside
  BY DEF NebInv, NebTypes, Inside, Guarded, Unguarded
<1>1. owner = a /\ used' = TRUE
  BY <1>0 DEF NebTypes, NebTypeOK, Publish
<1>2. PICK r : r = [att[a] EXCEPT !.ckpt = Len(ckpts) + 1, !.pc = pc]
  OBVIOUS
<1>3. PICK c : c = [by |-> a, stage |-> stage, gain |-> att[a].gain]
  OBVIOUS
<1>4. c \in CkptRecord /\ c.stage = stage /\ c.gain = att[a].gain /\ att[a].gain \in Nat
  BY <1>0, <1>3 DEF CkptRecord, AttRecord
<1>5. ckpts' = Append(ckpts, c) /\ latest' = Len(ckpts) + 1
  BY <1>3 DEF Publish
<1>6. /\ ckpts' \in Seq(CkptRecord) /\ Len(ckpts') = Len(ckpts) + 1 /\ Len(ckpts) \in Nat
      /\ ckpts'[Len(ckpts) + 1] = c
      /\ \A k \in 1..Len(ckpts) : ckpts'[k] = ckpts[k]
  BY <1>0, <1>4, <1>5
<1>7. /\ r \in AttRecord /\ r.pc = pc /\ r.ckpt = Len(ckpts) + 1 /\ r.gain = att[a].gain
      /\ r.from = att[a].from /\ r.source = att[a].source /\ r.verdict = att[a].verdict
  <2>1. PICK n : n = Len(ckpts) + 1
    OBVIOUS
  <2>2. n \in Nat /\ r = [att[a] EXCEPT !.ckpt = n, !.pc = pc]
    BY <1>2, <1>6, <2>1
  <2> QED BY <1>0, <2>1, <2>2 DEF AttRecord
<1>8. Acts(a, r)
  <2>1. att' = [att EXCEPT ![a] = r]
    BY <1>0, <1>2 DEF Publish, AttRecord
  <2>2. /\ raises' \in 0..MaxRaises /\ crashes' \in 0..MaxCrashes /\ owner' = owner
        /\ exported' \in BOOLEAN
    BY <1>0 DEF Publish, aux, files, NebTypeOK
  <2> QED BY <1>0, <1>1, <1>7, <2>1, <2>2 DEF Acts, NebBecomes
<1>9. FileTypes' /\ BandStoreTypes' /\ Len(ckpts) <= Len(ckpts') /\ r.ckpt <= Len(ckpts')
  <2>1. UNCHANGED <<context, results, arts, exported>>
    BY DEF Publish, files
  <2>2. arts.ckpt \in 0..Len(ckpts)
    BY <1>0 DEF NebTypeOK
  <2>3. FileTypes'
    BY <1>0, <2>1 DEF NebTypeOK, FileTypes
  <2> QED BY <1>5, <1>6, <1>7, <2>1, <2>2, <2>3 DEF BandStoreTypes
<1>10. Reported(a, r)' /\ NoFalseSuccess'
  <2>1. UNCHANGED <<results, arts>>
    BY DEF Publish, files
  <2>2. Reported(a, r)'
    BY <1>0, <1>7, <2>1 DEF Reported, Announced
  <2> QED BY <2>1, <2>2 DEF NebInv, NoFalseSuccess
<1>11. NebInv'
  BY <1>8, <1>9, <1>10, ActsKeeps
<1>12. ASSUME OneNewRun, ProgressInv PROVE ProgressInv'
  <2>1. Carried(a, att[a])
    BY <1>12 DEF ProgressInv
  <2>2. ASSUME NEW k \in 1..Len(ckpts) PROVE k \in 1..Len(ckpts') /\ ckpts'[k] = ckpts[k]
    BY <1>6, <2>2
  <2>3. ckpts'[latest'].gain = r.gain /\ ckpts'[latest'].stage = stage /\ latest' # 0
    BY <1>4, <1>5, <1>6, <1>7
  <2>4. a \in Resumes /\ r.pc \in BeforeRunner =>
          /\ r.from \in 1..Len(ckpts')
          /\ r.gain = ckpts'[r.from].gain
          /\ r.source = SourceOf(ckpts'[r.from].stage)
    BY <1>7, <2>1, <2>2 DEF Carried, BeforeRunner
  <2>5. a \in Resumes /\ r.pc \in InRunner =>
          /\ r.from \in 1..Len(ckpts')
          /\ ckpts'[r.from].stage # "prepared" => r.gain >= ckpts'[r.from].gain
    BY <1>7, <2>1, <2>2 DEF Carried, InRunner
  <2>6. r.pc \in {"announce", "construct", "begin"} => ckpts'[latest'].stage = "prepared"
    BY <1>7, <2>3
  <2>7. Carried(a, r)'
    BY <1>4, <1>7, <2>3, <2>4, <2>5, <2>6 DEF Carried
  <2> QED BY <1>0, <1>7, <1>8, <1>12, <2>3, <2>7, ActsCarries
<1> QED BY <1>11, <1>12 DEF Keeps

\* A step of an attempt that is inside.
LEMMA Inner ==
    ASSUME NebInv, NEW a \in Attempts, att[a].pc \in Inside, NEW r \in AttRecord,
           att' = [att EXCEPT ![a] = r], owner' = IF r.pc \in Inside THEN a ELSE 0,
           UNCHANGED used, exported' \in BOOLEAN,
           raises' \in 0..MaxRaises, crashes' \in 0..MaxCrashes
    PROVE  Acts(a, r)
BY DEF NebInv, NebTypes, NebTypeOK, Acts, NebBecomes

\* Entering the directory, or being refused.
LEMMA EnteringKeeps ==
    ASSUME NebInv, NEW a \in Attempts, Preflight(a) \/ Enter(a) \/ Refused(a)
    PROVE  Keeps
<1>0. /\ NebTypes /\ NebTypeOK /\ att[a] \in AttRecord
      /\ att[a].ckpt <= Len(ckpts) /\ Len(ckpts) \in Nat
      /\ \A v \in {"idle", "checked", "over"} : v \notin Inside
      /\ {"load", "checked", "over"} \subseteq Inside \cup {"idle", "checked", "over", "dead"}
      /\ "load" \in Inside
  BY DEF NebInv, NebTypes, Inside, Guarded, Unguarded
<1>1. Resumes \subseteq Attempts /\ Fresh \subseteq Attempts /\ Fresh \cap Resumes = {} /\ a \in Fresh \cup Resumes
  BY NebRunAssumption DEF Attempts
<1>2. CASE Preflight(a)
  <2>1. PICK r : r = [att[a] EXCEPT !.pc = "checked"]
    OBVIOUS
  <2>2. r \in AttRecord /\ r.pc = "checked" /\ r.ckpt = att[a].ckpt
    BY <1>0, <2>1 DEF AttRecord
  <2>3. Waits(a, r)
    BY <1>0, <1>2, <2>1, <2>2 DEF Preflight, At, Goto, Waits, NebBecomes, aux, NebTypeOK
  <2>4. NebInv'
    BY <1>0, <2>2, <2>3, WaitsKeeps
  <2>5. ASSUME ProgressInv PROVE ProgressInv'
    <3>1. a \in Resumes => latest # 0
      BY <1>1, <1>2 DEF Preflight
    <3>2. a \in Fresh => latest = 0
      BY <1>2, <2>5 DEF Preflight, ProgressInv, Entered
    <3> QED BY <1>0, <2>3, <2>5, <3>1, <3>2, WaitsCarries
  <2> QED BY <2>4, <2>5 DEF Keeps
<1>3. CASE Refused(a)
  <2>1. PICK r : r = Nothing("over")
    OBVIOUS
  <2>2. r \in AttRecord /\ r.pc = "over" /\ r.ckpt = 0
    BY <1>0, <2>1 DEF AttRecord, Nothing, Stages
  <2>3. Waits(a, r)
    BY <1>0, <1>3, <2>1, <2>2 DEF Refused, At, Quit, Waits, NebBecomes, aux, NebTypeOK
  <2>4. NebInv'
    BY <1>0, <2>2, <2>3, WaitsKeeps
  <2>5. ASSUME ProgressInv PROVE ProgressInv'
    <3>1. a \in Resumes => latest # 0
      BY <1>3, <2>5 DEF Refused, At, ProgressInv, Entered
    <3> QED BY <1>0, <2>2, <2>3, <2>5, <3>1, WaitsCarries
  <2> QED BY <2>4, <2>5 DEF Keeps
<1>4. CASE Enter(a)
  <2>1. PICK r : r = [att[a] EXCEPT !.pc = "load"]
    OBVIOUS
  <2>2. r \in AttRecord /\ r.pc = "load" /\ r.ckpt = att[a].ckpt
    BY <1>0, <2>1 DEF AttRecord
  <2>3. Acts(a, r)
    BY <1>0, <1>4, <2>1, <2>2 DEF Enter, At, Goto, Acts, NebBecomes, aux, files, NebTypeOK
  <2>4. Reported(a, r) /\ Carried(a, r)
    BY <2>2 DEF Reported, Carried, Announced, BeforeRunner, InRunner
  <2>5. ProgressInv => (a \in Fresh => latest = 0)
    BY <1>4 DEF Enter, At, ProgressInv, Entered
  <2>6. att[a].pc = "checked" /\ UNCHANGED files /\ UNCHANGED store
    BY <1>4 DEF Enter, At
  <2> QED BY <1>0, <2>2, <2>3, <2>4, <2>5, <2>6, QuietKeeps
<1> QED BY <1>2, <1>3, <1>4

\* The steps inside that write no file.
LEMMA ThinkingKeeps ==
    ASSUME NebInv, NEW a \in Attempts,
           \/ LoadEndpoints(a) \/ LoadCheckpoint(a) \/ WriteConfig(a) \/ Construct(a) \/ Begin(a)
           \/ Skip(a) \/ Advance(a) \/ (\E c \in BOOLEAN : StageEnds(a, c)) \/ Leave(a)
           \/ (\E v \in {"failed", "cancelled"} : Raise(a, v))
    PROVE  Keeps
<1>0. /\ NebTypes /\ NebTypeOK /\ att[a] \in AttRecord /\ ckpts \in Seq(CkptRecord)
      /\ att[a].ckpt <= Len(ckpts) /\ Len(ckpts) \in Nat
      /\ Reported(a, att[a]) /\ (ProgressInv => Carried(a, att[a]))
  BY DEF NebInv, NebTypes, ProgressInv
<1>1. /\ {"context", "prepare", "begin", "yield", "step", "final", "failResults", "leave"} \subseteq Inside
      /\ Inside \subseteq Inside \cup {"idle", "checked", "over", "dead"}
      /\ "over" \in Inside \cup {"idle", "checked", "over", "dead"} /\ "over" \notin Inside
      /\ att[a].pc \in Inside => att[a].pc \notin {"idle", "over", "dead"}
      /\ "idle" \notin Inside
  BY DEF Inside, Guarded, Unguarded
<1>2. att[a].pc \in Inside /\ UNCHANGED <<used, files, store>>
  BY DEF LoadEndpoints, LoadCheckpoint, WriteConfig, Construct, Begin, Skip, Advance, StageEnds, Leave, Raise, At,
         Inside, Guarded, Unguarded
<1>3. raises' \in 0..MaxRaises /\ crashes' \in 0..MaxCrashes /\ exported' \in BOOLEAN
  <2>1. raises' \in 0..MaxRaises /\ crashes' \in 0..MaxCrashes
    <3>1. CASE UNCHANGED aux
      BY <1>0, <3>1 DEF NebTypeOK, aux
    <3>2. ASSUME NEW v \in {"failed", "cancelled"}, Raise(a, v)
          PROVE  raises' \in 0..MaxRaises /\ crashes' \in 0..MaxCrashes
      BY <1>0, <3>2, NebRunAssumption DEF NebTypeOK, Raise
    <3> QED BY <3>1, <3>2 DEF LoadEndpoints, LoadCheckpoint, WriteConfig, Construct, Begin, Skip, Advance,
                              StageEnds, Leave
  <2> QED BY <1>0, <1>2, <2>1 DEF NebTypeOK, files
<1>4. owner = a
  BY <1>0, <1>2 DEF NebTypeOK
<1>5. Fresh \cap Resumes = {} /\ a \in Fresh \cup Resumes
  BY NebRunAssumption DEF Attempts
<1>6. ASSUME NEW r \in AttRecord, att' = [att EXCEPT ![a] = r], owner' = IF r.pc \in Inside THEN a ELSE 0,
             r.ckpt <= Len(ckpts), Reported(a, r), r.pc # "idle",
             OneNewRun /\ ProgressInv =>
                /\ Carried(a, r)
                /\ a \in Fresh /\ r.pc \in {"checked", "load", "context", "config", "prepare"} => latest = 0
      PROVE  Keeps
  <2>1. Acts(a, r)
    BY <1>2, <1>3, <1>6, Inner
  <2> QED BY <1>1, <1>2, <1>6, <2>1, QuietKeeps
<1>7. CASE WriteConfig(a)
  <2>1. PICK r : r = [att[a] EXCEPT !.pc = "prepare"]
    OBVIOUS
  <2>3. r \in AttRecord /\ r.pc = "prepare" /\ r.ckpt = att[a].ckpt /\ r.verdict = att[a].verdict /\ r.gain = att[a].gain
      /\ r.from = att[a].from /\ r.source = att[a].source
    BY <1>0, <1>1, <2>1 DEF AttRecord
  <2>4. att' = [att EXCEPT ![a] = r] /\ UNCHANGED owner
    BY <1>0, <1>7, <2>1 DEF WriteConfig, At, Goto, AttRecord
  <2>5. Reported(a, r)
    BY <1>0, <1>7, <2>3 DEF Reported, Announced, At, WriteConfig, At, Goto
  <2>6. ASSUME ProgressInv PROVE Carried(a, r) /\ (a \in Fresh /\ r.pc \in {"checked", "load", "context", "config", "prepare"} => latest = 0)
    <3>1. att[a].pc = "config"
      BY <1>7 DEF WriteConfig, At
    <3> QED BY <1>0, <2>3, <2>6, <3>1 DEF Carried, BeforeRunner, InRunner, ProgressInv, Entered
  <2> QED BY <1>0, <1>1, <1>4, <1>6, <2>3, <2>4, <2>5, <2>6
<1>8. CASE Construct(a)
  <2>1. PICK r : r = [att[a] EXCEPT !.pc = "begin"]
    OBVIOUS
  <2>3. r \in AttRecord /\ r.pc = "begin" /\ r.ckpt = att[a].ckpt /\ r.verdict = att[a].verdict /\ r.gain = att[a].gain
      /\ r.from = att[a].from /\ r.source = att[a].source
    BY <1>0, <1>1, <2>1 DEF AttRecord
  <2>4. att' = [att EXCEPT ![a] = r] /\ UNCHANGED owner
    BY <1>0, <1>8, <2>1 DEF Construct, At, Goto, AttRecord
  <2>5. Reported(a, r)
    BY <1>0, <1>8, <2>3 DEF Reported, Announced, At, Construct, At, Goto
  <2>6. ASSUME ProgressInv PROVE Carried(a, r) /\ (a \in Fresh /\ r.pc \in {"checked", "load", "context", "config", "prepare"} => latest = 0)
    <3>1. att[a].pc = "construct"
      BY <1>8 DEF Construct, At
    <3> QED BY <1>0, <2>3, <2>6, <3>1 DEF Carried, BeforeRunner, InRunner, ProgressInv, Entered
  <2> QED BY <1>0, <1>1, <1>4, <1>6, <2>3, <2>4, <2>5, <2>6
<1>9. CASE Skip(a)
  <2>1. PICK r : r = [att[a] EXCEPT !.pc = "step"]
    OBVIOUS
  <2>3. r \in AttRecord /\ r.pc = "step" /\ r.ckpt = att[a].ckpt /\ r.verdict = att[a].verdict /\ r.gain = att[a].gain
      /\ r.from = att[a].from /\ r.source = att[a].source
    BY <1>0, <1>1, <2>1 DEF AttRecord
  <2>4. att' = [att EXCEPT ![a] = r] /\ UNCHANGED owner
    BY <1>0, <1>9, <2>1 DEF Skip, At, Goto, AttRecord
  <2>5. Reported(a, r)
    BY <1>0, <1>9, <2>3 DEF Reported, Announced, At, Skip, At, Goto
  <2>6. ASSUME ProgressInv PROVE Carried(a, r) /\ (a \in Fresh /\ r.pc \in {"checked", "load", "context", "config", "prepare"} => latest = 0)
    <3>1. att[a].pc = "yield"
      BY <1>9 DEF Skip, At
    <3> QED BY <1>0, <2>3, <2>6, <3>1 DEF Carried, BeforeRunner, InRunner, ProgressInv, Entered
  <2> QED BY <1>0, <1>1, <1>4, <1>6, <2>3, <2>4, <2>5, <2>6
<1>10. CASE LoadEndpoints(a)
  <2>1. PICK r : r = [att[a] EXCEPT !.pc = "context"]
    OBVIOUS
  <2>3. r \in AttRecord /\ r.pc = "context" /\ r.ckpt = att[a].ckpt /\ r.verdict = att[a].verdict /\ r.gain = att[a].gain
      /\ r.from = att[a].from /\ r.source = att[a].source
    BY <1>0, <1>1, <2>1 DEF AttRecord
  <2>4. att' = [att EXCEPT ![a] = r] /\ UNCHANGED owner
    BY <1>0, <1>10, <2>1 DEF LoadEndpoints, At, Goto, AttRecord
  <2>5. Reported(a, r)
    BY <1>0, <1>10, <2>3 DEF Reported, Announced, At, LoadEndpoints, At, Goto
  <2>6. ASSUME ProgressInv PROVE Carried(a, r) /\ (a \in Fresh /\ r.pc \in {"checked", "load", "context", "config", "prepare"} => latest = 0)
    <3>1. att[a].pc = "load"
      BY <1>10 DEF LoadEndpoints, At
    <3>2. a \in Fresh /\ a \notin Resumes
      BY <1>5, <1>10 DEF LoadEndpoints
    <3> QED BY <2>3, <2>6, <3>1, <3>2 DEF Carried, BeforeRunner, InRunner, ProgressInv, Entered
  <2> QED BY <1>0, <1>1, <1>4, <1>6, <2>3, <2>4, <2>5, <2>6
<1>11. CASE LoadCheckpoint(a)
  <2>1. PICK r : r = [att[a] EXCEPT !.pc = "context", !.gain = ckpts[latest].gain, !.from = latest,
                              !.source = SourceOf(ckpts[latest].stage)]
    OBVIOUS
  <2>2. /\ latest \in 1..Len(ckpts) /\ latest \in Nat /\ ckpts[latest].gain \in Nat
        /\ SourceOf(ckpts[latest].stage) \in {"checkpoint_prepared", "checkpoint_optimized_band"}
    <3>1. latest \in 1..Len(ckpts) /\ latest \in Nat
      BY <1>0, <1>11 DEF LoadCheckpoint, NebTypeOK
    <3>2. ckpts[latest] \in CkptRecord
      BY <1>0, <3>1
    <3> QED BY <3>1, <3>2 DEF CkptRecord, SourceOf
  <2>3. r \in AttRecord /\ r.pc = "context" /\ r.ckpt = att[a].ckpt /\ r.verdict = att[a].verdict /\ r.gain = ckpts[latest].gain
      /\ r.from = latest /\ r.source = SourceOf(ckpts[latest].stage)
    BY <1>0, <1>1, <2>1, <2>2 DEF AttRecord
  <2>4. att' = [att EXCEPT ![a] = r] /\ UNCHANGED owner
    BY <1>0, <1>11, <2>1 DEF LoadCheckpoint, At, AttRecord
  <2>5. Reported(a, r)
    BY <1>0, <1>11, <2>3 DEF Reported, Announced, At, LoadCheckpoint, At
  <2>6. ASSUME ProgressInv PROVE Carried(a, r) /\ (a \in Fresh /\ r.pc \in {"checked", "load", "context", "config", "prepare"} => latest = 0)
    <3>1. a \in Resumes /\ a \notin Fresh
      BY <1>5, <1>11 DEF LoadCheckpoint
    <3> QED BY <2>2, <2>3, <3>1 DEF Carried, BeforeRunner, InRunner
  <2> QED BY <1>0, <1>1, <1>4, <1>6, <2>3, <2>4, <2>5, <2>6
<1>12. CASE Begin(a)
  <2>0. PICK g : g = IF /\ Policy = "relax"
                        /\ att[a].source # "checkpoint_optimized_band"
                     THEN 0 ELSE att[a].gain
    OBVIOUS
  <2>1. PICK r : r = [att[a] EXCEPT !.pc = "yield", !.stage = FirstStage, !.step = 0, !.gain = g]
    OBVIOUS
  <2>2. FirstStage \in Stages /\ att[a].gain \in Nat /\ g \in Nat
        /\ (Policy # "relax" \/ att[a].source = "checkpoint_optimized_band" => g = att[a].gain)
    BY <1>0, <2>0 DEF FirstStage, Stages, AttRecord
  <2>3. r \in AttRecord /\ r.pc = "yield" /\ r.ckpt = att[a].ckpt /\ r.verdict = att[a].verdict
      /\ r.from = att[a].from /\ r.source = att[a].source /\ att[a].gain \in Nat /\ r.gain \in Nat
      /\ (Policy # "relax" \/ att[a].source = "checkpoint_optimized_band" => r.gain = att[a].gain)
    BY <1>0, <1>1, <2>1, <2>2 DEF AttRecord
  <2>4. att' = [att EXCEPT ![a] = r] /\ UNCHANGED owner
    <3>1. att' = [att EXCEPT ![a] = [att[a] EXCEPT !.pc = "yield", !.stage = FirstStage, !.step = 0,
                              !.gain = IF /\ Policy = "relax"
                                          /\ att[a].source # "checkpoint_optimized_band"
                                       THEN 0 ELSE att[a].gain]]
      BY <1>0, <1>12 DEF Begin
    <3>2. att' = [att EXCEPT ![a] = r]
      BY <2>0, <2>1, <3>1
    <3> QED BY <1>12, <3>2 DEF Begin
  <2>5. Reported(a, r)
    BY <1>0, <1>12, <2>3 DEF Reported, Announced, At, Begin, At
  <2>6. ASSUME ProgressInv PROVE Carried(a, r) /\ (a \in Fresh /\ r.pc \in {"checked", "load", "context", "config", "prepare"} => latest = 0)
    <3>1. att[a].pc = "begin"
      BY <1>12 DEF Begin, At
    <3>2. /\ latest # 0 /\ ckpts[latest].stage = "prepared"
          /\ (Policy = "relax" => ckpts[latest].stage # "prepared") => att[a].gain >= ckpts[latest].gain
      BY <1>0, <2>6, <3>1 DEF Carried, BeforeRunner
    <3>3. (Policy = "relax" => ckpts[latest].stage # "prepared") => r.gain >= ckpts[latest].gain
      BY <2>3, <3>2
    <3>4. ASSUME a \in Resumes
          PROVE  /\ r.from \in 1..Len(ckpts)
                 /\ ckpts[r.from].stage # "prepared" => r.gain >= ckpts[r.from].gain
      <4>1. /\ att[a].from \in 1..Len(ckpts) /\ att[a].gain = ckpts[att[a].from].gain
            /\ att[a].source = SourceOf(ckpts[att[a].from].stage)
        BY <1>0, <2>6, <3>1, <3>4 DEF Carried, BeforeRunner
      <4>2. ckpts[r.from].stage # "prepared" => r.gain = att[a].gain
        BY <2>3, <4>1 DEF SourceOf
      <4> QED BY <2>3, <4>1, <4>2
    <3> QED BY <2>3, <3>3, <3>4 DEF Carried, BeforeRunner, InRunner
  <2> QED BY <1>0, <1>1, <1>4, <1>6, <2>3, <2>4, <2>5, <2>6
<1>13. CASE Advance(a)
  <2>0. PICK s, g : s = att[a].step + 1 /\ g = att[a].gain + 1
    OBVIOUS
  <2>9. att[a].gain \in Nat /\ g = att[a].gain + 1 /\ g \in Nat /\ s \in Nat
    BY <1>0, <2>0 DEF AttRecord
  <2>1. PICK r : r = [att[a] EXCEPT !.pc = "yield", !.step = s, !.gain = g]
    OBVIOUS
  <2>2. \A k \in 0..Len(ckpts) : k # 0 => ckpts[k].gain \in Nat
    <3> SUFFICES ASSUME NEW k \in 0..Len(ckpts), k # 0 PROVE ckpts[k].gain \in Nat
      OBVIOUS
    <3>1. k \in 1..Len(ckpts)
      BY <1>0
    <3>2. ckpts[k] \in CkptRecord
      BY <1>0, <3>1
    <3> QED BY <3>2 DEF CkptRecord
  <2>3. r \in AttRecord /\ r.pc = "yield" /\ r.ckpt = att[a].ckpt /\ r.verdict = att[a].verdict /\ r.gain = g
      /\ r.from = att[a].from /\ r.source = att[a].source /\ att[a].gain \in Nat
    BY <1>0, <1>1, <2>1, <2>9 DEF AttRecord
  <2>4. att' = [att EXCEPT ![a] = r] /\ UNCHANGED owner
    <3>1. att' = [att EXCEPT ![a] = [att[a] EXCEPT !.pc = "yield", !.step = att[a].step + 1,
                                                   !.gain = att[a].gain + 1]]
      BY <1>0, <1>13, <2>9 DEF Advance, At
    <3>2. att' = [att EXCEPT ![a] = r]
      BY <2>0, <2>1, <3>1
    <3> QED BY <1>13, <3>2 DEF Advance
  <2>5. Reported(a, r)
    BY <1>0, <1>13, <2>3 DEF Reported, Announced, At, Advance, At
  <2>6. ASSUME ProgressInv PROVE Carried(a, r) /\ (a \in Fresh /\ r.pc \in {"checked", "load", "context", "config", "prepare"} => latest = 0)
    <3>1. att[a].pc = "step"
      BY <1>13 DEF Advance, At
    <3>2. Carried(a, att[a]) /\ r.gain \in Nat /\ r.gain > att[a].gain /\ latest \in 0..Len(ckpts)
      BY <1>0, <2>3, <2>6, <2>9 DEF NebTypeOK
    <3>3. \A k \in 1..Len(ckpts) : att[a].gain >= ckpts[k].gain => r.gain >= ckpts[k].gain
      <4> SUFFICES ASSUME NEW k \in 1..Len(ckpts), att[a].gain >= ckpts[k].gain PROVE r.gain >= ckpts[k].gain
        OBVIOUS
      <4>1. ckpts[k].gain \in Nat
        BY <1>0, <2>2
      <4> QED BY <2>9, <3>2, <4>1
    <3>4. latest # 0 => latest \in 1..Len(ckpts)
      BY <1>0, <3>2
    <3> QED BY <2>3, <3>1, <3>2, <3>3, <3>4 DEF Carried, BeforeRunner, InRunner
  <2> QED BY <1>0, <1>1, <1>4, <1>6, <2>3, <2>4, <2>5, <2>6
<1>14. ASSUME NEW c \in BOOLEAN, StageEnds(a, c) PROVE Keeps
  <2>0. att[a].pc = "step" /\ UNCHANGED owner
    BY <1>14 DEF StageEnds, At
  <2>1. PICK r : r = IF c /\ att[a].stage = "neb_pre"
                     THEN [att[a] EXCEPT !.pc = "yield", !.stage = "ci_neb", !.step = 0]
                     ELSE [att[a] EXCEPT !.pc = "final", !.verdict = IF c THEN "completed" ELSE "not_converged"]
    OBVIOUS
  <2>2. att' = [att EXCEPT ![a] = r]
    BY <1>0, <1>14, <2>1 DEF StageEnds, AttRecord
  <2>3. /\ r \in AttRecord /\ r.pc \in {"yield", "final"} /\ r.ckpt = att[a].ckpt
        /\ r.gain = att[a].gain /\ r.from = att[a].from
    <3>1. CASE c /\ att[a].stage = "neb_pre"
      BY <1>0, <1>1, <2>1, <3>1 DEF AttRecord, Stages
    <3>2. CASE ~(c /\ att[a].stage = "neb_pre")
      <4>1. PICK v : v = IF c THEN "completed" ELSE "not_converged"
        OBVIOUS
      <4>2. v \in Verdicts /\ r = [att[a] EXCEPT !.pc = "final", !.verdict = v]
        BY <2>1, <3>2, <4>1 DEF Verdicts
      <4> QED BY <1>0, <1>1, <4>2 DEF AttRecord
    <3> QED BY <3>1, <3>2
  <2>4. Reported(a, r)
    BY <1>0, <2>0, <2>3 DEF Reported, Announced
  <2>5. ProgressInv => Carried(a, r)
    BY <1>0, <2>0, <2>3 DEF Carried, BeforeRunner, InRunner
  <2> QED BY <1>0, <1>1, <1>4, <1>6, <2>0, <2>2, <2>3, <2>4, <2>5
<1>15. CASE Leave(a)
  <2>1. PICK r : r = Nothing("over")
    OBVIOUS
  <2>2. r \in AttRecord /\ r.pc = "over" /\ r.ckpt = 0
    BY <1>1, <2>1 DEF AttRecord, Nothing, Stages
  <2>3. att' = [att EXCEPT ![a] = r] /\ owner' = 0
    BY <1>15, <2>1 DEF Leave, Quit
  <2>4. Reported(a, r) /\ Carried(a, r)
    BY <2>2 DEF Reported, Carried, Announced, BeforeRunner, InRunner
  <2>5. owner' = IF r.pc \in Inside THEN a ELSE 0
    BY <1>1, <2>2, <2>3
  <2>6. r.ckpt <= Len(ckpts)
    BY <1>0, <2>2
  <2> QED BY <1>6, <2>2, <2>3, <2>4, <2>5, <2>6
<1>16. ASSUME NEW v \in {"failed", "cancelled"}, Raise(a, v) PROVE Keeps
  <2>1. PICK r : r = IF att[a].pc \in Guarded
                     THEN [att[a] EXCEPT !.pc = "failResults", !.verdict = v]
                     ELSE [att[a] EXCEPT !.pc = "leave"]
    OBVIOUS
  <2>2. att' = [att EXCEPT ![a] = r] /\ UNCHANGED owner
    BY <1>0, <1>16, <2>1 DEF Raise
  <2>3. /\ r \in AttRecord /\ r.ckpt = att[a].ckpt
        /\ \/ r.pc = "failResults" /\ r.verdict \in {"failed", "cancelled"}
           \/ r.pc = "leave"
    <3>1. v \in Verdicts
      BY DEF Verdicts
    <3> QED BY <1>0, <1>1, <2>1, <3>1 DEF AttRecord
  <2>4. Reported(a, r) /\ Carried(a, r)
    BY <2>3 DEF Reported, Carried, Announced, BeforeRunner, InRunner
  <2> QED BY <1>0, <1>1, <1>4, <1>6, <2>2, <2>3, <2>4
<1> QED BY <1>7, <1>8, <1>9, <1>10, <1>11, <1>12, <1>13, <1>14, <1>15, <1>16

\* The steps inside that write a report.
LEMMA ReportingKeeps ==
    ASSUME NebInv, NEW a \in Attempts,
           \/ WriteContext(a) \/ Announce(a) \/ Point(a) \/ Export(a)
           \/ WriteResults(a) \/ WriteOutcome(a) \/ WriteArtifacts(a)
    PROVE  Keeps
<1>0. /\ NebTypes /\ NebTypeOK /\ att[a] \in AttRecord
      /\ att[a].ckpt \in 0..Len(ckpts) /\ Len(ckpts) \in Nat /\ att[a].verdict \in Verdicts \cup {"none"}
      /\ Reported(a, att[a]) /\ (ProgressInv => Carried(a, att[a])) /\ NoFalseSuccess
  BY DEF NebInv, NebTypes, ProgressInv, AttRecord
<1>1. /\ {"config", "construct", "step", "results", "record", "artifacts", "return", "leave",
          "failResults", "failRecord", "failArtifacts"} \subseteq Inside
      /\ Inside \subseteq Inside \cup {"idle", "checked", "over", "dead"}
      /\ att[a].pc \in Inside => att[a].pc \notin {"idle", "over", "dead"}
      /\ "idle" \notin Inside
  BY DEF Inside, Guarded, Unguarded
<1>2. att[a].pc \in Inside
  BY DEF WriteContext, Announce, Point, Export, WriteResults, WriteOutcome, WriteArtifacts, At, Inside, Guarded, Unguarded
<1>3. owner = a
  BY <1>0, <1>2 DEF NebTypeOK
<1>4. FileTypes /\ arts.ckpt \in 0..Len(ckpts) /\ exported \in BOOLEAN
  BY <1>0 DEF NebTypeOK, FileTypes
<1>5. /\ UNCHANGED <<owner, used, store>> /\ raises' \in 0..MaxRaises /\ crashes' \in 0..MaxCrashes
  BY <1>0 DEF WriteContext, Announce, Point, PointArtifacts, Export, WriteResults, WriteOutcome, WriteArtifacts, aux,
              NebTypeOK
<1>6. ASSUME NEW r \in AttRecord, att' = [att EXCEPT ![a] = r], r.pc \in Inside, r.ckpt = att[a].ckpt,
             FileTypes', arts'.ckpt \in 0..Len(ckpts), exported' \in BOOLEAN,
             Reported(a, r)', NoFalseSuccess',
             OneNewRun /\ ProgressInv =>
                /\ Carried(a, r)
                /\ a \in Fresh /\ r.pc \in {"checked", "load", "context", "config", "prepare"} => latest = 0
      PROVE  Keeps
  <2>1. owner' = IF r.pc \in Inside THEN a ELSE 0
    BY <1>3, <1>5, <1>6
  <2>2. Acts(a, r)
    BY <1>2, <1>5, <1>6, <2>1, Inner
  <2>3. r.pc # "idle" /\ r.ckpt <= Len(ckpts)
    BY <1>0, <1>1, <1>6
  <2> QED BY <1>1, <1>2, <1>5, <1>6, <2>2, <2>3, InsideKeeps
<1>7. ASSUME NEW p \in Inside, NEW r, r = [att[a] EXCEPT !.pc = p]
      PROVE  /\ r \in AttRecord /\ r.pc = p /\ r.ckpt = att[a].ckpt /\ r.verdict = att[a].verdict
             /\ r.gain = att[a].gain /\ r.from = att[a].from /\ r.source = att[a].source
  BY <1>0, <1>1, <1>7 DEF AttRecord
<1>8. \A v : Report(a, v).by = a /\ Report(a, v).status = v
  BY DEF Report
<1>9. CASE WriteContext(a)
  <2>0. att[a].pc = "context" /\ context' = Report(a, "running") /\ UNCHANGED <<results, arts, exported>>
    BY <1>9 DEF WriteContext, At
  <2>1. PICK r : r = [att[a] EXCEPT !.pc = "config"]
    OBVIOUS
  <2>2. /\ r \in AttRecord /\ r.pc = "config" /\ r.ckpt = att[a].ckpt
        /\ r.gain = att[a].gain /\ r.from = att[a].from /\ r.source = att[a].source
    BY <1>1, <1>7, <2>1
  <2>3. att' = [att EXCEPT ![a] = r]
    BY <1>9, <2>1 DEF WriteContext, Goto
  <2>4. FileTypes'
    BY <1>4, <1>8, <2>0 DEF FileTypes
  <2>5. Reported(a, r)' /\ NoFalseSuccess'
    BY <1>0, <2>0, <2>2 DEF Reported, Announced, NoFalseSuccess
  <2>6. ProgressInv => /\ Carried(a, r)
                       /\ a \in Fresh /\ r.pc \in {"checked", "load", "context", "config", "prepare"} => latest = 0
    BY <1>0, <2>0, <2>2 DEF Carried, BeforeRunner, InRunner, ProgressInv, Entered
  <2> QED BY <1>1, <1>4, <1>6, <2>0, <2>2, <2>3, <2>4, <2>5, <2>6
<1>10. ASSUME NEW p \in {"construct", "step"}, PointArtifacts(a, p),
              \/ p = "construct" /\ att[a].pc = "announce"
              \/ p = "step" /\ att[a].pc = "point"
       PROVE  Keeps
  <2>0. /\ arts'.by = a /\ arts'.ckpt = att[a].ckpt /\ arts'.result = FALSE
        /\ UNCHANGED <<context, results, exported>>
    BY <1>10 DEF PointArtifacts
  <2>1. PICK r : r = [att[a] EXCEPT !.pc = p]
    OBVIOUS
  <2>2. /\ r \in AttRecord /\ r.pc = p /\ r.ckpt = att[a].ckpt
        /\ r.gain = att[a].gain /\ r.from = att[a].from /\ r.source = att[a].source
    BY <1>1, <1>7, <2>1
  <2>3. att' = [att EXCEPT ![a] = r]
    BY <1>10, <2>1 DEF PointArtifacts, Goto
  <2>4. FileTypes'
    BY <1>4, <2>0 DEF FileTypes
  <2>5. Reported(a, r)' /\ NoFalseSuccess'
    BY <2>0, <2>2 DEF Reported, Announced, NoFalseSuccess
  <2>6. ProgressInv => Carried(a, r)
    BY <1>0, <1>10, <2>2 DEF Carried, BeforeRunner, InRunner
  <2> QED BY <1>0, <1>1, <1>4, <1>6, <2>0, <2>2, <2>3, <2>4, <2>5, <2>6
<1>11. CASE Export(a)
  <2>0. att[a].pc = "export" /\ exported' \in BOOLEAN /\ UNCHANGED <<context, results, arts>>
    BY <1>4, <1>11 DEF Export, At
  <2>1. PICK r : r = IF a \in Fresh /\ exported
                     THEN [att[a] EXCEPT !.pc = "failResults", !.verdict = "failed"]
                     ELSE [att[a] EXCEPT !.pc = "results"]
    OBVIOUS
  <2>2. /\ r \in AttRecord /\ r.ckpt = att[a].ckpt
        /\ \/ r.pc = "failResults" /\ r.verdict = "failed"
           \/ r.pc = "results" /\ r.verdict = att[a].verdict
    BY <1>0, <1>1, <2>1 DEF AttRecord, Verdicts
  <2>3. att' = [att EXCEPT ![a] = r]
    <3>1. CASE a \in Fresh /\ exported
      <4>1. att' = [att EXCEPT ![a].pc = "failResults", ![a].verdict = "failed"]
        BY <1>11, <3>1 DEF Export
      <4> QED BY <1>0, <2>1, <3>1, <4>1 DEF NebTypes
    <3>2. CASE ~(a \in Fresh /\ exported)
      BY <1>11, <2>1, <3>2 DEF Export, Goto
    <3> QED BY <3>1, <3>2
  <2>4. FileTypes'
    BY <1>4, <2>0 DEF FileTypes
  <2>5. Reported(a, r)' /\ NoFalseSuccess'
    BY <1>0, <2>0, <2>2 DEF Reported, Announced, NoFalseSuccess
  <2>6. Carried(a, r)
    BY <2>2 DEF Carried, BeforeRunner, InRunner
  <2> QED BY <1>0, <1>1, <1>4, <1>6, <2>0, <2>2, <2>3, <2>4, <2>5, <2>6
<1>12. CASE WriteResults(a)
  <2>0. /\ att[a].pc \in {"results", "failResults"} /\ results' = Report(a, att[a].verdict)
        /\ UNCHANGED <<context, arts, exported>>
    BY <1>12 DEF WriteResults
  <2>1. PICK p : p = IF att[a].pc = "results" THEN "record" ELSE "failRecord"
    OBVIOUS
  <2>2. PICK r : r = [att[a] EXCEPT !.pc = p]
    OBVIOUS
  <2>3. p \in {"record", "failRecord"} /\ p \in Inside
    BY <1>1, <2>1
  <2>4. r \in AttRecord /\ r.pc = p /\ r.ckpt = att[a].ckpt /\ r.verdict = att[a].verdict
    BY <1>7, <2>2, <2>3
  <2>5. att' = [att EXCEPT ![a] = r]
    BY <1>12, <2>1, <2>2 DEF WriteResults, Goto, At
  <2>6. FileTypes'
    BY <1>0, <1>4, <1>8, <2>0 DEF FileTypes
  <2>7. att[a].pc = "results" => ~arts.result
    BY <1>0 DEF Reported, Announced
  <2>8. att[a].pc = "failResults" => att[a].verdict \in {"failed", "cancelled"}
    BY <1>0 DEF Reported
  <2>9. Reported(a, r)'
    BY <2>0, <2>1, <2>4, <2>7, <2>8 DEF Reported, Announced
  <2>10. NoFalseSuccess'
    BY <1>8, <2>0, <2>7, <2>8 DEF NoFalseSuccess
  <2>11. Carried(a, r)
    BY <2>3, <2>4 DEF Carried, BeforeRunner, InRunner
  <2> QED BY <1>0, <1>1, <1>4, <1>6, <2>0, <2>3, <2>4, <2>5, <2>6, <2>9, <2>10, <2>11
<1>13. CASE WriteOutcome(a)
  <2>0. /\ att[a].pc \in {"record", "failRecord"} /\ context' = Report(a, att[a].verdict)
        /\ UNCHANGED <<results, arts, exported>>
    BY <1>13 DEF WriteOutcome
  <2>1. PICK p : p = IF att[a].pc = "record" THEN "artifacts" ELSE "failArtifacts"
    OBVIOUS
  <2>2. PICK r : r = [att[a] EXCEPT !.pc = p]
    OBVIOUS
  <2>3. p \in {"artifacts", "failArtifacts"} /\ p \in Inside
    BY <1>1, <2>1
  <2>4. r \in AttRecord /\ r.pc = p /\ r.ckpt = att[a].ckpt /\ r.verdict = att[a].verdict
    BY <1>7, <2>2, <2>3
  <2>5. att' = [att EXCEPT ![a] = r]
    BY <1>13, <2>1, <2>2 DEF WriteOutcome, Goto, At
  <2>6. FileTypes'
    BY <1>0, <1>4, <1>8, <2>0 DEF FileTypes
  <2>7. Reported(a, r)' /\ NoFalseSuccess'
    BY <1>0, <2>0, <2>1, <2>4 DEF Reported, Announced, NoFalseSuccess
  <2>8. Carried(a, r)
    BY <2>3, <2>4 DEF Carried, BeforeRunner, InRunner
  <2> QED BY <1>0, <1>1, <1>4, <1>6, <2>0, <2>3, <2>4, <2>5, <2>6, <2>7, <2>8
<1>14. CASE WriteArtifacts(a)
  <2>0. /\ att[a].pc \in {"artifacts", "failArtifacts"} /\ UNCHANGED <<context, results, exported>>
        /\ arts'.by = a /\ arts'.status = att[a].verdict /\ arts'.ckpt = att[a].ckpt /\ arts'.result = TRUE
    BY <1>14 DEF WriteArtifacts
  <2>1. PICK p : p = IF att[a].pc = "artifacts" THEN "return" ELSE "leave"
    OBVIOUS
  <2>2. PICK r : r = [att[a] EXCEPT !.pc = p]
    OBVIOUS
  <2>3. p \in {"return", "leave"} /\ p \in Inside
    BY <1>1, <2>1
  <2>4. r \in AttRecord /\ r.pc = p /\ r.ckpt = att[a].ckpt /\ r.verdict = att[a].verdict
    BY <1>7, <2>2, <2>3
  <2>5. att' = [att EXCEPT ![a] = r]
    BY <1>14, <2>1, <2>2 DEF WriteArtifacts, Goto, At
  <2>6. FileTypes'
    BY <1>4, <2>0 DEF FileTypes
  <2>7. results = Report(a, att[a].verdict)
    BY <1>0, <2>0 DEF Reported
  <2>8. NoFalseSuccess'
    BY <1>8, <2>0, <2>7 DEF NoFalseSuccess
  <2>9. Reported(a, r)' /\ Carried(a, r)
    BY <2>3, <2>4 DEF Reported, Announced, Carried, BeforeRunner, InRunner
  <2> QED BY <1>0, <1>1, <1>4, <1>6, <2>0, <2>3, <2>4, <2>5, <2>6, <2>8, <2>9
<1>15. CASE Announce(a) \/ Point(a)
  <2>1. CASE Announce(a)
    BY <1>10, <2>1 DEF Announce, At
  <2>2. CASE Point(a)
    BY <1>10, <2>2 DEF Point, At
  <2> QED BY <1>15, <2>1, <2>2
<1> QED BY <1>9, <1>11, <1>12, <1>13, <1>14, <1>15

\* The three publications, with the stage they have.
LEMMA PublicationKeeps ==
    ASSUME NebInv, NEW a \in Attempts, StorePrepared(a) \/ Checkpoint(a) \/ StoreFinal(a)
    PROVE  Keeps
<1>1. "prepared" \in Stages /\ "final" \in Stages /\ att[a].stage \in Stages
  BY DEF NebInv, NebTypes, AttRecord, Stages
<1>2. CASE StorePrepared(a)
  BY <1>1, <1>2, PublishKeeps DEF StorePrepared, At
<1>3. CASE StoreFinal(a)
  BY <1>1, <1>3, PublishKeeps DEF StoreFinal, At
<1>4. CASE Checkpoint(a)
  <2>1. PICK s : s = att[a].stage
    OBVIOUS
  <2>2. Publish(a, s, "point") /\ att[a].pc = "yield"
    BY <1>4, <2>1 DEF Checkpoint, Publish, At
  <2> QED BY <1>1, <2>1, <2>2, PublishKeeps
<1> QED BY <1>2, <1>3, <1>4

\* A killed process.
LEMMA CrashKeeps ==
    ASSUME NebInv, NEW a \in Attempts, Crash(a)
    PROVE  Keeps
<1>0. /\ NebTypes /\ NebTypeOK /\ att[a] \in AttRecord /\ Len(ckpts) \in Nat
      /\ att[a].pc \notin {"idle", "over", "dead"}
  BY DEF NebInv, NebTypes, Crash
<1>1. PICK r : r = Nothing("dead")
  OBVIOUS
<1>2. r \in AttRecord /\ r.pc = "dead" /\ r.ckpt = 0 /\ "dead" \notin Inside /\ 0 \notin Attempts
  BY <1>1, NebRunAssumption DEF AttRecord, Nothing, Stages, Inside, Guarded, Unguarded, Attempts
<1>3. /\ att' = [att EXCEPT ![a] = r] /\ crashes' \in 0..MaxCrashes /\ raises' \in 0..MaxRaises
      /\ UNCHANGED <<used, files, store>> /\ owner' = IF owner = a THEN 0 ELSE owner
  BY <1>0, <1>1, NebRunAssumption DEF Crash, Quit, NebTypeOK
<1>4. Reported(a, r) /\ Carried(a, r) /\ r.ckpt <= Len(ckpts)
  BY <1>0, <1>2 DEF Reported, Carried, Announced, BeforeRunner, InRunner
<1>5. CASE att[a].pc \in Inside
  <2>1. owner = a /\ exported' \in BOOLEAN
    BY <1>0, <1>3, <1>5 DEF NebTypeOK, files
  <2>2. Acts(a, r)
    BY <1>2, <1>3, <1>5, <2>1, Inner
  <2> QED BY <1>0, <1>2, <1>3, <1>4, <2>2, QuietKeeps
<1>6. CASE att[a].pc \notin Inside
  <2>1. owner # a /\ att[a].pc = "checked"
    BY <1>0, <1>2, <1>6 DEF NebTypeOK, AttRecord
  <2>2. Waits(a, r)
    BY <1>2, <1>3, <1>6, <2>1 DEF Waits, NebBecomes
  <2>3. NebInv'
    BY <1>4, <2>2, WaitsKeeps
  <2>4. ASSUME ProgressInv PROVE ProgressInv'
    <3>1. a \in Resumes => latest # 0
      BY <2>1, <2>4 DEF ProgressInv, Entered
    <3> QED BY <1>0, <1>2, <2>2, <2>4, <3>1, WaitsCarries
  <2> QED BY <2>3, <2>4 DEF Keeps
<1> QED BY <1>5, <1>6

\* Every step of the run directory keeps both.
LEMMA NebStep ==
    ASSUME NebInv, [NebNext]_nebVars
    PROVE  Keeps
<1>1. CASE UNCHANGED nebVars
  <2>1. UNCHANGED <<owner, used, context, results, arts, exported, ckpts, latest, att, raises, crashes>>
    BY <1>1 DEF nebVars, files, store, aux
  <2>2. NebInv'
    BY <2>1 DEF NebInv, NebTypes, NebTypeOK, Reported, NoFalseSuccess
  <2>3. ProgressInv => ProgressInv'
    BY <2>1 DEF ProgressInv, Entered, Carried
  <2> QED BY <2>2, <2>3 DEF Keeps
<1>2. ASSUME NEW a \in Attempts,
             Entering(a) \/ Announcing(a) \/ Optimising(a) \/ Publishing(a) \/ Faults(a)
      PROVE  Keeps
  BY <1>2, EnteringKeeps, ThinkingKeeps, ReportingKeeps, PublicationKeeps, CrashKeeps
     DEF Entering, Announcing, Optimising, Publishing, Faults
<1> QED BY <1>1, <1>2 DEF NebNext

-------------------------------------------------------------------------------
(* NebRun: the theorems *)

\* The lock, the reports and the memory of the attempts in a run directory
\* belong together in every reachable state (run_neb of engine.py and
\* neb/workflow.py).
THEOREM NebInvariant == NebSpec => []NebInv
<1>1. NebInit => NebInv
  <2> SUFFICES ASSUME NebInit PROVE NebInv
    OBVIOUS
  <2>1. Nothing("idle") \in AttRecord /\ Nothing("idle").pc = "idle" /\ Nothing("idle").ckpt = 0
    BY DEF Nothing, AttRecord, Stages
  <2>2. att \in [Attempts -> AttRecord] /\ \A a \in Attempts : att[a] = Nothing("idle")
    BY <2>1 DEF NebInit
  <2>3. ckpts \in Seq(CkptRecord) /\ Len(ckpts) = 0
    BY DEF NebInit
  <2>4. "idle" \notin Inside
    BY DEF Inside, Guarded, Unguarded
  <2>5. NebTypeOK
    <3>1. /\ owner \in {0} /\ used \in BOOLEAN /\ exported \in BOOLEAN /\ arts.by = 0 /\ arts.result \in BOOLEAN
          /\ arts.ckpt = 0 /\ latest = 0
      BY DEF NebInit
    <3>2. \A r \in {context, results} :
             r.by \in {0} \cup Attempts /\ r.status \in Verdicts \cup {"none", "running"}
      BY DEF NebInit, NoReport
    <3>3. raises \in 0..MaxRaises /\ crashes \in 0..MaxCrashes
      BY NebRunAssumption DEF NebInit
    <3>4. \A a \in Attempts : att[a].pc \notin Inside
      BY <2>1, <2>2, <2>4
    <3> QED BY <2>3, <3>1, <3>2, <3>3, <3>4 DEF NebTypeOK
  <2>6. NebTypes
    BY <2>1, <2>2, <2>3, <2>4, <2>5 DEF NebTypes
  <2>7. \A a \in Attempts : Reported(a, att[a])
    BY <2>1, <2>2 DEF Reported, Announced
  <2>8. NoFalseSuccess
    BY DEF NebInit, NoFalseSuccess
  <2> QED BY <2>6, <2>7, <2>8 DEF NebInv
<1>2. NebInv /\ [NebNext]_nebVars => NebInv'
  BY NebStep DEF Keeps
<1> QED BY <1>1, <1>2, PTL DEF NebSpec

\* The types of a run directory and of its attempts.
THEOREM NebTypesInvariant == NebSpec => []NebTypeOK
<1>1. NebInv => NebTypeOK
  BY DEF NebInv, NebTypes
<1> QED BY <1>1, NebInvariant, PTL

\* A result file that reports a success is never read through the artifacts of
\* another attempt or under another status, however the attempts are refused,
\* raise and are killed (the order of the writes in neb/workflow.py).
THEOREM SuccessIsNotFalse == NebSpec => []NoFalseSuccess
<1>1. NebInv => NoFalseSuccess
  BY DEF NebInv
<1> QED BY <1>1, NebInvariant, PTL

\* With one new run in the directory, whatever number of attempts resume it: a
\* resumed band enters the optimizer with all that its checkpoint held, and the
\* latest checkpoint is only replaced by one that holds as much
\* (neb/workflow.py, runners/neb.py).
THEOREM NothingComputedIsLost == ASSUME OneNewRun PROVE NebSpec => ProgressIsKept
<1>1. NebInit => ProgressInv
  <2> SUFFICES ASSUME NebInit PROVE ProgressInv
    OBVIOUS
  <2>1. \A a \in Attempts : att[a].pc = "idle"
    BY DEF NebInit, Nothing
  <2>2. latest = 0 /\ Resumes \subseteq Attempts /\ Fresh \subseteq Attempts
    BY DEF NebInit, Attempts
  <2>3. Entered
    BY <2>1, <2>2 DEF Entered
  <2>4. \A a \in Attempts : Carried(a, att[a])
    BY <2>1, <2>2 DEF Carried, BeforeRunner, InRunner
  <2> QED BY <2>3, <2>4 DEF ProgressInv
<1>2. NebInv /\ ProgressInv /\ [NebNext]_nebVars => ProgressInv'
  BY OneNewRun, NebStep DEF Keeps
<1>3. NebInv /\ ProgressInv /\ ProgressInv' /\ [NebNext]_nebVars
        => [/\ OptimisedBandKept'
            /\ (/\ latest' # latest /\ latest # 0
                /\ Policy = "relax" => ckpts[latest].stage # "prepared")
                 => ckpts'[latest'].gain >= ckpts[latest].gain]_nebVars
  <2> SUFFICES ASSUME NebInv, ProgressInv, ProgressInv', NebNext
               PROVE  /\ OptimisedBandKept'
                      /\ (/\ latest' # latest /\ latest # 0
                          /\ Policy = "relax" => ckpts[latest].stage # "prepared")
                           => ckpts'[latest'].gain >= ckpts[latest].gain
    OBVIOUS
  <2>1. OptimisedBandKept'
    BY DEF OptimisedBandKept, ProgressInv, Carried, Attempts
  <2>2. ASSUME latest' # latest, latest # 0, Policy = "relax" => ckpts[latest].stage # "prepared"
        PROVE  ckpts'[latest'].gain >= ckpts[latest].gain
    <3>1. PICK a \in Attempts : StorePrepared(a) \/ Checkpoint(a) \/ StoreFinal(a)
      BY <2>2 DEF NebNext, Entering, Announcing, Optimising, Publishing, Faults,
                  Preflight, Enter, Refused, LoadEndpoints, LoadCheckpoint, WriteContext, WriteConfig,
                  Announce, Construct, Begin, Skip, Point, PointArtifacts, Advance, StageEnds, Export,
                  WriteResults, WriteOutcome, WriteArtifacts, Leave, Crash, Raise, store
    <3>2. /\ att[a].pc \in {"prepare", "yield", "final"}
          /\ latest' = Len(ckpts) + 1 /\ \E s : ckpts' = Append(ckpts, [by |-> a, stage |-> s, gain |-> att[a].gain])
      BY <3>1 DEF StorePrepared, Checkpoint, StoreFinal, Publish, At
    <3>3. PICK s : ckpts' = Append(ckpts, [by |-> a, stage |-> s, gain |-> att[a].gain])
      BY <3>2
    <3>4. ckpts \in Seq(CkptRecord)
      BY DEF NebInv, NebTypes
    <3>5. PICK c : c = [by |-> a, stage |-> s, gain |-> att[a].gain]
      OBVIOUS
    <3>6. ckpts'[latest'] = c /\ c.gain = att[a].gain
      <4>1. ckpts' = Append(ckpts, c) /\ Len(ckpts) \in Nat
        BY <3>3, <3>4, <3>5
      <4>2. Append(ckpts, c)[Len(ckpts) + 1] = c
        BY <3>4, <4>1
      <4> QED BY <3>2, <3>5, <4>1, <4>2
    <3>7. att[a].gain >= ckpts[latest].gain
      BY <2>2, <3>2 DEF ProgressInv, Carried, BeforeRunner, InRunner
    <3> QED BY <3>6, <3>7
  <2> QED BY <2>1, <2>2
<1> QED BY <1>1, <1>2, <1>3, NebInvariant, PTL DEF NebSpec, ProgressIsKept

-------------------------------------------------------------------------------
(* NebRun: what a reader of artifacts.json sees *)

\* The run screen as a reader of the directory: only the status in
\* artifacts.json is taken from the run, the screen itself rests.
Seen == INSTANCE RunScreen WITH
    MaxOpened <- 0, kind <- "neb", job <- "running", engine <- arts.status,
    logged <- 0, mounted <- FALSE, timer <- FALSE, cancelOn <- TRUE,
    text <- "", displayed <- 0

\* Unless another attempt takes the directory over, the status only moves the
\* way RunScreen assumes of the engine.
EngineAsSeen ==
    [][(arts'.status # arts.status /\ arts.by \in {0, arts'.by}) => Seen!EngineMoves]_nebVars

\* What artifacts.json says of the attempt a with the record r.
Unannounced == {"idle", "checked", "load", "context", "config", "prepare", "announce"}
Pointed(a, r) ==
    /\ r.pc \in Unannounced => arts.by # a
    /\ r.pc \in {"announce", "point"} => r.ckpt = latest
    /\ r.pc \in {"construct", "begin", "yield", "step"} => arts.ckpt = latest
    /\ r.pc \in Announced => arts.by = a /\ arts.status = "running"
    /\ r.pc \in {"final", "export", "results", "record", "artifacts", "return"} =>
          r.verdict \in {"completed", "not_converged"}
    /\ r.pc = "return" => arts.by = a /\ arts.status = r.verdict
    /\ (r.pc \in {"failResults", "failRecord", "failArtifacts"} /\ arts.by = a) =>
          \/ arts.status = "running"
          \/ r.verdict = "cancelled" /\ arts.status \in {"completed", "not_converged"}

PointerInv ==
    /\ arts.by = 0 => arts.status = "none"
    /\ \A a \in Attempts : Pointed(a, att[a])

\* A step of the attempt a keeps it when what artifacts.json says fits the
\* record r it leaves a with.
LEMMA OneIsPointed ==
    ASSUME NebInv, PointerInv, NEW a \in Attempts, NEW r, att' = [att EXCEPT ![a] = r], Pointed(a, r)',
           UNCHANGED <<arts, latest>> \/ (owner = a /\ (arts' = arts \/ arts'.by = a))
    PROVE  PointerInv'
<1>1. /\ att \in [Attempts -> AttRecord] /\ att'[a] = r
      /\ \A b \in Attempts \ {a} : att'[b] = att[b]
  BY DEF NebInv, NebTypes
<1>2. 0 \notin Attempts
  BY NebRunAssumption DEF Attempts
<1>3. arts'.by = 0 => arts'.status = "none"
  BY <1>2 DEF PointerInv
<1>4. ASSUME NEW b \in Attempts \ {a} PROVE Pointed(b, att[b])'
  <2>1. Pointed(b, att[b]) /\ att'[b] = att[b]
    BY <1>1, <1>4 DEF PointerInv
  <2>2. CASE UNCHANGED <<arts, latest>>
    BY <2>1, <2>2 DEF Pointed
  <2>3. CASE owner = a /\ (arts' = arts \/ arts'.by = a)
    <3>1. att[b].pc \notin Inside /\ att[b] \in AttRecord
      BY <1>1, <1>4, <2>3, AloneInside DEF NebInv
    <3>2. att[b].pc \in {"idle", "checked", "over", "dead"}
      BY <3>1 DEF AttRecord
    <3>3. att[b].pc \in Unannounced => arts'.by # b
      BY <1>4, <2>1, <2>3 DEF Pointed
    <3> QED BY <2>1, <3>2, <3>3 DEF Pointed, Announced
  <2> QED BY <2>2, <2>3
<1>5. ASSUME NEW b \in Attempts PROVE Pointed(b, att[b])'
  <2>1. CASE b = a
    BY <1>1, <2>1
  <2>2. CASE b # a
    BY <1>4, <2>2
  <2> QED BY <2>1, <2>2
<1> QED BY <1>3, <1>5 DEF PointerInv

\* A step that leaves artifacts.json and the latest link alone keeps it when
\* the record says nothing that was not already so.
LEMMA SilentStep ==
    ASSUME NebInv, PointerInv, NEW a \in Attempts, NEW r, att' = [att EXCEPT ![a] = r],
           UNCHANGED <<arts, latest>>, Pointed(a, r)
    PROVE  PointerInv'
<1>1. Pointed(a, r)'
  BY DEF Pointed
<1> QED BY <1>1, OneIsPointed

\* The steps that move one attempt on and write neither.
LEMMA MovedOn ==
    ASSUME NebInv, PointerInv, NEW a \in Attempts, UNCHANGED <<arts, latest>>,
           NEW p, att' = [att EXCEPT ![a].pc = p],
           \/ att[a].pc \in Unannounced \ {"announce"} /\ p \in Unannounced \ {"announce"}
           \/ <<att[a].pc, p>> \in {<<"construct", "begin">>, <<"yield", "step">>, <<"export", "results">>,
                                    <<"results", "record">>, <<"failResults", "failRecord">>,
                                    <<"record", "artifacts">>, <<"failRecord", "failArtifacts">>}
           \/ p = "leave"
    PROVE  PointerInv'
<1>1. PICK r : r = [att[a] EXCEPT !.pc = p]
  OBVIOUS
<1>2. att[a] \in AttRecord /\ Pointed(a, att[a]) /\ att \in [Attempts -> AttRecord]
  BY DEF NebInv, NebTypes, PointerInv
<1>3. r.pc = p /\ r.ckpt = att[a].ckpt /\ r.verdict = att[a].verdict
  BY <1>1, <1>2 DEF AttRecord
<1>4. att' = [att EXCEPT ![a] = r]
  BY <1>1, <1>2
<1>5. Pointed(a, r)
  <2>1. CASE p = "leave"
    BY <1>3, <2>1 DEF Pointed, Announced, Unannounced
  <2>2. CASE att[a].pc \in Unannounced \ {"announce"} /\ p \in Unannounced \ {"announce"}
    BY <1>2, <1>3, <2>2 DEF Pointed, Announced, Unannounced
  <2>3. CASE p # "leave" /\ ~(att[a].pc \in Unannounced \ {"announce"} /\ p \in Unannounced \ {"announce"})
    BY <1>2, <1>3, <2>3 DEF Pointed, Announced, Unannounced
  <2> QED BY <2>1, <2>2, <2>3
<1> QED BY <1>4, <1>5, SilentStep

\* The steps that put more into the memory of the attempt than where it is.
LEMMA ThoughtOn ==
    ASSUME NebInv, PointerInv, NEW a \in Attempts, UNCHANGED <<arts, latest>>,
           \/ LoadCheckpoint(a) \/ Begin(a) \/ Advance(a) \/ (\E c \in BOOLEAN : StageEnds(a, c))
           \/ Refused(a) \/ Leave(a) \/ Crash(a) \/ Export(a)
           \/ (\E v \in {"failed", "cancelled"} : Raise(a, v))
    PROVE  PointerInv'
<1>1. att[a] \in AttRecord /\ Pointed(a, att[a]) /\ att \in [Attempts -> AttRecord]
  BY DEF NebInv, NebTypes, PointerInv
<1>2. ASSUME NEW r, att' = [att EXCEPT ![a] = r], r.pc \in {"over", "dead", "leave"}
      PROVE  PointerInv'
  <2>1. Pointed(a, r)
    BY <1>2 DEF Pointed, Announced, Unannounced
  <2> QED BY <1>2, <2>1, SilentStep
<1>3. CASE Refused(a) \/ Leave(a) \/ Crash(a)
  <2>1. \A p : Nothing(p).pc = p
    BY DEF Nothing
  <2>2. PICK p \in {"over", "dead"} : att' = [att EXCEPT ![a] = Nothing(p)]
    BY <1>3 DEF Refused, Leave, Crash, Quit
  <2> QED BY <1>2, <2>1, <2>2
<1>4. CASE LoadCheckpoint(a)
  <2>1. PICK r : r = [att[a] EXCEPT !.pc = "context", !.gain = ckpts[latest].gain, !.from = latest,
                                    !.source = SourceOf(ckpts[latest].stage)]
    OBVIOUS
  <2>2. att[a].pc = "load" /\ att' = [att EXCEPT ![a] = r]
    BY <1>1, <1>4, <2>1 DEF LoadCheckpoint, At
  <2>3. r.pc = "context"
    BY <1>1, <2>1 DEF AttRecord
  <2>4. Pointed(a, r)
    BY <1>1, <2>2, <2>3 DEF Pointed, Announced, Unannounced
  <2> QED BY <2>2, <2>4, SilentStep
<1>5. CASE Begin(a)
  <2>1. PICK g : g = IF Policy = "relax" /\ att[a].source # "checkpoint_optimized_band"
                     THEN 0 ELSE att[a].gain
    OBVIOUS
  <2>2. PICK r : r = [att[a] EXCEPT !.pc = "yield", !.stage = FirstStage, !.step = 0, !.gain = g]
    OBVIOUS
  <2>3. att[a].pc = "begin" /\ att' = [att EXCEPT ![a] = r]
    BY <1>1, <1>5, <2>1, <2>2 DEF Begin, At
  <2>4. r.pc = "yield"
    BY <1>1, <2>2 DEF AttRecord
  <2>5. Pointed(a, r)
    BY <1>1, <2>3, <2>4 DEF Pointed, Announced, Unannounced
  <2> QED BY <2>3, <2>5, SilentStep
<1>6. CASE Advance(a)
  <2>1. PICK r : r = [att[a] EXCEPT !.pc = "yield", !.step = att[a].step + 1, !.gain = att[a].gain + 1]
    OBVIOUS
  <2>2. att[a].pc = "step" /\ att' = [att EXCEPT ![a] = r]
    BY <1>1, <1>6, <2>1 DEF Advance, At
  <2>3. r.pc = "yield"
    BY <1>1, <2>1 DEF AttRecord
  <2>4. Pointed(a, r)
    BY <1>1, <2>2, <2>3 DEF Pointed, Announced, Unannounced
  <2> QED BY <2>2, <2>4, SilentStep
<1>7. ASSUME NEW c \in BOOLEAN, StageEnds(a, c) PROVE PointerInv'
  <2>1. att[a].pc = "step"
    BY <1>7 DEF StageEnds, At
  <2>2. CASE c /\ att[a].stage = "neb_pre"
    <3>1. PICK r : r = [att[a] EXCEPT !.pc = "yield", !.stage = "ci_neb", !.step = 0]
      OBVIOUS
    <3>2. att' = [att EXCEPT ![a] = r] /\ r.pc = "yield"
      BY <1>1, <1>7, <2>2, <3>1 DEF StageEnds, AttRecord
    <3>3. Pointed(a, r)
      BY <1>1, <2>1, <3>2 DEF Pointed, Announced, Unannounced
    <3> QED BY <3>2, <3>3, SilentStep
  <2>3. CASE ~(c /\ att[a].stage = "neb_pre")
    <3>1. PICK v : v = IF c THEN "completed" ELSE "not_converged"
      OBVIOUS
    <3>2. PICK r : r = [att[a] EXCEPT !.pc = "final", !.verdict = v]
      OBVIOUS
    <3>3. att' = [att EXCEPT ![a] = r]
      BY <1>7, <2>3, <3>1, <3>2 DEF StageEnds
    <3>4. r.pc = "final" /\ r.verdict \in {"completed", "not_converged"}
      BY <1>1, <3>1, <3>2 DEF AttRecord
    <3>5. Pointed(a, r)
      BY <1>1, <2>1, <3>4 DEF Pointed, Announced, Unannounced
    <3> QED BY <3>3, <3>5, SilentStep
  <2> QED BY <2>2, <2>3
<1>8. CASE Export(a)
  <2>1. att[a].pc = "export"
    BY <1>8 DEF Export, At
  <2>2. CASE a \in Fresh /\ exported
    <3>1. PICK r : r = [att[a] EXCEPT !.pc = "failResults", !.verdict = "failed"]
      OBVIOUS
    <3>2. att' = [att EXCEPT ![a].pc = "failResults", ![a].verdict = "failed"]
      BY <1>8, <2>2 DEF Export
    <3>3. att' = [att EXCEPT ![a] = r] /\ r.pc = "failResults"
      BY <1>1, <3>1, <3>2 DEF AttRecord
    <3>4. Pointed(a, r)
      BY <1>1, <2>1, <3>3 DEF Pointed, Announced, Unannounced
    <3> QED BY <3>3, <3>4, SilentStep
  <2>3. CASE ~(a \in Fresh /\ exported)
    BY <1>8, <2>1, <2>3, MovedOn DEF Export, Goto
  <2> QED BY <2>2, <2>3
<1>9. ASSUME NEW v \in {"failed", "cancelled"}, Raise(a, v) PROVE PointerInv'
  <2>1. CASE att[a].pc \in Guarded
    <3>1. PICK r : r = [att[a] EXCEPT !.pc = "failResults", !.verdict = v]
      OBVIOUS
    <3>2. att' = [att EXCEPT ![a] = r] /\ r.pc = "failResults" /\ r.verdict = v
      BY <1>1, <1>9, <2>1, <3>1 DEF Raise, AttRecord
    <3>3. att[a].pc = "return" => v = "cancelled"
      BY <1>9 DEF Raise, At
    <3>4. arts.by = a => \/ arts.status = "running"
                         \/ v = "cancelled" /\ arts.status \in {"completed", "not_converged"}
      BY <1>1, <2>1, <3>3 DEF Pointed, Announced, Unannounced, Guarded
    <3>5. Pointed(a, r)
      BY <3>2, <3>4 DEF Pointed, Announced, Unannounced
    <3> QED BY <3>2, <3>5, SilentStep
  <2>2. CASE att[a].pc \notin Guarded
    <3>1. att' = [att EXCEPT ![a].pc = "leave"]
      BY <1>1, <1>9, <2>2 DEF Raise
    <3> QED BY <3>1, MovedOn
  <2> QED BY <2>1, <2>2
<1> QED BY <1>3, <1>4, <1>5, <1>6, <1>7, <1>8, <1>9

\* A checkpoint that becomes the latest one: artifacts.json does not name it yet.
LEMMA PublishedIsPointed ==
    ASSUME NebInv, PointerInv, NEW a \in Attempts, NEW s, NEW p, Publish(a, s, p),
           <<att[a].pc, p>> \in {<<"prepare", "announce">>, <<"yield", "point">>, <<"final", "export">>}
    PROVE  PointerInv'
<1>1. /\ att[a] \in AttRecord /\ Pointed(a, att[a]) /\ att \in [Attempts -> AttRecord] /\ NebTypeOK
  BY DEF NebInv, NebTypes, PointerInv
<1>2. PICK r : r = [att[a] EXCEPT !.ckpt = Len(ckpts) + 1, !.pc = p]
  OBVIOUS
<1>3. att' = [att EXCEPT ![a] = r] /\ latest' = Len(ckpts) + 1 /\ arts' = arts
  BY <1>1, <1>2 DEF Publish, files
<1>4. r.pc = p /\ r.ckpt = latest' /\ r.verdict = att[a].verdict
  BY <1>1, <1>2, <1>3 DEF AttRecord
<1>5. owner = a
  <2>1. att[a].pc \in Inside
    BY DEF Inside, Guarded
  <2> QED BY <1>1, <2>1 DEF NebTypeOK
<1>6. Pointed(a, r)'
  BY <1>1, <1>3, <1>4 DEF Pointed, Announced, Unannounced
<1> QED BY <1>3, <1>5, <1>6, OneIsPointed

\* The steps that write artifacts.json, and how its status moves.
LEMMA WrittenIsPointed ==
    ASSUME NebInv, PointerInv, NEW a \in Attempts, Announce(a) \/ Point(a) \/ WriteArtifacts(a)
    PROVE  /\ PointerInv'
           /\ arts'.status # arts.status /\ arts.by \in {0, arts'.by} => Seen!EngineMoves
<1>1. /\ att[a] \in AttRecord /\ Pointed(a, att[a]) /\ att \in [Attempts -> AttRecord] /\ NebTypeOK
      /\ Reported(a, att[a]) /\ (arts.by = 0 => arts.status = "none")
  BY DEF NebInv, NebTypes, PointerInv
<1>2. owner = a
  <2>1. att[a].pc \in Inside
    BY DEF Announce, Point, WriteArtifacts, At, Inside, Guarded, Unguarded
  <2> QED BY <1>1, <2>1 DEF NebTypeOK
<1>3. PICK p : att' = [att EXCEPT ![a].pc = p] /\ <<att[a].pc, p>> \in
                 {<<"announce", "construct">>, <<"point", "step">>, <<"artifacts", "return">>,
                  <<"failArtifacts", "leave">>}
  BY DEF Announce, Point, PointArtifacts, WriteArtifacts, At, Goto
<1>4. /\ arts'.by = a /\ arts'.ckpt = att[a].ckpt
      /\ arts'.status = IF att[a].pc \in {"announce", "point"} THEN "running" ELSE att[a].verdict
      /\ latest' = latest
  BY DEF Announce, Point, PointArtifacts, WriteArtifacts, At, store
<1>5. PICK r : r = [att[a] EXCEPT !.pc = p]
  OBVIOUS
<1>6. att' = [att EXCEPT ![a] = r] /\ r.pc = p /\ r.ckpt = att[a].ckpt /\ r.verdict = att[a].verdict
  BY <1>1, <1>3, <1>5 DEF AttRecord
<1>7. Pointed(a, r)'
  BY <1>1, <1>3, <1>4, <1>6 DEF Pointed, Announced, Unannounced
<1>8. ASSUME arts'.status # arts.status, arts.by \in {0, a} PROVE Seen!EngineMoves
  <2> DEFINE from == arts.status
             to == arts'.status
  <2>1. \/ from = "none" /\ to \in {"running", "failed", "cancelled"}
        \/ from = "running" /\ to \in {"completed", "not_converged", "failed", "cancelled"}
        \/ from \in {"completed", "not_converged"} /\ to = "cancelled"
    <3>1. CASE att[a].pc \in {"announce", "point"}
      BY <1>1, <1>4, <1>8, <3>1 DEF Pointed, Announced, Unannounced
    <3>2. CASE att[a].pc = "artifacts"
      BY <1>1, <1>4, <1>8, <3>2 DEF Pointed, Announced, Unannounced
    <3>3. CASE att[a].pc = "failArtifacts"
      BY <1>1, <1>4, <1>8, <3>3 DEF Pointed, Reported, Announced, Unannounced
    <3> QED BY <1>3, <3>1, <3>2, <3>3
  <2> QED BY <2>1 DEF Seen!EngineMoves, Seen!widgets
<1> QED BY <1>2, <1>4, <1>6, <1>7, <1>8, OneIsPointed

\* Every step of the run directory.
LEMMA PointerStep ==
    ASSUME NebInv, PointerInv, [NebNext]_nebVars
    PROVE  /\ PointerInv'
           /\ arts'.status # arts.status /\ arts.by \in {0, arts'.by} => Seen!EngineMoves
<1>1. CASE UNCHANGED nebVars
  <2>1. UNCHANGED <<arts, latest, att>>
    BY <1>1 DEF nebVars, files, store
  <2> QED BY <2>1 DEF PointerInv, Pointed
<1>2. ASSUME NEW a \in Attempts,
             Entering(a) \/ Announcing(a) \/ Optimising(a) \/ Publishing(a) \/ Faults(a)
      PROVE  /\ PointerInv'
             /\ arts'.status # arts.status /\ arts.by \in {0, arts'.by} => Seen!EngineMoves
  <2>1. CASE Announce(a) \/ Point(a) \/ WriteArtifacts(a)
    BY <2>1, WrittenIsPointed
  <2>2. CASE StorePrepared(a) \/ Checkpoint(a) \/ StoreFinal(a)
    <3>1. PICK s, p : Publish(a, s, p) /\ <<att[a].pc, p>> \in
                        {<<"prepare", "announce">>, <<"yield", "point">>, <<"final", "export">>}
      BY <2>2 DEF StorePrepared, Checkpoint, StoreFinal, At
    <3>2. arts' = arts
      BY <3>1 DEF Publish, files
    <3> QED BY <3>1, <3>2, PublishedIsPointed
  <2>3. CASE \/ Preflight(a) \/ Enter(a) \/ LoadEndpoints(a) \/ WriteContext(a) \/ WriteConfig(a)
             \/ Construct(a) \/ Skip(a) \/ WriteResults(a) \/ WriteOutcome(a)
    <3>1. UNCHANGED <<arts, latest>>
      BY <2>3 DEF Preflight, Enter, LoadEndpoints, WriteContext, WriteConfig, Construct, Skip,
                  WriteResults, WriteOutcome, files, store
    <3>2. CASE Preflight(a) \/ Enter(a) \/ LoadEndpoints(a) \/ WriteContext(a) \/ WriteConfig(a)
      BY <3>1, <3>2, MovedOn
         DEF Preflight, Enter, LoadEndpoints, WriteContext, WriteConfig, At, Goto, Unannounced
    <3>3. CASE Construct(a) \/ Skip(a)
      BY <3>1, <3>3, MovedOn DEF Construct, Skip, At, Goto
    <3>4. CASE WriteResults(a) \/ WriteOutcome(a)
      BY <3>1, <3>4, MovedOn DEF WriteResults, WriteOutcome, At, Goto
    <3> QED BY <2>3, <3>1, <3>2, <3>3, <3>4
  <2>4. CASE \/ LoadCheckpoint(a) \/ Begin(a) \/ Advance(a) \/ (\E c \in BOOLEAN : StageEnds(a, c))
             \/ Refused(a) \/ Leave(a) \/ Crash(a) \/ Export(a)
             \/ (\E v \in {"failed", "cancelled"} : Raise(a, v))
    <3>1. UNCHANGED <<arts, latest>>
      BY <2>4 DEF LoadCheckpoint, Begin, Advance, StageEnds, Refused, Leave, Crash, Export, Raise,
                  files, store
    <3> QED BY <2>4, <3>1, ThoughtOn
  <2> QED BY <1>2, <2>1, <2>2, <2>3, <2>4 DEF Entering, Announcing, Optimising, Publishing, Faults
<1> QED BY <1>1, <1>2 DEF NebNext

\* What artifacts.json says fits what every attempt is doing.
THEOREM PointerInvariant == NebSpec => []PointerInv
<1>1. NebInit => PointerInv
  <2> SUFFICES ASSUME NebInit PROVE PointerInv
    OBVIOUS
  <2>1. 0 \notin Attempts /\ arts.by = 0 /\ arts.status = "none"
    BY NebRunAssumption DEF NebInit, Attempts
  <2>2. \A a \in Attempts : att[a].pc = "idle"
    BY DEF NebInit, Nothing
  <2> QED BY <2>1, <2>2 DEF PointerInv, Pointed, Announced
<1> QED BY <1>1, PointerStep, NebInvariant, PTL DEF NebSpec

\* While a band is optimised, artifacts.json names the attempt at work and the
\* newest checkpoint of the directory, for any number of attempts, checkpoints
\* and faults, except between the two writes that move it (checkpoint_callback
\* of neb/workflow.py).
THEOREM PointerIsFollowed == NebSpec => []PointerFollows
<1>1. PointerInv => PointerFollows
  BY DEF PointerInv, Pointed, Announced, PointerFollows
<1> QED BY <1>1, PointerInvariant, PTL

\* What the run screen assumes of the engine is what an attempt does.
THEOREM ScreenSeesTheEngine == NebSpec => EngineAsSeen
<1> QED BY PointerStep, PointerInvariant, NebInvariant, PTL DEF NebSpec, EngineAsSeen

-------------------------------------------------------------------------------
(* AnalysisStore: the invariant *)

\* An attempt that has no success left to write: it has written its document,
\* or it is about to write a failure.
Spent(a) ==
    \/ apc[a] \in {"publish", "point", "openFinal", "final"} \union Over
    \/ apc[a] = "write" /\ mine[a].status \in Failures

\* A document is that of an attempt at the request under which it is found.
PublishedBySpent ==
    \A v \in Version : published[v] # NoDoc =>
        /\ published[v].by \in Analyst
        /\ ident[published[v].by] = v /\ Spent(published[v].by)

\* b's success is not, and will not be, on display.
Superseded(b) ==
    /\ b \in Analyst => Spent(b)
    /\ \A v \in Version : published[v].by = b => published[v].status # "success"

\* What was there when a began is superseded once a has set it aside.
Removing == {"openIndex", "running", "compute", "write", "publish", "point", "openFinal", "final"}
EarlierGone ==
    \A a \in Analyst : \A b \in earlier[a] :
        /\ b \in Analyst => Spent(b) /\ ident[b] = ident[a]
        /\ apc[a] \in Removing => Superseded(b)

OutdatedGone == \A b \in outdated : Superseded(b)

\* What has been read was not outdated when the reader began.
ReadIsFresh ==
    \A a \in Analyst :
        /\ known[a] \subseteq outdated
        /\ apc[a] = "compare" /\ mine[a].status = "success" => mine[a].by \notin known[a]
        /\ apc[a] = "new" => reused[a] = NoDoc /\ earlier[a] = {}

\* The document in hand is the attempt's own; it is published before the
\* pointer moves.
Drafted ==
    \A a \in Analyst :
        /\ apc[a] \in {"write", "publish", "point", "openFinal", "final"} =>
              mine[a].by = a /\ mine[a].status \in {"success"} \union Failures
        /\ apc[a] = "point" => mine[a] \in attempts

StoreTypes ==
    /\ StoreTypeOK
    /\ indexSeen \in [Analyst -> [Version -> {"none", "running", "success"} \union Failures]]
    /\ earlier \in [Analyst -> SUBSET (Analyst \union {"nobody"})]
    /\ known \in [Analyst -> SUBSET (Analyst \union {"nobody"})]
    /\ outdated \subseteq Analyst \union {"nobody"}

StoreInv ==
    /\ StoreTypes /\ PublishedBySpent /\ EarlierGone /\ OutdatedGone /\ ReadIsFresh
    /\ Drafted /\ NothingResurrected

-------------------------------------------------------------------------------
(* What a step may change *)

\* What a step does to an attempt: a spent one stays spent, and the request and
\* the memory of one that has begun stay what they are.
AttemptMoves(a) ==
    /\ Spent(a) => Spent(a)'
    /\ apc[a] # "new" => /\ apc'[a] # "new" /\ ident'[a] = ident[a]
                         /\ earlier'[a] = earlier[a] /\ known'[a] = known[a]
    /\ apc[a] = "new" =>
          \/ /\ apc'[a] = "new" /\ earlier'[a] = earlier[a] /\ known'[a] = known[a]
             /\ reused'[a] = reused[a]
          \/ /\ apc'[a] \in {"keep", "lookup"} /\ ident'[a] = source
             /\ earlier'[a] = {published[source].by} /\ known'[a] = outdated
             /\ reused'[a] = reused[a] /\ published' = published

\* What a step does to the document in hand.
Holding == {"write", "publish", "point", "openFinal", "final"}
HandMoves(a) ==
    /\ apc'[a] \in Removing => \/ apc[a] \in Removing
                               \/ apc[a] # "new" /\ published'[ident[a]] = NoDoc
    /\ apc'[a] = "compare" => \/ apc[a] = "compare" /\ mine'[a] = mine[a]
                              \/ apc[a] = "lookup" /\ mine'[a] = published[ident[a]]
    /\ \/ reused'[a] = reused[a]
       \/ apc[a] = "compare" /\ mine[a].status = "success" /\ reused'[a] = mine[a]
    /\ apc'[a] \in Holding => \/ apc[a] \in Holding /\ mine'[a] = mine[a]
                              \/ mine'[a].by = a /\ mine'[a].status \in {"success"} \union Failures
    /\ apc'[a] = "point" => \/ apc[a] = "point" /\ mine'[a] = mine[a]
                            \/ mine'[a] \in attempts'

\* What a step of c does to what is on display.
DisplayMoves(c) ==
    /\ \A v \in Version :
          \/ published'[v] = published[v] \/ published'[v] = NoDoc
          \/ apc[c] = "write" /\ ident[c] = v /\ published'[v] = mine[c] /\ Spent(c)'
    /\ \A v \in Version : \/ pointer'[v] = pointer[v]
                          \/ apc[c] = "point" /\ pointer'[v] = mine[c]
    /\ attempts \subseteq attempts'
    /\ \/ outdated' = outdated
       \/ apc[c] = "final" /\ outdated' = outdated \union earlier[c]

Untouched(a) ==
    /\ apc'[a] = apc[a] /\ ident'[a] = ident[a] /\ mine'[a] = mine[a]
    /\ earlier'[a] = earlier[a] /\ known'[a] = known[a] /\ reused'[a] = reused[a]

\* One step of an attempt moves that attempt, its document and the display as
\* above, and leaves the other attempts alone.
LEMMA AttemptStep ==
    ASSUME StoreTypes, NEW c \in Analyst, Attempt(c) \/ Upset(c) \/ Die(c)
    PROVE  /\ AttemptMoves(c) /\ HandMoves(c) /\ DisplayMoves(c)
           /\ \A a \in Analyst \ {c} : Untouched(a)
<1> USE DEF AttemptMoves, HandMoves, DisplayMoves, Untouched, Spent, Over, Removing, Holding, AtStep, ToStep,
            documents, indexVars, history, Failures, StoreTypes, StoreTypeOK
<1>1. CASE Identify(c)
  BY <1>1 DEF Identify
<1>2. CASE ReadDocument(c)
  BY <1>2 DEF ReadDocument
<1>3. CASE ReadPointer(c)
  BY <1>3 DEF ReadPointer
<1>4. CASE KeepPrevious(c)
  BY <1>4 DEF KeepPrevious
<1>5. CASE RemovePrevious(c)
  BY <1>5 DEF RemovePrevious
<1>6. CASE OpenIndex(c)
  BY <1>6 DEF OpenIndex
<1>7. CASE RecordRunning(c)
  <2>1. \A a \in Analyst \ {c} : Untouched(a)
    BY <1>7 DEF RecordRunning, Record
  <2>2. AttemptMoves(c)
    BY <1>7 DEF RecordRunning, Record
  <2>3. HandMoves(c)
    BY <1>7 DEF RecordRunning, Record
  <2>4. DisplayMoves(c)
    BY <1>7 DEF RecordRunning, Record
  <2> QED BY <2>1, <2>2, <2>3, <2>4
<1>8. CASE Compute(c)
  <2>1. \A a \in Analyst \ {c} : Untouched(a)
    BY <1>8 DEF Compute
  <2>2. AttemptMoves(c)
    BY <1>8 DEF Compute
  <2>3. HandMoves(c)
    BY <1>8 DEF Compute
  <2>4. DisplayMoves(c)
    BY <1>8 DEF Compute
  <2> QED BY <2>1, <2>2, <2>3, <2>4
<1>9. CASE WriteDocument(c)
  <2>1. \A a \in Analyst \ {c} : Untouched(a)
    BY <1>9 DEF WriteDocument
  <2>2. AttemptMoves(c)
    BY <1>9 DEF WriteDocument
  <2>3. HandMoves(c)
    BY <1>9 DEF WriteDocument
  <2>4. DisplayMoves(c)
    BY <1>9 DEF WriteDocument
  <2> QED BY <2>1, <2>2, <2>3, <2>4
<1>10. CASE PublishAttempt(c)
  <2>1. \A a \in Analyst \ {c} : Untouched(a)
    BY <1>10 DEF PublishAttempt
  <2>2. AttemptMoves(c)
    BY <1>10 DEF PublishAttempt
  <2>3. HandMoves(c)
    BY <1>10 DEF PublishAttempt
  <2>4. DisplayMoves(c)
    BY <1>10 DEF PublishAttempt
  <2> QED BY <2>1, <2>2, <2>3, <2>4
<1>11. CASE MovePointer(c)
  <2>1. \A a \in Analyst \ {c} : Untouched(a)
    BY <1>11 DEF MovePointer
  <2>2. AttemptMoves(c)
    BY <1>11 DEF MovePointer
  <2>3. HandMoves(c)
    BY <1>11 DEF MovePointer
  <2>4. DisplayMoves(c)
    BY <1>11 DEF MovePointer
  <2> QED BY <2>1, <2>2, <2>3, <2>4
<1>12. CASE RecordOutcome(c)
  <2>1. \A a \in Analyst \ {c} : Untouched(a)
    BY <1>12 DEF RecordOutcome, Record
  <2>2. AttemptMoves(c)
    BY <1>12 DEF RecordOutcome, Record
  <2>3. HandMoves(c)
    BY <1>12 DEF RecordOutcome, Record
  <2>4. DisplayMoves(c)
    BY <1>12 DEF RecordOutcome, Record
  <2> QED BY <2>1, <2>2, <2>3, <2>4
<1>13. CASE Upset(c)
  <2>1. \A a \in Analyst \ {c} : Untouched(a)
    BY <1>13 DEF Upset, Abend
  <2>2. AttemptMoves(c)
    BY <1>13 DEF Upset, Abend
  <2>3. HandMoves(c)
    BY <1>13 DEF Upset, Abend
  <2>4. DisplayMoves(c)
    BY <1>13 DEF Upset, Abend
  <2> QED BY <2>1, <2>2, <2>3, <2>4
<1>14. CASE Die(c)
  <2>1. \A a \in Analyst \ {c} : Untouched(a)
    BY <1>14 DEF Die, Abend
  <2>2. AttemptMoves(c)
    BY <1>14 DEF Die, Abend
  <2>3. HandMoves(c)
    BY <1>14 DEF Die, Abend
  <2>4. DisplayMoves(c)
    BY <1>14 DEF Die, Abend
  <2> QED BY <2>1, <2>2, <2>3, <2>4
<1> QED BY <1>1, <1>2, <1>3, <1>4, <1>5, <1>6, <1>7, <1>8, <1>9, <1>10, <1>11, <1>12, <1>13, <1>14 DEF Attempt

-------------------------------------------------------------------------------
(* Every step keeps the invariant *)

\* The types are kept, those of the history included.
LEMMA StoreTypesStep ==
    ASSUME StoreTypes, Drafted, [StoreNext]_storeVars
    PROVE  StoreTypes'
<1>0. /\ NoDoc \in Documents
      /\ \A a \in Analyst, s \in {"success"} \union Failures, v \in Version :
            [by |-> a, status |-> s, of |-> v] \in Documents
  BY AnalysisAssumption DEF Documents, NoDoc
<1>a. ASSUME NEW v \in Version PROVE published[v].by \in Analyst \union {"nobody"}
  BY DEF StoreTypes, StoreTypeOK, Documents
<1> USE <1>0, AnalysisAssumption DEF StoreTypes, StoreTypeOK, Failures, AtStep, ToStep,
            documents, indexVars, history, AnalystSteps, Over
<1>1. ASSUME NEW c \in Analyst, Identify(c) PROVE StoreTypes'
  BY <1>1, <1>a DEF Identify
<1>2. ASSUME NEW c \in Analyst, ReadDocument(c) PROVE StoreTypes'
  BY <1>2 DEF ReadDocument
<1>3. ASSUME NEW c \in Analyst, ReadPointer(c) PROVE StoreTypes'
  <2>1. CASE reused' = [reused EXCEPT ![c] = mine[c]] /\ apc' = [apc EXCEPT ![c] = "done"]
    BY <1>3, <2>1 DEF ReadPointer
  <2>2. CASE UNCHANGED reused /\ apc' = [apc EXCEPT ![c] = "keep"]
    BY <1>3, <2>2 DEF ReadPointer
  <2> QED BY <1>3, <2>1, <2>2 DEF ReadPointer
<1>4. ASSUME NEW c \in Analyst, KeepPrevious(c) PROVE StoreTypes'
  <2>1. CASE UNCHANGED asides /\ apc' = [apc EXCEPT ![c] = "openIndex"]
    BY <1>4, <2>1 DEF KeepPrevious
  <2>2. CASE asides' = asides \union {published[ident[c]]} /\ apc' = [apc EXCEPT ![c] = "remove"]
    <3>1. asides' \subseteq Documents
      <4>1. asides \subseteq Documents /\ published[ident[c]] \in Documents
        OBVIOUS
      <4> QED BY <2>2, <4>1, Zenon
    <3> QED BY <1>4, <2>2, <3>1 DEF KeepPrevious
  <2> QED BY <1>4, <2>1, <2>2 DEF KeepPrevious
<1>5. ASSUME NEW c \in Analyst, RemovePrevious(c) PROVE StoreTypes'
  BY <1>5 DEF RemovePrevious
<1>6. ASSUME NEW c \in Analyst, OpenIndex(c) PROVE StoreTypes'
  BY <1>6 DEF OpenIndex
<1>7. ASSUME NEW c \in Analyst, RecordRunning(c) PROVE StoreTypes'
  BY <1>7 DEF RecordRunning, Record
<1>8. ASSUME NEW c \in Analyst, Compute(c) PROVE StoreTypes'
  BY <1>8 DEF Compute
<1>9. ASSUME NEW c \in Analyst, WriteDocument(c) PROVE StoreTypes'
  BY <1>9 DEF WriteDocument, Drafted
<1>10. ASSUME NEW c \in Analyst, PublishAttempt(c) PROVE StoreTypes'
  BY <1>10, SMTT(30) DEF PublishAttempt, Drafted
<1>11. ASSUME NEW c \in Analyst, MovePointer(c) PROVE StoreTypes'
  BY <1>11 DEF MovePointer, Drafted
<1>12. ASSUME NEW c \in Analyst, RecordOutcome(c) PROVE StoreTypes'
  BY <1>12 DEF RecordOutcome, Record, Drafted
<1>13. ASSUME NEW c \in Analyst, Upset(c) PROVE StoreTypes'
  <2>1. mine' \in [Analyst -> Documents]
    BY <1>13 DEF Upset
  <2>2. apc' \in [Analyst -> AnalystSteps] /\ indexLock' \in Analyst \union {"nobody"}
    BY <1>13 DEF Upset
  <2>3. \A a \in Analyst : indexLock' = a <=> apc'[a] \in {"running", "final"}
    BY <1>13 DEF Upset
  <2> QED BY <1>13, <2>1, <2>2, <2>3 DEF Upset, Abend
<1>14. ASSUME NEW c \in Analyst, Die(c) PROVE StoreTypes'
  BY <1>14 DEF Die, Abend
<1>15. CASE SourceGrows \/ UNCHANGED storeVars
  BY <1>15 DEF SourceGrows, storeVars
<1> QED BY <1>1, <1>2, <1>3, <1>4, <1>5, <1>6, <1>7, <1>8, <1>9, <1>10, <1>11, <1>12, <1>13, <1>14, <1>15 DEF StoreNext, Attempt

\* So is the rest: a success is superseded before its failure shows.
LEMMA StoreStep ==
    ASSUME StoreInv, [StoreNext]_storeVars
    PROVE  StoreInv'
<1> USE AnalysisAssumption DEF StoreInv
<1>1. StoreTypes'
  BY StoreTypesStep
<1>2. CASE SourceGrows \/ UNCHANGED storeVars
  <2>1. UNCHANGED <<documents, apc, ident, mine, history>>
    BY <1>2 DEF SourceGrows, storeVars, documents, history
  <2> QED BY <1>1, <2>1 DEF documents, history, PublishedBySpent, EarlierGone, OutdatedGone, Superseded,
                 Spent, ReadIsFresh, Drafted, NothingResurrected
<1>3. ASSUME NEW c \in Analyst, Attempt(c) \/ Upset(c) \/ Die(c)
      PROVE  StoreInv'
  <2>1. /\ AttemptMoves(c) /\ HandMoves(c) /\ DisplayMoves(c)
        /\ \A a \in Analyst \ {c} : Untouched(a)
    BY <1>3, AttemptStep
  <2>2. \A a \in Analyst : Spent(a) => Spent(a)' /\ ident'[a] = ident[a]
    BY <2>1 DEF Untouched, AttemptMoves, Spent, Over
  <2>3. \A v \in Version : published'[v] = published[v] \/ published'[v] = NoDoc
           \/ /\ ident[c] = v /\ Spent(c)' /\ ident'[c] = v
              /\ published'[v].by = c
              /\ published'[v].status = "success" => ~Spent(c)
    BY <2>1 DEF DisplayMoves, AttemptMoves, Drafted, Spent, Over, Failures
  <2>4. PublishedBySpent'
    <3> SUFFICES ASSUME NEW v \in Version, published'[v] # NoDoc
                 PROVE  /\ published'[v].by \in Analyst
                        /\ ident'[published'[v].by] = v /\ Spent(published[v].by)'
      BY DEF PublishedBySpent, Spent
    <3>1. CASE published'[v] = published[v]
      <4>1. PICK a \in Analyst : a = published[v].by /\ ident[a] = v /\ Spent(a)
        BY <3>1 DEF PublishedBySpent
      <4>2. Spent(a)' /\ ident'[a] = v
        BY <2>2, <4>1
      <4> QED BY <3>1, <4>1, <4>2 DEF Spent
    <3>2. CASE /\ ident[c] = v /\ Spent(c)' /\ ident'[c] = v
               /\ published'[v].by = c
      BY <3>2 DEF Spent
    <3> QED BY <2>3, <3>1, <3>2
  <2>5. ASSUME NEW b, Superseded(b) PROVE Superseded(b)'
    <3>1. b \in Analyst => Spent(b)'
      BY <2>2, <2>5 DEF Superseded
    <3>2. ASSUME NEW v \in Version, published'[v].by = b PROVE published'[v].status # "success"
      <4>1. CASE published'[v] = published[v]
        BY <2>5, <3>2, <4>1 DEF Superseded
      <4>2. CASE published'[v] = NoDoc
        BY <4>2 DEF NoDoc
      <4>3. CASE published'[v].by = c /\ (published'[v].status = "success" => ~Spent(c))
        BY <2>5, <3>2, <4>3 DEF Superseded
      <4> QED BY <2>3, <4>1, <4>2, <4>3
    <3> QED BY <3>1, <3>2 DEF Superseded
  <2>6. EarlierGone'
    <3> SUFFICES ASSUME NEW a \in Analyst, NEW b \in earlier'[a]
                 PROVE  /\ b \in Analyst => Spent(b)' /\ ident'[b] = ident'[a]
                        /\ apc'[a] \in Removing => Superseded(b)'
      BY DEF EarlierGone
    <3>1. CASE earlier'[a] = earlier[a] /\ ident'[a] = ident[a]
      <4>1. b \in Analyst => Spent(b)' /\ ident'[b] = ident'[a]
        BY <2>2, <3>1 DEF EarlierGone
      <4>2. CASE apc'[a] \in Removing /\ apc[a] \in Removing
        BY <2>5, <3>1, <4>1, <4>2 DEF EarlierGone
      <4>3. CASE apc'[a] \in Removing /\ apc[a] \notin Removing
        <5>1. published'[ident[a]] = NoDoc
          BY <2>1, <4>3 DEF HandMoves, Untouched
        <5>2. ASSUME NEW v \in Version, published'[v].by = b PROVE published'[v].status # "success"
          BY <2>4, <3>1, <4>1, <5>1, <5>2 DEF PublishedBySpent, NoDoc
        <5> QED BY <4>1, <5>2 DEF Superseded
      <4> QED BY <4>1, <4>2, <4>3
    <3>2. CASE a = c /\ apc[a] = "new" /\ earlier'[a] # earlier[a]
      <4>1. /\ apc'[a] \in {"keep", "lookup"} /\ ident'[a] = source
            /\ b = published[source].by /\ published' = published
        BY <2>1, <3>2 DEF AttemptMoves
      <4>2. source \in Version
        BY DEF StoreTypes, StoreTypeOK
      <4>3. b \in Analyst => Spent(b)' /\ ident'[b] = source
        BY <2>4, <4>1, <4>2 DEF PublishedBySpent, NoDoc
      <4> QED BY <4>1, <4>3 DEF Removing
    <3>3. \/ earlier'[a] = earlier[a] /\ ident'[a] = ident[a]
          \/ a = c /\ apc[a] = "new" /\ earlier'[a] # earlier[a]
      BY <2>1 DEF AttemptMoves, Untouched, ReadIsFresh
    <3> QED BY <3>1, <3>2, <3>3
  <2>7. OutdatedGone'
    BY <2>1, <2>5 DEF DisplayMoves, OutdatedGone, EarlierGone, Removing
  <2>8. ReadIsFresh'
    <3> SUFFICES ASSUME NEW a \in Analyst
                 PROVE  /\ known'[a] \subseteq outdated'
                        /\ apc'[a] = "compare" /\ mine'[a].status = "success" => mine'[a].by \notin known'[a]
                        /\ apc'[a] = "new" => reused'[a] = NoDoc /\ earlier'[a] = {}
      BY DEF ReadIsFresh
    <3>1. outdated \subseteq outdated'
      BY <2>1 DEF DisplayMoves
    <3>2. CASE a # c
      BY <2>1, <3>1, <3>2 DEF Untouched, ReadIsFresh
    <3>3. CASE a = c
      <4>1. ASSUME apc[a] = "lookup", mine'[a] = published[ident[a]], mine'[a].status = "success"
            PROVE  mine'[a].by \notin known[a]
        <5>1. ident[a] \in Version /\ mine'[a].by \notin outdated
          BY <4>1 DEF StoreTypes, StoreTypeOK, OutdatedGone, Superseded
        <5> QED BY <5>1 DEF ReadIsFresh
      <4> QED BY <2>1, <3>1, <3>3, <4>1 DEF AttemptMoves, HandMoves, ReadIsFresh
    <3> QED BY <3>2, <3>3
  <2>9. Drafted'
    BY <2>1 DEF Drafted, HandMoves, DisplayMoves, Untouched, Holding
  <2>10. NothingResurrected'
    BY <2>1 DEF NothingResurrected, AttemptMoves, HandMoves, DisplayMoves, Untouched, ReadIsFresh, Drafted
  <2> QED BY <1>1, <2>4, <2>6, <2>7, <2>8, <2>9, <2>10
<1> QED BY <1>2, <1>3 DEF StoreNext

\* What is on display and what the attempts hold belong together in every state
\* that the analyses of one directory reach (analysis/runner.py).
THEOREM StoreInvariant == StoreSpec => []StoreInv
<1>1. StoreInit => StoreInv
  BY AnalysisAssumption DEF StoreInit, StoreInv, StoreTypes, StoreTypeOK, Documents, NoDoc, AnalystSteps, PublishedBySpent,
       EarlierGone, OutdatedGone, Superseded, Spent, Over, ReadIsFresh, Drafted, NothingResurrected
<1> QED BY <1>1, StoreStep, PTL DEF StoreSpec

\* The types of the analysis store.
THEOREM StoreTypesInvariant == StoreSpec => []StoreTypeOK
<1>1. StoreInv => StoreTypeOK
  BY DEF StoreInv, StoreTypes
<1> QED BY <1>1, StoreInvariant, PTL

\* A success that a later attempt at the same request has outdated is never
\* returned from the cache, and the pointer names a complete attempt
\* (run_analysis of analysis/runner.py; review R06).
THEOREM NoSuccessResurrected == StoreSpec => []NothingResurrected
<1>1. StoreInv => NothingResurrected
  BY DEF StoreInv
<1> QED BY <1>1, StoreInvariant, PTL

-------------------------------------------------------------------------------
(* TrajectoryData *)

\* A function that each step continues from the value before it exists: the least
\* length without one would follow a length with one.
Stepwise(f, n, X, a, h) ==
    f \in [0..n -> X] /\ f[0] = a /\ \A i \in 1..n : f[i] = h[<<i, f[i - 1]>>]

LEMMA StepwiseExists ==
    ASSUME NEW X, NEW n \in Nat, NEW a \in X, NEW h \in [(1..n) \X X -> X]
    PROVE  \E f : Stepwise(f, n, X, a, h)
<1> USE DEF Stepwise
<1> DEFINE Follows(f, m) == f[0] = a /\ \A i \in 1..m : f[i] = h[<<i, f[i - 1]>>]
           T == {m \in 0..n : ~\E f \in [0..m -> X] : Follows(f, m)}
<1>1. CASE T = {}
  <2>1. n \in 0..n /\ n \notin T
    BY <1>1
  <2> QED BY <2>1
<1>2. CASE T # {}
  <2>1. T \in SUBSET Nat
    OBVIOUS
  <2>2. PICK m \in T : \A y \in T : m <= y
    <3> HIDE DEF T
    <3> QED BY <1>2, <2>1, LeastNumber
  <2>3. m # 0
    <3>1. [i \in 0..0 |-> a] \in [0..0 -> X] /\ Follows([i \in 0..0 |-> a], 0)
      OBVIOUS
    <3> QED BY <3>1
  <2>4. m \in 1..n /\ m - 1 \in 0..n /\ m - 1 \notin T
    BY <2>2, <2>3
  <2>5. PICK f \in [0..(m - 1) -> X] : Follows(f, m - 1)
    BY <2>4
  <2> DEFINE g == [i \in 0..m |-> IF i = m THEN h[<<m, f[m - 1]>>] ELSE f[i]]
  <2>6. g \in [0..m -> X]
    BY <2>4
  <2>7. g[0] = a
    BY <2>4, <2>5
  <2>8. ASSUME NEW i \in 1..m PROVE g[i] = h[<<i, g[i - 1]>>]
    <3>1. CASE i = m
      <4>1. g[m] = h[<<m, f[m - 1]>>] /\ m - 1 \in 0..m /\ m - 1 # m
        BY <2>4
      <4>2. g[m - 1] = f[m - 1]
        BY <4>1
      <4> QED BY <3>1, <4>1, <4>2
    <3>2. CASE i # m
      <4>1. i \in 1..(m - 1) /\ i - 1 \in 0..(m - 1) /\ i \in 0..m /\ i - 1 \in 0..m /\ i - 1 # m
        BY <2>4, <3>2
      <4>2. g[i] = f[i] /\ g[i - 1] = f[i - 1]
        BY <3>2, <4>1
      <4>3. f[i] = h[<<i, f[i - 1]>>]
        BY <2>5, <4>1
      <4> QED BY <4>2, <4>3
    <3> QED BY <3>1, <3>2
  <2> HIDE DEF g
  <2>9. Follows(g, m)
    BY <2>7, <2>8
  <2> QED BY <2>2, <2>6, <2>9
<1> QED BY <1>1, <1>2

\* A sequence of numbers that rise, up to a bound.
Rising(s, m) == s \in Seq(1..m) /\ \A i, j \in 1..Len(s) : i < j => s[i] < s[j]

\* The numbers of a set, taken one after the other up to n.
Taken(f, n, keep) ==
    f = [i \in 0..n |-> IF i = 0 THEN <<>>
                        ELSE IF i \in keep THEN Append(f[i - 1], i) ELSE f[i - 1]]

LEMMA TakenExists == ASSUME NEW n \in Nat, NEW keep PROVE \E f : Taken(f, n, keep)
<1> DEFINE X == Seq(Nat)
           h == [p \in (1..n) \X X |-> IF p[1] \in keep THEN Append(p[2], p[1]) ELSE p[2]]
<1>1. ASSUME NEW p \in (1..n) \X X
      PROVE  (IF p[1] \in keep THEN Append(p[2], p[1]) ELSE p[2]) \in X
  <2>1. p[1] \in Nat /\ p[2] \in Seq(Nat)
    OBVIOUS
  <2> QED BY <2>1
<1>2. <<>> \in X
  OBVIOUS
<1>3. ASSUME NEW i \in 1..n, NEW s \in X
      PROVE  h[<<i, s>>] = IF i \in keep THEN Append(s, i) ELSE s
  OBVIOUS
<1> HIDE DEF X
<1>4. h \in [(1..n) \X X -> X]
  BY <1>1
<1> HIDE DEF h
<1> DEFINE none == <<>>
<1> HIDE DEF none
<1>5. PICK f \in [0..n -> X] : f[0] = none /\ \A i \in 1..n : f[i] = h[<<i, f[i - 1]>>]
  <2>1. none \in X
    BY <1>2 DEF none
  <2>2. \E f : Stepwise(f, n, X, none, h)
    BY <1>4, <2>1, StepwiseExists
  <2> QED BY <2>2, Zenon DEF Stepwise
<1>6. ASSUME NEW i \in 1..n PROVE f[i] = IF i \in keep THEN Append(f[i - 1], i) ELSE f[i - 1]
  <2>1. f[i - 1] \in X
    BY <1>5
  <2> QED BY <1>3, <1>5, <2>1
<1> DEFINE more(i) == IF i \in keep THEN Append(f[i - 1], i) ELSE f[i - 1]
           value(i) == IF i = 0 THEN <<>> ELSE more(i)
<1>7. ASSUME NEW i \in 0..n PROVE f[i] = value(i)
  <2>1. CASE i = 0
    BY <1>5, <2>1 DEF none
  <2>2. CASE i \in 1..n
    <3>1. f[i] = more(i)
      BY <1>6, <2>2
    <3>2. i # 0
      BY <2>2
    <3> HIDE DEF more
    <3> QED BY <3>1, <3>2
  <2> QED BY <2>1, <2>2
<1>8. f = [i \in 0..n |-> f[i]]
  BY <1>5
<1> HIDE DEF value
<1>9. f = [i \in 0..n |-> value(i)]
  BY <1>7, <1>8
<1> QED BY <1>9 DEF value, more, Taken

LEMMA TakenRise == ASSUME NEW n \in Nat, NEW keep, NEW f, Taken(f, n, keep) PROVE Rising(f[n], n)
<1> DEFINE value(i) == IF i = 0 THEN <<>> ELSE IF i \in keep THEN Append(f[i - 1], i) ELSE f[i - 1]
<1>0. \A i \in 0..n : f[i] = value(i)
  <2>1. f = [i \in 0..n |-> value(i)]
    BY DEF Taken
  <2> HIDE DEF value
  <2> QED BY <2>1
<1>1. f[0] = <<>>
  BY <1>0
<1>2. ASSUME NEW i \in 1..n PROVE f[i] = Append(f[i - 1], i) \/ f[i] = f[i - 1]
  <2>1. i \in 0..n /\ i # 0
    OBVIOUS
  <2> QED BY <1>0, <2>1
<1> HIDE DEF value
<1> DEFINE T == {m \in 0..n : ~Rising(f[m], m)}
<1>3. T = {}
  <2> SUFFICES ASSUME T # {} PROVE FALSE
    OBVIOUS
  <2>1. PICK m \in T : \A y \in T : m <= y
    <3>1. T \in SUBSET Nat
      OBVIOUS
    <3> HIDE DEF T
    <3> QED BY <3>1, LeastNumber
  <2>2. m # 0
    <3>1. Rising(<<>>, 0)
      BY DEF Rising
    <3> QED BY <1>1, <3>1
  <2>3. m \in 1..n /\ m - 1 \in 0..n /\ m - 1 \notin T
    BY <2>1, <2>2
  <2> DEFINE s == f[m - 1]
  <2>4. Rising(s, m - 1)
    BY <2>3
  <2>5. f[m] = Append(s, m) \/ f[m] = s
    BY <1>2, <2>3
  <2> HIDE DEF s
  <2>6. s \in Seq(1..m)
    BY <2>3, <2>4 DEF Rising
  <2>7. Rising(Append(s, m), m)
    <3>1. Append(s, m) \in Seq(1..m) /\ Len(Append(s, m)) = Len(s) + 1 /\ Len(s) \in Nat
      BY <2>3, <2>6
    <3>2. ASSUME NEW i \in 1..(Len(s) + 1), NEW j \in 1..(Len(s) + 1), i < j
          PROVE  Append(s, m)[i] < Append(s, m)[j]
      <4>1. i \in 1..Len(s) /\ Append(s, m)[i] = s[i] /\ s[i] \in 1..(m - 1)
        BY <3>1, <3>2, <2>4, <2>6 DEF Rising
      <4>2. CASE j = Len(s) + 1
        BY <4>1, <4>2, <2>3, <2>6
      <4>3. CASE j \in 1..Len(s)
        BY <4>1, <4>3, <3>2, <2>4, <2>6 DEF Rising
      <4> QED BY <3>1, <4>2, <4>3
    <3> QED BY <3>1, <3>2 DEF Rising
  <2>8. Rising(s, m)
    BY <2>4, <2>6 DEF Rising
  <2> QED BY <2>1, <2>5, <2>7, <2>8
<1> QED BY <1>3

\* The frames that an analysis keeps are frames of the dataset, in their order.
LEMMA ViewRises ==
    ASSUME NEW equilibration, NEW start, dataset.n \in Nat
    PROVE  Rising(View(equilibration, start), dataset.n)
<1> DEFINE n == dataset.n
           keep == {i \in 1..n : i > start /\ (equilibration \/ dataset.phases[i] = "production")}
           Law(f) == [i \in 0..n |->
                        IF i = 0 THEN <<>>
                        ELSE IF i > start /\ (equilibration \/ dataset.phases[i] = "production")
                        THEN Append(f[i - 1], i) ELSE f[i - 1]]
           f == CHOOSE g : g = Law(g)
<1>1. View(equilibration, start) = f[n]
  BY DEF View
<1>2. \A g : g = Law(g) <=> Taken(g, n, keep)
  BY DEF Taken
<1> HIDE DEF Law, keep
<1>3. \E g : g = Law(g)
  BY <1>2, TakenExists
<1>4. Taken(f, n, keep)
  BY <1>2, <1>3
<1> HIDE DEF f
<1> QED BY <1>1, <1>4, TakenRise

\* The sum of the steps since the first frame, when each step goes from one place
\* to the next, is the way from the first place.
LEMMA PathIsTheWay ==
    ASSUME NEW view, NEW m \in Nat, DOMAIN view = 1..m, NEW atom, NEW x,
           \A k \in 1..m : x[k] \in Int,
           \A k \in 2..m : StepOf(view, k, atom) = x[k] - x[k - 1]
    PROVE  \A k \in 1..m : Unwrapped(view, atom)[k] = x[k] - x[1]
<1> DEFINE Law(g) == [k \in 1..m |-> IF k = 1 THEN 0 ELSE g[k - 1] + StepOf(view, k, atom)]
           way == [k \in 1..m |-> x[k] - x[1]]
           path == CHOOSE g : g = Law(g)
<1>1. way = Law(way)
  <2>1. ASSUME NEW k \in 1..m
        PROVE  way[k] = IF k = 1 THEN 0 ELSE way[k - 1] + StepOf(view, k, atom)
    <3>1. CASE k = 1
      BY <3>1
    <3>2. CASE k # 1
      <4>1. k \in 2..m /\ k - 1 \in 1..m /\ 1 \in 1..m
        BY <3>2
      <4>2. way[k] = x[k] - x[1] /\ way[k - 1] = x[k - 1] - x[1]
        BY <4>1
      <4> HIDE DEF way
      <4> QED BY <3>2, <4>1, <4>2
    <3> QED BY <3>1, <3>2
  <2> DEFINE w == way
  <2>2. w = [k \in 1..m |-> w[k]]
    OBVIOUS
  <2> HIDE DEF w
  <2>3. \A k \in 1..m : w[k] = IF k = 1 THEN 0 ELSE w[k - 1] + StepOf(view, k, atom)
    BY <2>1 DEF w
  <2>4. w = Law(w)
    BY <2>2, <2>3
  <2> QED BY <2>4 DEF w
<1>2. path = Law(path)
  <2> HIDE DEF Law, way
  <2> QED BY <1>1
<1>3. Unwrapped(view, atom) = path
  BY DEF Unwrapped
<1> HIDE DEF path
<1>4. \A k \in 1..m : path[k] = IF k = 1 THEN 0 ELSE path[k - 1] + StepOf(view, k, atom)
  <2> DEFINE value(k) == IF k = 1 THEN 0 ELSE path[k - 1] + StepOf(view, k, atom)
  <2>1. path = [k \in 1..m |-> value(k)]
    BY <1>2
  <2> HIDE DEF value
  <2>2. \A k \in 1..m : path[k] = value(k)
    BY <2>1
  <2> QED BY <2>2 DEF value
<1> HIDE DEF Law, way
<1> DEFINE T == {k \in 1..m : path[k] # x[k] - x[1]}
<1>5. T = {}
  <2> SUFFICES ASSUME T # {} PROVE FALSE
    OBVIOUS
  <2>1. PICK k \in T : \A y \in T : k <= y
    <3>1. T \in SUBSET Nat
      OBVIOUS
    <3> HIDE DEF T
    <3> QED BY <3>1, LeastNumber
  <2>2. k # 1
    BY <1>4
  <2>3. k \in 2..m /\ k - 1 \in 1..m /\ k - 1 \notin T /\ 1 \in 1..m
    BY <2>1, <2>2
  <2>4. path[k - 1] = x[k - 1] - x[1]
    BY <2>3
  <2>5. path[k] = path[k - 1] + StepOf(view, k, atom)
    BY <1>4, <2>3
  <2>6. x[k] \in Int /\ x[k - 1] \in Int /\ x[1] \in Int /\ StepOf(view, k, atom) = x[k] - x[k - 1]
    BY <2>3
  <2>7. path[k] = x[k] - x[1]
    BY <2>4, <2>5, <2>6
  <2> QED BY <2>7
<1> QED BY <1>3, <1>5

\* Times that are evenly spaced tell how many intervals lie between two frames.
LEMMA EvenTimes ==
    ASSUME NEW times, NEW m \in Nat, times \in [1..m -> Int], UniformInterval(times) # 0
    PROVE  /\ m >= 2 /\ UniformInterval(times) = times[2] - times[1]
           /\ \A i, j \in 1..m : (j - i) * UniformInterval(times) = times[j] - times[i]
<1> DEFINE d == times[2] - times[1]
<1>1. Len(times) = m
  OBVIOUS
<1>2. m >= 2 /\ UniformInterval(times) = d /\ \A i \in 2..m : times[i] - times[i - 1] = d
  BY <1>1 DEF UniformInterval
<1>3. d \in Int
  BY <1>2
<1> DEFINE T == {k \in 1..m : times[k] # times[1] + (k - 1) * d}
<1> HIDE DEF d
<1>4. T = {}
  <2> SUFFICES ASSUME T # {} PROVE FALSE
    OBVIOUS
  <2>1. PICK k \in T : \A y \in T : k <= y
    <3>1. T \in SUBSET Nat
      OBVIOUS
    <3> HIDE DEF T
    <3> QED BY <3>1, LeastNumber
  <2>2. k # 1
    BY <1>2, <1>3
  <2>3. k \in 2..m /\ k - 1 \in 1..m /\ k - 1 \notin T /\ 1 \in 1..m
    BY <2>1, <2>2
  <2>4. times[k - 1] = times[1] + (k - 2) * d
    BY <2>3
  <2>5. times[k] = times[k - 1] + d
    <3>1. k \in 1..m /\ times[k] \in Int /\ times[k - 1] \in Int
      BY <2>3
    <3>2. times[k] - times[k - 1] = d
      BY <1>2, <2>3
    <3> QED BY <1>3, <3>1, <3>2, SMTT(30)
  <2>6. (k - 2) * d + d = (k - 1) * d
    BY <1>3, <2>3
  <2>7. times[k] = times[1] + (k - 1) * d
    BY <1>3, <2>3, <2>4, <2>5, <2>6
  <2> QED BY <2>7
<1>5. ASSUME NEW i \in 1..m, NEW j \in 1..m PROVE (j - i) * d = times[j] - times[i]
  <2>1. times[i] = times[1] + (i - 1) * d /\ times[j] = times[1] + (j - 1) * d
    BY <1>4
  <2>2. (j - 1) * d - (i - 1) * d = (j - i) * d
    BY <1>3
  <2>3. times[1] \in Int /\ (j - 1) * d \in Int /\ (i - 1) * d \in Int
    BY <1>2, <1>3
  <2> QED BY <2>1, <2>2, <2>3
<1> QED BY <1>2, <1>5 DEF d

\* What is less than a divisor is its own remainder, whatever multiple is added.
LEMMA RemainderOfSum ==
    ASSUME NEW c \in Nat, c > 0, NEW y \in 0..(c - 1), NEW t \in Int
    PROVE  (y + c * t) % c = y
OBVIOUS

\* A step of less than half a cell is the minimum image of what is written of it.
LEMMA HalfACell ==
    ASSUME NEW a \in Int, NEW b \in Int, 2 * Abs(a - b) < Cell
    PROVE  MinimumImage((a % Cell) - (b % Cell)) = a - b
<1> DEFINE d == a - b
<1>1. d <= Abs(d) /\ -d <= Abs(d) /\ Abs(d) \in Int
  <2>1. d \in Int
    OBVIOUS
  <2> HIDE DEF d
  <2>2. CASE d >= 0
    BY <2>1, <2>2 DEF Abs, Max
  <2>3. CASE d < 0
    BY <2>1, <2>3, SMTT(30) DEF Abs, Max
  <2> QED BY <2>1, <2>2, <2>3
<1>2. Cell \in Nat /\ Cell > 0 /\ Cell = 2 * (Cell \div 2) + 1 /\ Cell \div 2 \in Nat
  BY TrajectoryAssumption DEF TrajectoryAssumption
<1> DEFINE half == Cell \div 2
           y == d + half
           t == (b \div Cell) - (a \div Cell)
<1>3. d \in Int /\ y \in 0..(Cell - 1)
  BY <1>1, <1>2
<1>4. /\ a = Cell * (a \div Cell) + (a % Cell) /\ b = Cell * (b \div Cell) + (b % Cell)
      /\ a \div Cell \in Int /\ b \div Cell \in Int /\ a % Cell \in Int /\ b % Cell \in Int
  BY <1>2
<1>5. Cell * t = Cell * (b \div Cell) - Cell * (a \div Cell) /\ t \in Int
  BY <1>2, <1>4
<1>6. ((a % Cell) - (b % Cell)) + half = y + Cell * t
  BY <1>2, <1>4, <1>5
<1>7. (y + Cell * t) % Cell = y
  <2>1. Cell \in Nat /\ Cell > 0 /\ y \in 0..(Cell - 1) /\ t \in Int
    BY <1>2, <1>3, <1>5
  <2> HIDE DEF y, t
  <2> QED BY <2>1, RemainderOfSum
<1> QED BY <1>2, <1>3, <1>6, <1>7 DEF MinimumImage

\* The frames of a trajectory advance, not faster than the interval; only a run
\* saves one off the grid.
Frames == [step : Nat, phase : {"equilibration", "production"}, mobile : Int, framework : Int]

FramesAdvance ==
    /\ saved \in Seq(Frames) /\ Len(saved) >= 1
    /\ \A i \in 1..Len(saved) : saved[i].step <= (i - 1) * SaveInterval
    /\ \A i, j \in 1..Len(saved) : i < j => saved[i].step < saved[j].step
    /\ origin.kind # "run" => \A i \in 1..Len(saved) : saved[i].step = (i - 1) * SaveInterval

OriginOK ==
    /\ origin.kind \in {"run", "external", "band"} /\ origin.start \in Nat
    /\ artifacts \in {"none"} \cup Ends
    /\ artifacts # "none" \/ origin.traj => origin.kind = "run"

\* What was loaded: a part of the frames, times that rise, and the steps and the
\* convention of the atoms when they are determined.
DatasetOK ==
    dataset.state = "loaded" =>
        /\ origin.kind # "band" /\ dataset.n \in 1..Len(saved)
        /\ dataset.times # Unknown =>
              /\ dataset.times \in [1..dataset.n -> Int]
              /\ \A i, j \in 1..dataset.n : i < j => dataset.times[i] < dataset.times[j]
              /\ Determined => \A i \in 1..dataset.n : dataset.times[i] = saved[i].step
        /\ Determined /\ dataset.convention # "unknown" =>
              dataset.convention = IF origin.kind = "external" THEN "wrapped" ELSE "unwrapped"

\* An answer is about what was loaded; components keep to the answer they are in.
AnswerOK ==
    /\ answer.verdict = "result" => dataset.state = "loaded"
    /\ answer.verdict = "result" /\ "exact" \in DOMAIN answer =>
          /\ answer = [verdict |-> answer.verdict, view |-> answer.view, drift |-> answer.drift,
                       lags |-> answer.lags, interval |-> answer.interval, moved |-> answer.moved,
                       exact |-> answer.exact, grade |-> answer.grade, parts |-> answer.parts]
          /\ answer.exact \in BOOLEAN /\ answer.grade \in BOOLEAN

TrajectoryInv == FramesAdvance /\ OriginOK /\ DatasetOK /\ AnswerOK /\ DisplacementsAreTrue

\* The first frame.
LEMMA TrajectoryInvInit == TrajectoryInit => TrajectoryInv
<1> SUFFICES ASSUME TrajectoryInit PROVE TrajectoryInv
  OBVIOUS
<1>1. /\ origin.kind \in {"run", "external", "band"} /\ origin.start \in Nat /\ artifacts = "none"
      /\ origin.kind # "run" => ~origin.traj
  BY TrajectoryAssumption DEF TrajectoryAssumption, TrajectoryInit
<1>2. PICK f \in Frames : f.step = 0 /\ saved = <<f>>
  <2> DEFINE f == [step |-> 0, phase |-> IF origin.start > 0 THEN "equilibration" ELSE "production",
                   mobile |-> 0, framework |-> 0]
  <2>1. f \in Frames /\ f.step = 0 /\ saved = <<f>>
    BY DEF TrajectoryInit, Frames
  <2> QED BY <2>1
<1>3. saved \in Seq(Frames) /\ Len(saved) = 1 /\ saved[1] = f
  BY <1>2
<1>4. FramesAdvance
  <2>1. SaveInterval \in Nat
    BY TrajectoryAssumption DEF TrajectoryAssumption
  <2> QED BY <1>2, <1>3, <2>1 DEF FramesAdvance
<1>5. dataset.state = "none" /\ answer.verdict = "none"
  BY DEF TrajectoryInit
<1> QED BY <1>1, <1>4, <1>5 DEF TrajectoryInv, OriginOK, DatasetOK, AnswerOK, DisplacementsAreTrue

\* A frame that is saved later is further on.
LEMMA SavingAdvances ==
    ASSUME FramesAdvance, NEW f \in Frames, saved' = Append(saved, f), origin' = origin,
           saved[Len(saved)].step < f.step, f.step <= Len(saved) * SaveInterval,
           origin.kind # "run" => f.step = Len(saved) * SaveInterval
    PROVE  FramesAdvance'
<1> DEFINE n == Len(saved)
<1>1. n \in Nat /\ n >= 1 /\ saved \in Seq(Frames)
  BY DEF FramesAdvance
<1>2. /\ saved' \in Seq(Frames) /\ Len(saved') = n + 1
      /\ \A i \in 1..n : saved'[i] = saved[i]
      /\ saved'[n + 1] = f
  BY <1>1
<1>3. SaveInterval \in Nat /\ \A i \in 1..n : saved[i].step \in Nat /\ saved[i].step <= saved[n].step
  <2>1. SaveInterval \in Nat
    BY TrajectoryAssumption DEF TrajectoryAssumption
  <2>2. ASSUME NEW i \in 1..n PROVE saved[i].step \in Nat
    <3>1. saved[i] \in Frames
      BY <1>1
    <3> QED BY <3>1 DEF Frames
  <2>3. ASSUME NEW i \in 1..n PROVE saved[i].step <= saved[n].step
    <3>1. CASE i = n
      BY <2>2, <3>1
    <3>2. CASE i < n
      <4>1. saved[i].step < saved[n].step
        BY <1>1, <3>2 DEF FramesAdvance
      <4>2. n \in 1..n
        BY <1>1
      <4> QED BY <2>2, <4>1, <4>2
    <3> QED BY <1>1, <3>1, <3>2
  <2> QED BY <2>1, <2>2, <2>3
<1>4. f.step \in Nat
  BY DEF Frames
<1> HIDE DEF n
<1>5. ASSUME NEW i \in 1..(n + 1)
      PROVE  /\ saved'[i].step <= (i - 1) * SaveInterval
             /\ origin.kind # "run" => saved'[i].step = (i - 1) * SaveInterval
  <2>1. CASE i \in 1..n
    BY <1>2, <2>1 DEF FramesAdvance, n
  <2>2. CASE i = n + 1
    <3>1. i - 1 = n /\ saved'[i] = f
      BY <1>1, <1>2, <2>2
    <3> QED BY <3>1 DEF n
  <2>3. i \in 1..n \/ i = n + 1
    BY <1>1
  <2> QED BY <2>1, <2>2, <2>3
<1>6. ASSUME NEW i \in 1..(n + 1), NEW j \in 1..(n + 1), i < j
      PROVE  saved'[i].step < saved'[j].step
  <2>1. i \in 1..n /\ saved'[i] = saved[i]
    BY <1>1, <1>2, <1>6
  <2>2. CASE j \in 1..n
    BY <1>2, <1>6, <2>1, <2>2 DEF FramesAdvance, n
  <2>3. CASE j = n + 1
    <3>1. saved[n].step < f.step /\ n \in 1..n
      BY <1>1 DEF n
    <3> QED BY <1>2, <1>3, <1>4, <2>1, <2>3, <3>1
  <2>4. j \in 1..n \/ j = n + 1
    BY <1>1
  <2> QED BY <2>2, <2>3, <2>4
<1> QED BY <1>1, <1>2, <1>5, <1>6 DEF FramesAdvance

\* What an analysis works on.
LEMMA EligibleView ==
    ASSUME TrajectoryInv, dataset.state = "loaded", NEW equilibration, NEW start,
           Eligible(View(equilibration, start))
    PROVE  LET view == View(equilibration, start)
               m == Len(view)
           IN  /\ m \in Nat /\ m >= 4 /\ DOMAIN view = 1..m
               /\ \A k \in 1..m : view[k] \in 1..dataset.n
               /\ \A i, j \in 1..m : i < j => view[i] < view[j]
               /\ dataset.times # Unknown /\ UniformAxis(view) \in Int /\ UniformAxis(view) > 0
               /\ \A i, j \in 1..m : (j - i) * UniformAxis(view)
                                        = dataset.times[view[j]] - dataset.times[view[i]]
<1> DEFINE view == View(equilibration, start)
           m == Len(view)
           times == TimesOf(view)
<1>1. dataset.n \in Nat
  BY DEF TrajectoryInv, DatasetOK, FramesAdvance
<1>2. Rising(view, dataset.n)
  BY <1>1, ViewRises
<1>3. m >= 4 /\ UniformAxis(view) # 0 /\ UniformAxis(view) = UniformInterval(times)
  BY DEF Eligible, UniformAxis
<1> HIDE DEF view
<1>4. /\ m \in Nat /\ DOMAIN view = 1..m /\ \A k \in 1..m : view[k] \in 1..dataset.n
      /\ \A i, j \in 1..m : i < j => view[i] < view[j]
  <2>1. view \in Seq(1..dataset.n)
    BY <1>2 DEF Rising
  <2>2. m \in Nat /\ DOMAIN view = 1..m /\ \A k \in 1..m : view[k] \in 1..dataset.n
    <3> DEFINE S == 1..dataset.n
    <3> HIDE DEF S
    <3>1. view \in Seq(S)
      BY <2>1 DEF S
    <3>2. m \in Nat /\ DOMAIN view = 1..m /\ \A k \in 1..m : view[k] \in S
      BY <3>1
    <3> QED BY <3>2 DEF S
  <2>3. \A i, j \in 1..m : i < j => view[i] < view[j]
    BY <1>2 DEF Rising
  <2> QED BY <2>2, <2>3
<1>5. dataset.times # Unknown
  <2>1. ASSUME dataset.times = Unknown PROVE FALSE
    <3>1. times = <<>>
      BY <2>1 DEF TimesOf, Unknown
    <3> QED BY <1>3, <3>1 DEF UniformInterval
  <2> QED BY <2>1
<1>6. times = [k \in 1..m |-> dataset.times[view[k]]]
  BY <1>4, <1>5 DEF TimesOf
<1>7. /\ dataset.times \in [1..dataset.n -> Int]
      /\ \A i, j \in 1..dataset.n : i < j => dataset.times[i] < dataset.times[j]
  BY <1>5 DEF TrajectoryInv, DatasetOK
<1>8. times \in [1..m -> Int]
  BY <1>4, <1>6, <1>7
<1> HIDE DEF m
<1>9. \A k \in 1..m : times[k] = dataset.times[view[k]]
  BY <1>6
<1> HIDE DEF times
<1>10. /\ UniformInterval(times) = times[2] - times[1]
       /\ \A i, j \in 1..m : (j - i) * UniformInterval(times) = times[j] - times[i]
  BY <1>3, <1>4, <1>8, EvenTimes
<1>11. UniformInterval(times) \in Int /\ UniformInterval(times) > 0
  <2>1. 1 \in 1..m /\ 2 \in 1..m
    BY <1>3, <1>4
  <2>2. view[1] \in 1..dataset.n /\ view[2] \in 1..dataset.n /\ view[1] < view[2]
    BY <1>4, <2>1
  <2>3. times[1] < times[2] /\ times[1] \in Int /\ times[2] \in Int
    BY <1>7, <1>8, <1>9, <2>1, <2>2
  <2> QED BY <1>10, <2>3
<1>12. \A i, j \in 1..m : (j - i) * UniformAxis(view)
                             = dataset.times[view[j]] - dataset.times[view[i]]
  BY <1>3, <1>9, <1>10
<1> QED BY <1>3, <1>4, <1>5, <1>11, <1>12 DEF view, m

\* In a determined trajectory a step of the view is the way between its frames.
LEMMA StepIsTheWay ==
    ASSUME TrajectoryInv, dataset.state = "loaded", dataset.convention # "unknown", Determined,
           NEW view, NEW m \in Nat, \A k \in 1..m : view[k] \in 1..dataset.n, DOMAIN view = 1..m,
           Len(view) = m, Followed(view), NEW k \in 2..m
    PROVE  /\ saved[view[k]].mobile \in Int /\ saved[view[k - 1]].mobile \in Int
           /\ saved[view[k]].framework \in Int /\ saved[view[k - 1]].framework \in Int
           /\ StepOf(view, k, "mobile") = saved[view[k]].mobile - saved[view[k - 1]].mobile
           /\ StepOf(view, k, "framework") = saved[view[k]].framework - saved[view[k - 1]].framework
<1>1. saved[view[k]] \in Frames /\ saved[view[k - 1]] \in Frames
  <2>1. dataset.n \in 1..Len(saved) /\ saved \in Seq(Frames)
    BY DEF TrajectoryInv, DatasetOK, FramesAdvance
  <2>2. \A i \in 1..dataset.n : i \in 1..Len(saved)
    BY <2>1
  <2>3. view[k] \in 1..dataset.n /\ view[k - 1] \in 1..dataset.n
    OBVIOUS
  <2>4. view[k] \in 1..Len(saved) /\ view[k - 1] \in 1..Len(saved)
    BY <2>2, <2>3
  <2> QED BY <2>1, <2>4
<1> DEFINE a == saved[view[k]].mobile  b == saved[view[k - 1]].mobile
           c == saved[view[k]].framework  d == saved[view[k - 1]].framework
<1>2. a \in Int /\ b \in Int /\ c \in Int /\ d \in Int
  BY <1>1 DEF Frames
<1>3. dataset.convention = IF origin.kind = "external" THEN "wrapped" ELSE "unwrapped"
  BY DEF TrajectoryInv, DatasetOK
<1>4. StepOf(view, k, "mobile") = IF dataset.convention = "wrapped" THEN MinimumImage(Written(a) - Written(b))
                                  ELSE Written(a) - Written(b)
  BY DEF StepOf
<1>5. StepOf(view, k, "framework") = IF dataset.convention = "wrapped" THEN MinimumImage(Written(c) - Written(d))
                                     ELSE Written(c) - Written(d)
  BY DEF StepOf
<1>6. CASE origin.kind = "external"
  <2>1. 2 * Abs(a - b) < Cell /\ 2 * Abs(c - d) < Cell
    BY <1>6 DEF Followed
  <2> HIDE DEF a, b, c, d
  <2>2. MinimumImage((a % Cell) - (b % Cell)) = a - b /\ MinimumImage((c % Cell) - (d % Cell)) = c - d
    BY <1>2, <2>1, HalfACell
  <2>3. StepOf(view, k, "mobile") = a - b /\ StepOf(view, k, "framework") = c - d
    BY <1>3, <1>4, <1>5, <1>6, <2>2 DEF Written
  <2> QED BY <1>2, <2>3 DEF a, b, c, d
<1>7. CASE origin.kind # "external"
  <2> HIDE DEF a, b, c, d
  <2>1. StepOf(view, k, "mobile") = a - b /\ StepOf(view, k, "framework") = c - d
    BY <1>3, <1>4, <1>5, <1>7 DEF Written
  <2> QED BY <1>2, <2>1 DEF a, b, c, d
<1> QED BY <1>6, <1>7

\* So the displacements and the times of an answer are those of the atoms.
LEMMA AnswerIsTrue ==
    ASSUME TrajectoryInv, dataset.state = "loaded", NEW equilibration, NEW start,
           NEW drift \in {"none", "nonmobile"},
           Eligible(View(equilibration, start)), Determined, Followed(View(equilibration, start)),
           NEW i \in DOMAIN View(equilibration, start), NEW j \in DOMAIN View(equilibration, start)
    PROVE  LET view == View(equilibration, start)
           IN  /\ Corrected(view, j, drift) - Corrected(view, i, drift) = Gone(view[i], view[j], drift)
               /\ (j - i) * UniformAxis(view) = saved[view[j]].step - saved[view[i]].step
<1> DEFINE view == View(equilibration, start)
           m == Len(view)
<1>1. /\ m \in Nat /\ m >= 4 /\ DOMAIN view = 1..m /\ \A k \in 1..m : view[k] \in 1..dataset.n
      /\ dataset.times # Unknown
      /\ \A p, q \in 1..m : (q - p) * UniformAxis(view)
                               = dataset.times[view[q]] - dataset.times[view[p]]
  BY EligibleView
<1>2. dataset.convention # "unknown"
  BY DEF Eligible
<1>3. \A p \in 1..dataset.n : dataset.times[p] = saved[p].step
  BY <1>1 DEF TrajectoryInv, DatasetOK
<1>4. i \in 1..m /\ j \in 1..m
  BY <1>1
<1>5. Followed(view)
  OBVIOUS
<1> HIDE DEF view
<1>6. Len(view) = m
  OBVIOUS
<1> HIDE DEF m
<1>7. (j - i) * UniformAxis(view) = saved[view[j]].step - saved[view[i]].step
  <2>1. view[i] \in 1..dataset.n /\ view[j] \in 1..dataset.n
    BY <1>1, <1>4
  <2> QED BY <1>1, <1>3, <1>4, <2>1
<1> DEFINE mobile == [k \in 1..m |-> saved[view[k]].mobile]
           framework == [k \in 1..m |-> saved[view[k]].framework]
<1>8. ASSUME NEW k \in 2..m
      PROVE  /\ mobile[k] \in Int /\ mobile[k - 1] \in Int
             /\ framework[k] \in Int /\ framework[k - 1] \in Int
             /\ StepOf(view, k, "mobile") = mobile[k] - mobile[k - 1]
             /\ StepOf(view, k, "framework") = framework[k] - framework[k - 1]
  <2>1. k \in 1..m /\ k - 1 \in 1..m
    BY <1>1
  <2>2. /\ saved[view[k]].mobile \in Int /\ saved[view[k - 1]].mobile \in Int
        /\ saved[view[k]].framework \in Int /\ saved[view[k - 1]].framework \in Int
        /\ StepOf(view, k, "mobile") = saved[view[k]].mobile - saved[view[k - 1]].mobile
        /\ StepOf(view, k, "framework") = saved[view[k]].framework - saved[view[k - 1]].framework
    BY <1>1, <1>2, <1>5, <1>6, StepIsTheWay
  <2>3. /\ mobile[k] = saved[view[k]].mobile /\ mobile[k - 1] = saved[view[k - 1]].mobile
        /\ framework[k] = saved[view[k]].framework /\ framework[k - 1] = saved[view[k - 1]].framework
    BY <2>1
  <2> QED BY <2>2, <2>3
<1>9. /\ \A k \in 1..m : Gone(view[i], view[k], drift) = mobile[k] - mobile[i]
                            - (IF drift = "nonmobile" THEN framework[k] - framework[i] ELSE 0)
  BY <1>4 DEF Gone
<1> HIDE DEF mobile, framework
<1>10. ASSUME NEW k \in 1..m PROVE mobile[k] \in Int /\ framework[k] \in Int
  <2>1. CASE k = 1
    <3>1. 2 \in 2..m /\ 2 - 1 = 1
      BY <1>1
    <3> QED BY <1>8, <2>1, <3>1
  <2>2. CASE k # 1
    <3>1. k \in 2..m
      BY <2>2
    <3> QED BY <1>8, <3>1
  <2> QED BY <2>1, <2>2
<1>11. \A k \in 1..m : Unwrapped(view, "mobile")[k] = mobile[k] - mobile[1]
  <2>1. m \in Nat /\ DOMAIN view = 1..m
    BY <1>1
  <2>2. \A k \in 1..m : mobile[k] \in Int
    BY <1>10
  <2>3. \A k \in 2..m : StepOf(view, k, "mobile") = mobile[k] - mobile[k - 1]
    BY <1>8
  <2> QED BY <2>1, <2>2, <2>3, PathIsTheWay
<1>12. \A k \in 1..m : Unwrapped(view, "framework")[k] = framework[k] - framework[1]
  <2>1. m \in Nat /\ DOMAIN view = 1..m
    BY <1>1
  <2>2. \A k \in 1..m : framework[k] \in Int
    BY <1>10
  <2>3. \A k \in 2..m : StepOf(view, k, "framework") = framework[k] - framework[k - 1]
    BY <1>8
  <2> QED BY <2>1, <2>2, <2>3, PathIsTheWay
<1>13. \A k \in 1..m : Corrected(view, k, drift) = (mobile[k] - mobile[1])
                          - (IF drift = "nonmobile" THEN framework[k] - framework[1] ELSE 0)
  BY <1>11, <1>12 DEF Corrected, Drift
<1>14. Corrected(view, j, drift) - Corrected(view, i, drift) = Gone(view[i], view[j], drift)
  <2>1. 1 \in 1..m
    BY <1>1
  <2>2. /\ mobile[1] \in Int /\ mobile[i] \in Int /\ mobile[j] \in Int
        /\ framework[1] \in Int /\ framework[i] \in Int /\ framework[j] \in Int
    BY <1>4, <1>10, <2>1
  <2>3. CASE drift = "nonmobile"
    BY <1>4, <1>9, <1>13, <2>2, <2>3
  <2>4. CASE drift = "none"
    BY <1>4, <1>9, <1>13, <2>2, <2>4
  <2> QED BY <2>3, <2>4
<1> QED BY <1>7, <1>14 DEF view

\* What is loaded is part of the frames, and true when it is determined.
LEMMA LoadingIsTrue ==
    ASSUME FramesAdvance, OriginOK, UNCHANGED <<saved, origin, artifacts>>,
           NEW file \in {"directory", "XDATCAR"}, NEW x \in Lagging, NEW c \in Lagging,
           NEW convention \in {"unknown", "wrapped", "unwrapped"},
           NEW interval \in {0, SaveInterval, SaveInterval + 1},
           dataset' = LoadAs(SourceFile(file),
                             IF SourceFile(file) = "traj" THEN Len(saved) ELSE Len(saved) - x,
                             Len(saved) - c, convention, interval)
    PROVE  DatasetOK'
<1> DEFINE read == SourceFile(file)
           n == IF read = "traj" THEN Len(saved) ELSE Len(saved) - x
           rows == Len(saved) - c
           times == TimeAxis(read, n, rows, interval)
<1>1. Len(saved) \in Nat /\ Len(saved) >= 1 /\ saved \in Seq(Frames) /\ SaveInterval \in Nat \ {0}
  BY TrajectoryAssumption DEF TrajectoryAssumption, FramesAdvance
<1>2. /\ x \in 0..Len(saved) /\ c \in 0..Len(saved)
      /\ artifacts = "completed" => x = 0 /\ c = 0
  BY <1>1 DEF Lagging
<1>3. read = "traj" => origin.kind = "run"
  BY DEF SourceFile, OriginOK
<1>4. read \in {"traj", "XDATCAR"}
  BY DEF SourceFile
<1> HIDE DEF read
<1>5. n \in 0..Len(saved)
  BY <1>1, <1>2
<1>6. artifacts = "completed" => rows = n /\ origin.kind = "run"
  BY <1>1, <1>2 DEF OriginOK
<1>7. dataset' = LoadAs(read, n, rows, convention, interval)
  BY DEF read
<1> HIDE DEF n, rows
<1> SUFFICES ASSUME dataset'.state = "loaded" PROVE DatasetOK'
  BY DEF DatasetOK
<1>8. /\ n # 0 /\ origin.kind # "band" /\ ~ConventionConflict(convention)
      /\ dataset' = [state |-> "loaded", file |-> read, n |-> n, matched |-> rows = n, times |-> times,
                     phases |-> Phases(read, n, rows),
                     convention |-> IF convention # "unknown" THEN convention ELSE DeclaredConvention,
                     said |-> [convention |-> convention, interval |-> interval]]
  BY <1>7 DEF LoadAs
<1>9. n \in 1..Len(saved) /\ n \in Nat
  BY <1>1, <1>5, <1>8
<1> DEFINE said == [convention |-> convention, interval |-> interval]
           determined == artifacts = "completed" \/ (Truthful(said) /\ (read = "traj" \/ rows = n))
<1>10. Determined' <=> determined
  <2>1. dataset'.said = said /\ dataset'.file = read /\ dataset'.matched = (rows = n)
    BY <1>8
  <2> QED BY <2>1 DEF Determined, Truthful
<1>11. /\ times # Unknown =>
             /\ times \in [1..n -> Int]
             /\ \A i, j \in 1..n : i < j => times[i] < times[j]
             /\ determined => \A i \in 1..n : times[i] = saved[i].step
  <2>1. \A i \in 1..n : i \in 1..Len(saved) /\ saved[i].step \in Nat
    <3> SUFFICES ASSUME NEW i \in 1..n PROVE i \in 1..Len(saved) /\ saved[i].step \in Nat
      OBVIOUS
    <3>1. i \in 1..Len(saved)
      BY <1>1, <1>9
    <3>2. saved[i] \in Frames
      BY <1>1, <3>1
    <3> QED BY <3>1, <3>2 DEF Frames
  <2>2. CASE origin.kind = "run" /\ (rows = n \/ read = "traj")
    <3>1. StepAxis(read, n, rows) = [i \in 1..n |-> saved[i].step]
      BY <2>2 DEF StepAxis
    <3>2. [i \in 1..n |-> saved[i].step] # Unknown
      <4>1. 1 \in DOMAIN [i \in 1..n |-> saved[i].step]
        BY <1>9
      <4> QED BY <4>1 DEF Unknown
    <3>3. times = [i \in 1..n |-> saved[i].step]
      BY <3>1, <3>2 DEF TimeAxis
    <3> HIDE DEF times
    <3>4. \A i \in 1..n : times[i] = saved[i].step
      BY <3>3
    <3>5. times \in [1..n -> Int]
      BY <2>1, <3>3
    <3>6. \A i, j \in 1..n : i < j => times[i] < times[j]
      BY <2>1, <3>4 DEF FramesAdvance
    <3> QED BY <3>4, <3>5, <3>6
  <2>3. CASE ~(origin.kind = "run" /\ (rows = n \/ read = "traj"))
    <3>1. StepAxis(read, n, rows) = Unknown
      BY <2>3 DEF StepAxis
    <3> DEFINE d == DeclaredInterval(interval)
    <3>2. d \in Nat
      BY <1>1 DEF DeclaredInterval
    <3>3. times = IF d = 0 THEN Unknown ELSE [i \in 1..n |-> (i - 1) * d]
      BY <3>1 DEF TimeAxis
    <3>4. determined => origin.kind # "run" /\ (d # 0 => d = SaveInterval)
      <4>1. ASSUME determined PROVE origin.kind # "run" /\ interval \in {0, SaveInterval}
        BY <1>3, <1>6, <2>3, <4>1 DEF Truthful
      <4> QED BY <4>1 DEF DeclaredInterval
    <3> HIDE DEF times, d, determined
    <3> SUFFICES ASSUME times # Unknown
                 PROVE  /\ times \in [1..n -> Int]
                        /\ \A i, j \in 1..n : i < j => times[i] < times[j]
                        /\ determined => \A i \in 1..n : times[i] = saved[i].step
      OBVIOUS
    <3>5. d > 0 /\ times = [i \in 1..n |-> (i - 1) * d]
      BY <3>2, <3>3
    <3>6. \A i \in 1..n : times[i] = (i - 1) * d /\ (i - 1) * d \in Int
      BY <1>9, <3>2, <3>5
    <3>7. times \in [1..n -> Int]
      BY <3>5, <3>6
    <3>8. ASSUME NEW i \in 1..n, NEW j \in 1..n, i < j PROVE times[i] < times[j]
      <4>1. (i - 1) * d < (j - 1) * d
        <5>1. (j - 1) * d = (i - 1) * d + (j - i) * d
          BY <1>9, <3>2
        <5>2. (j - i) * d > 0
          BY <1>9, <3>2, <3>5, <3>8
        <5>3. (i - 1) * d \in Int /\ (j - i) * d \in Int
          BY <1>9, <3>2
        <5> HIDE DEF d
        <5> QED BY <5>1, <5>2, <5>3
      <4> QED BY <3>6, <4>1
    <3>9. ASSUME determined, NEW i \in 1..n PROVE times[i] = saved[i].step
      <4>1. d = SaveInterval /\ origin.kind # "run"
        BY <3>4, <3>5, <3>9
      <4>2. saved[i].step = (i - 1) * SaveInterval
        BY <2>1, <4>1 DEF FramesAdvance
      <4> QED BY <3>6, <4>1, <4>2
    <3> QED BY <3>7, <3>8, <3>9
  <2> QED BY <2>2, <2>3
<1> DEFINE kept == IF convention # "unknown" THEN convention ELSE DeclaredConvention
<1>12. determined /\ kept # "unknown" =>
          kept = IF origin.kind = "external" THEN "wrapped" ELSE "unwrapped"
  BY <1>6, <1>8 DEF ConventionConflict, DeclaredConvention, Truthful
<1>13. dataset'.n = n /\ dataset'.times = times /\ dataset'.convention = kept
  BY <1>8
<1> HIDE DEF times, determined, kept
<1>14. saved' = saved /\ origin' = origin
  OBVIOUS
<1>15. /\ origin'.kind # "band" /\ dataset'.n \in 1..Len(saved')
       /\ dataset'.times # Unknown =>
             /\ dataset'.times \in [1..dataset'.n -> Int]
             /\ \A i, j \in 1..dataset'.n : i < j => dataset'.times[i] < dataset'.times[j]
             /\ Determined' => \A i \in 1..dataset'.n : dataset'.times[i] = saved'[i].step
       /\ Determined' /\ dataset'.convention # "unknown" =>
             dataset'.convention = IF origin'.kind = "external" THEN "wrapped" ELSE "unwrapped"
  BY <1>8, <1>9, <1>10, <1>11, <1>12, <1>13, <1>14
<1> QED BY <1>15 DEF DatasetOK, Unknown

\* The lags of a grid that fits are lags between two frames.
LEMMA LagsBetweenFrames ==
    ASSUME NEW grid \in LagGrid, NEW interval \in Int, interval > 0, NEW n \in Nat, n >= 1,
           LagGridFits(grid, interval, n)
    PROVE  Lags(grid, interval, n) \subseteq 0..(n - 1)
<1> DEFINE fit == grid.fit  stop == grid.stop
<1>1. fit \in Nat /\ grid.step \in Nat /\ stop \in Nat
  BY TrajectoryAssumption DEF TrajectoryAssumption
<1>2. fit <= (n - 1) * interval /\ (grid.step # 0 => stop <= (n - 1) * interval)
  BY <1>1 DEF LagGridFits
<1>3. ASSUME NEW a \in Nat, a <= (n - 1) * interval PROVE a \div interval \in 0..(n - 1)
  <2>1. interval \in Nat /\ interval > 0
    OBVIOUS
  <2>2. a \div interval <= n - 1
    BY <1>3, <2>1
  <2>3. a \div interval \in Nat
    BY <2>1
  <2> QED BY <2>2, <2>3
<1>4. fit \div interval \in 0..(n - 1) /\ (grid.step # 0 => stop \div interval \in 0..(n - 1))
  BY <1>1, <1>2, <1>3
<1>5. CASE grid.step = 0
  BY <1>5 DEF Lags
<1>6. CASE grid.step # 0
  <2> DEFINE last == stop \div interval
             first == fit \div interval
  <2>1. Lags(grid, interval, n) \subseteq (1..last) \cup {first}
    BY <1>6 DEF Lags
  <2>2. last \in 0..(n - 1) /\ first \in 0..(n - 1)
    BY <1>4, <1>6
  <2> HIDE DEF last, first
  <2> QED BY <2>1, <2>2
<1> QED BY <1>5, <1>6

\* What TrajectoryInv says of an answer, when nothing else changes.
TrueAnswer(a) ==
    /\ a.verdict = "result"
    /\ Determined /\ Followed(a.view) =>
          \A i, j \in DOMAIN a.view :
             i < j => /\ a.moved[j] - a.moved[i] = Gone(a.view[i], a.view[j], a.drift)
                      /\ (j - i) * a.interval = saved[a.view[j]].step - saved[a.view[i]].step
    /\ a.lags \subseteq 0..(Len(a.view) - 1)

LEMMA AnsweringKeeps ==
    ASSUME TrajectoryInv, dataset.state = "loaded", UNCHANGED <<saved, origin, artifacts, dataset>>,
           \/ answer'.verdict = "refused"
           \/ /\ TrueAnswer(answer') /\ artifacts \in {"none", "completed"}
              /\ "exact" \in DOMAIN answer' =>
                    /\ answer' = [verdict |-> answer'.verdict, view |-> answer'.view,
                                  drift |-> answer'.drift, lags |-> answer'.lags,
                                  interval |-> answer'.interval, moved |-> answer'.moved,
                                  exact |-> answer'.exact, grade |-> answer'.grade,
                                  parts |-> answer'.parts]
                    /\ answer'.exact \in BOOLEAN /\ answer'.grade \in BOOLEAN
                    /\ answer'.grade => answer'.exact /\ \A c \in answer'.parts : c.exact
    PROVE  TrajectoryInv'
<1>1. FramesAdvance' /\ OriginOK' /\ DatasetOK'
  BY DEF TrajectoryInv, FramesAdvance, OriginOK, DatasetOK, Determined, Truthful, Unknown
<1>2. AnswerOK'
  BY DEF AnswerOK
<1>3. DisplacementsAreTrue'
  <2>1. CASE answer'.verdict = "refused"
    BY <2>1 DEF DisplacementsAreTrue
  <2>2. CASE answer'.verdict # "refused"
    <3>1. origin.kind # "band"
      BY DEF TrajectoryInv, DatasetOK
    <3>2. \A v : Followed(v)' <=> Followed(v)
      BY DEF Followed
    <3>3. \A i, j, d : Gone(i, j, d)' = Gone(i, j, d)
      BY DEF Gone
    <3>4. Determined' <=> Determined
      BY DEF Determined, Truthful
    <3> QED BY <2>2, <3>1, <3>2, <3>3, <3>4 DEF DisplacementsAreTrue, TrueAnswer, Followed, Gone
  <2> QED BY <2>1, <2>2
<1> QED BY <1>1, <1>2, <1>3 DEF TrajectoryInv

\* A result on an eligible view is true, if its lags are between frames.
LEMMA ResultIsTrue ==
    ASSUME TrajectoryInv, dataset.state = "loaded", NEW equilibration, NEW start,
           NEW drift \in {"none", "nonmobile"}, Eligible(View(equilibration, start)),
           NEW lags, lags \subseteq 0..(Len(View(equilibration, start)) - 1),
           NEW a, a.verdict = "result", a.view = View(equilibration, start), a.drift = drift,
           a.lags = lags, a.interval = UniformAxis(a.view),
           \A k \in DOMAIN a.view : a.moved[k] = Corrected(a.view, k, drift)
    PROVE  TrueAnswer(a) /\ artifacts \in {"none", "completed"}
<1>1. ASSUME Determined, Followed(a.view), NEW i \in DOMAIN a.view, NEW j \in DOMAIN a.view
      PROVE  /\ a.moved[j] - a.moved[i] = Gone(a.view[i], a.view[j], drift)
             /\ (j - i) * a.interval = saved[a.view[j]].step - saved[a.view[i]].step
  <2>1. /\ Corrected(a.view, j, drift) - Corrected(a.view, i, drift) = Gone(a.view[i], a.view[j], drift)
        /\ (j - i) * UniformAxis(a.view) = saved[a.view[j]].step - saved[a.view[i]].step
    BY <1>1, AnswerIsTrue
  <2>2. a.moved[j] = Corrected(a.view, j, drift) /\ a.moved[i] = Corrected(a.view, i, drift)
    BY <1>1
  <2> QED BY <2>1, <2>2
<1>2. artifacts \in {"none", "completed"}
  BY DEF Eligible, TrajectoryInv, OriginOK, Ends
<1> QED BY <1>1, <1>2 DEF TrueAnswer

\* The mean square.
LEMMA MeanSquareIsTrue == ASSUME TrajectoryInv, MeanSquare PROVE TrajectoryInv'
<1>1. PICK equilibration \in BOOLEAN, start \in {0, 1}, drift \in {"none", "nonmobile"} :
         LET view == View(equilibration, start)
         IN  /\ start < dataset.n
             /\ answer' = IF Eligible(view)
                          THEN ResultOn(view, drift, 0..(Len(view) - 1)) ELSE Refusal
  BY DEF MeanSquare
<1> DEFINE view == View(equilibration, start)
           lags == 0..(Len(view) - 1)
<1>2. dataset.state = "loaded" /\ UNCHANGED <<saved, origin, artifacts, dataset>>
  BY DEF MeanSquare
<1>3. CASE Eligible(view)
  <2>1. answer' = [verdict |-> "result", view |-> view, drift |-> drift, lags |-> lags,
                   interval |-> UniformAxis(view),
                   moved |-> [k \in DOMAIN view |-> Corrected(view, k, drift)]]
    BY <1>1, <1>3 DEF ResultOn
  <2> DEFINE moved == [k \in DOMAIN view |-> Corrected(view, k, drift)]
             interval == UniformAxis(view)
             v == view  l == lags
  <2>2. v = View(equilibration, start) /\ l \subseteq 0..(Len(v) - 1) /\ Eligible(v)
    BY <1>3
  <2>3. moved = [k \in DOMAIN v |-> Corrected(v, k, drift)] /\ interval = UniformAxis(v)
    OBVIOUS
  <2>4. answer' = [verdict |-> "result", view |-> v, drift |-> drift, lags |-> l,
                   interval |-> interval, moved |-> moved]
    BY <2>1
  <2> HIDE DEF v, l, moved, interval, view, lags
  <2>5. /\ answer'.verdict = "result" /\ answer'.view = v /\ answer'.drift = drift
        /\ answer'.lags = l /\ answer'.interval = interval /\ answer'.moved = moved
        /\ "exact" \notin DOMAIN answer'
    BY <2>4
  <2>6. TrueAnswer(answer') /\ artifacts \in {"none", "completed"}
    <3>1. PICK a : a = answer'
      OBVIOUS
    <3>2. Eligible(View(equilibration, start)) /\ l \subseteq 0..(Len(View(equilibration, start)) - 1)
      BY <2>2
    <3>3. a.verdict = "result" /\ a.view = View(equilibration, start) /\ a.drift = drift
          /\ a.lags = l /\ a.interval = UniformAxis(a.view)
      BY <2>2, <2>3, <2>5, <3>1
    <3>4. \A k \in DOMAIN a.view : a.moved[k] = Corrected(a.view, k, drift)
      BY <2>3, <2>5, <3>1
    <3>5. TrueAnswer(a) /\ artifacts \in {"none", "completed"}
      BY <1>2, <3>2, <3>3, <3>4, ResultIsTrue
    <3> QED BY <3>1, <3>5
  <2> QED BY <1>2, <2>5, <2>6, AnsweringKeeps
<1>4. CASE ~Eligible(view)
  <2>1. answer'.verdict = "refused"
    BY <1>1, <1>4 DEF Refusal
  <2> QED BY <1>2, <2>1, AnsweringKeeps
<1> QED BY <1>3, <1>4

\* Transport coefficients.
LEMMA TransportIsTrue == ASSUME TrajectoryInv, Transport PROVE TrajectoryInv'
<1>1. PICK drift \in {"none", "nonmobile"}, grid \in LagGrid, exact, fallback \in BOOLEAN :
         LET view == View(FALSE, 0)
             fit == /\ Eligible(View(TRUE, 0)) /\ Eligible(view)
                    /\ LagGridFits(grid, UniformAxis(view), Len(view))
                    /\ ~TooCoarse(view) /\ ~LosesImage(view, drift)
         IN  answer' = IF fit THEN Tracer(ResultOn(view, drift, Lags(grid, UniformAxis(view), Len(view))),
                                          exact, fallback)
                       ELSE Refusal
  BY DEF Transport
<1> DEFINE view == View(FALSE, 0)
           fit == /\ Eligible(View(TRUE, 0)) /\ Eligible(view)
                  /\ LagGridFits(grid, UniformAxis(view), Len(view))
                  /\ ~TooCoarse(view) /\ ~LosesImage(view, drift)
           l == Lags(grid, UniformAxis(view), Len(view))
           moved == [k \in DOMAIN view |-> Corrected(view, k, drift)]
           interval == UniformAxis(view)
<1>2. dataset.state = "loaded" /\ UNCHANGED <<saved, origin, artifacts, dataset>>
  BY DEF Transport
<1>3. CASE fit /\ (exact \/ fallback)
  <2>1. answer' = Tracer([verdict |-> "result", view |-> view, drift |-> drift, lags |-> l,
                          interval |-> interval, moved |-> moved], exact, fallback)
    BY <1>1, <1>3 DEF ResultOn
  <2>2. Eligible(view) /\ LagGridFits(grid, interval, Len(view))
    BY <1>3
  <2>3. Len(view) \in Nat /\ Len(view) >= 4 /\ interval \in Int /\ interval > 0
    BY <1>2, <2>2, EligibleView
  <2>4. view = View(FALSE, 0) /\ moved = [k \in DOMAIN view |-> Corrected(view, k, drift)]
        /\ interval = UniformAxis(view) /\ l = Lags(grid, interval, Len(view))
    OBVIOUS
  <2> HIDE DEF view, l, moved, interval, fit
  <2>5. l \subseteq 0..(Len(view) - 1)
    <3> DEFINE n == Len(view)
    <3>1. LagGridFits(grid, interval, n) /\ l = Lags(grid, interval, n)
      BY <2>2, <2>4
    <3>2. n \in Nat /\ n >= 1 /\ interval \in Int /\ interval > 0
      BY <2>3
    <3> HIDE DEF n
    <3>3. Lags(grid, interval, n) \subseteq 0..(n - 1)
      BY <3>1, <3>2, LagsBetweenFrames
    <3> QED BY <3>1, <3>3 DEF n
  <2>6. answer' = [verdict |-> "result", view |-> view, drift |-> drift, lags |-> l,
                   interval |-> interval, moved |-> moved, exact |-> exact, grade |-> exact,
                   parts |-> {}]
    BY <1>3, <2>1 DEF Tracer
  <2>7. /\ answer'.verdict = "result" /\ answer'.view = view /\ answer'.drift = drift
        /\ answer'.lags = l /\ answer'.interval = interval /\ answer'.moved = moved
        /\ answer'.exact = exact /\ answer'.grade = exact /\ answer'.parts = {}
    BY <2>6
  <2>8. TrueAnswer(answer') /\ artifacts \in {"none", "completed"}
    <3>1. PICK a : a = answer'
      OBVIOUS
    <3>2. Eligible(View(FALSE, 0)) /\ l \subseteq 0..(Len(View(FALSE, 0)) - 1)
      BY <2>2, <2>4, <2>5
    <3>3. a.verdict = "result" /\ a.view = View(FALSE, 0) /\ a.drift = drift
          /\ a.lags = l /\ a.interval = UniformAxis(a.view)
      BY <2>4, <2>7, <3>1
    <3>4. \A k \in DOMAIN a.view : a.moved[k] = Corrected(a.view, k, drift)
      BY <2>4, <2>7, <3>1
    <3>5. TrueAnswer(a) /\ artifacts \in {"none", "completed"}
      BY <1>2, <3>2, <3>3, <3>4, ResultIsTrue
    <3> QED BY <3>1, <3>5
  <2>9. answer' = [verdict |-> answer'.verdict, view |-> answer'.view, drift |-> answer'.drift,
                   lags |-> answer'.lags, interval |-> answer'.interval, moved |-> answer'.moved,
                   exact |-> answer'.exact, grade |-> answer'.grade, parts |-> answer'.parts]
    BY <2>6
  <2>10. answer'.exact \in BOOLEAN /\ answer'.grade \in BOOLEAN
         /\ (answer'.grade => answer'.exact /\ \A c \in answer'.parts : c.exact)
    BY <2>7
  <2> QED BY <1>2, <2>8, <2>9, <2>10, AnsweringKeeps
<1>4. CASE ~(fit /\ (exact \/ fallback))
  <2>1. answer'.verdict = "refused"
    BY <1>1, <1>4 DEF Refusal, Tracer
  <2> QED BY <1>2, <2>1, AnsweringKeeps
<1> QED BY <1>3, <1>4

\* A component beside the tracer's.
LEMMA ComponentIsTrue ==
    ASSUME TrajectoryInv, NEW kind, NEW groups \in Groups, Component(kind, groups)
    PROVE  TrajectoryInv'
<1>1. /\ answer.verdict = "result" /\ "exact" \in DOMAIN answer
      /\ UNCHANGED <<saved, origin, artifacts, dataset>>
  BY DEF Component
<1> DEFINE part == [kind |-> kind, groups |-> groups, exact |-> groups = 1 /\ answer.exact]
           one == groups = 1
<1>2. answer' = [answer EXCEPT !.parts = @ \cup {part}, !.grade = @ /\ one]
  BY DEF Component
<1>3. /\ answer = [verdict |-> answer.verdict, view |-> answer.view, drift |-> answer.drift,
                   lags |-> answer.lags, interval |-> answer.interval, moved |-> answer.moved,
                   exact |-> answer.exact, grade |-> answer.grade, parts |-> answer.parts]
      /\ answer.exact \in BOOLEAN /\ answer.grade \in BOOLEAN /\ dataset.state = "loaded"
  BY <1>1 DEF TrajectoryInv, AnswerOK
<1>4. part.exact <=> one /\ answer.exact
  OBVIOUS
<1>5. one \in BOOLEAN
  OBVIOUS
<1> HIDE DEF part, one
<1>6. answer' = [verdict |-> answer.verdict, view |-> answer.view, drift |-> answer.drift,
                 lags |-> answer.lags, interval |-> answer.interval, moved |-> answer.moved,
                 exact |-> answer.exact, grade |-> answer.grade /\ one,
                 parts |-> answer.parts \cup {part}]
  BY <1>2, <1>3
<1>7. TrueAnswer(answer) /\ artifacts \in {"none", "completed"}
      /\ (answer.grade => answer.exact /\ \A c \in answer.parts : c.exact)
  BY <1>1 DEF TrajectoryInv, DisplacementsAreTrue, TrueAnswer
<1>8. /\ answer'.verdict = answer.verdict /\ answer'.view = answer.view
      /\ answer'.drift = answer.drift /\ answer'.lags = answer.lags
      /\ answer'.interval = answer.interval /\ answer'.moved = answer.moved
      /\ answer'.exact = answer.exact /\ answer'.parts = answer.parts \cup {part}
      /\ (answer'.grade <=> answer.grade /\ one) /\ answer'.grade \in BOOLEAN
  BY <1>3, <1>5, <1>6
<1>9. TrueAnswer(answer')
  BY <1>7, <1>8 DEF TrueAnswer
<1>10. answer'.grade => answer'.exact /\ \A c \in answer'.parts : c.exact
  BY <1>4, <1>7, <1>8
<1>11. answer' = [verdict |-> answer'.verdict, view |-> answer'.view, drift |-> answer'.drift,
                  lags |-> answer'.lags, interval |-> answer'.interval, moved |-> answer'.moved,
                  exact |-> answer'.exact, grade |-> answer'.grade, parts |-> answer'.parts]
  BY <1>6
<1> QED BY <1>1, <1>3, <1>7, <1>8, <1>9, <1>10, <1>11, AnsweringKeeps

\* The run: its frames advance, and nobody has answered yet.
LEMMA RunningKeeps ==
    ASSUME TrajectoryInv, SaveFrame \/ SaveUnsafe \/ EndRun
    PROVE  TrajectoryInv'
<1>1. /\ dataset.state = "none" /\ dataset' = dataset /\ answer' = answer /\ origin' = origin
  BY DEF SaveFrame, SaveUnsafe, EndRun, Running
<1>2. answer.verdict # "result"
  BY <1>1 DEF TrajectoryInv, AnswerOK
<1>3. DatasetOK' /\ AnswerOK' /\ DisplacementsAreTrue'
  BY <1>1, <1>2 DEF DatasetOK, AnswerOK, DisplacementsAreTrue
<1>4. /\ SaveInterval \in Nat \ {0} /\ Moves \subseteq Int \X Int
      /\ Len(saved) \in Nat /\ Len(saved) >= 1 /\ saved[Len(saved)] \in Frames
      /\ saved[Len(saved)].step <= (Len(saved) - 1) * SaveInterval
  <2>1. saved \in Seq(Frames) /\ Len(saved) >= 1 /\ Len(saved) \in Nat
    BY DEF TrajectoryInv, FramesAdvance
  <2>2. Len(saved) \in 1..Len(saved)
    BY <2>1
  <2> QED BY <2>1, <2>2, TrajectoryAssumption DEF TrajectoryAssumption, TrajectoryInv, FramesAdvance
<1>5. ASSUME NEW s \in Nat, NEW move \in Moves PROVE FrameAt(s, move) \in Frames /\ FrameAt(s, move).step = s
  <2>1. saved[Len(saved)].mobile \in Int /\ saved[Len(saved)].framework \in Int
    BY <1>4 DEF Frames
  <2>2. move[1] \in Int /\ move[2] \in Int
    BY <1>4
  <2> QED BY <2>1, <2>2 DEF FrameAt, PhaseOf, Frames
<1> DEFINE n == Len(saved)  last == saved[Len(saved)].step
<1>6. last \in Nat /\ n * SaveInterval \in Nat /\ n * SaveInterval = (n - 1) * SaveInterval + SaveInterval
  BY <1>4 DEF Frames
<1>7. CASE SaveFrame
  <2>1. PICK move \in Moves : saved' = Append(saved, FrameAt(n * SaveInterval, move))
    BY <1>7 DEF SaveFrame
  <2> DEFINE f == FrameAt(n * SaveInterval, move)
  <2>2. f \in Frames /\ f.step = n * SaveInterval
    BY <1>5, <1>6
  <2> HIDE DEF f
  <2>3. last < f.step /\ f.step <= n * SaveInterval
    <3> DEFINE a == n * SaveInterval  b == (n - 1) * SaveInterval
    <3>1. b \in Int
      BY <1>4
    <3>2. a \in Nat /\ a = b + SaveInterval /\ last <= b /\ SaveInterval > 0 /\ SaveInterval \in Nat
      BY <1>4, <1>6
    <3> HIDE DEF a, b
    <3>3. last < a
      BY <1>6, <3>1, <3>2
    <3> QED BY <2>2, <3>2, <3>3 DEF a
  <2>4. saved' = Append(saved, f)
    BY <2>1 DEF f
  <2>5. FramesAdvance'
    BY <1>1, <2>2, <2>3, <2>4, SavingAdvances DEF TrajectoryInv
  <2>6. OriginOK'
    BY <1>1, <1>7 DEF SaveFrame, TrajectoryInv, OriginOK
  <2> QED BY <1>3, <2>5, <2>6 DEF TrajectoryInv
<1>8. CASE SaveUnsafe
  <2>1. PICK move \in Moves, k \in 1..(SaveInterval - 1) :
           saved' = Append(saved, FrameAt(saved[Len(saved)].step + k, move))
    BY <1>8 DEF SaveUnsafe
  <2> DEFINE f == FrameAt(last + k, move)
  <2>2. last + k \in Nat /\ k \in Nat /\ k > 0 /\ k < SaveInterval
    BY <1>4, <1>6
  <2>3. f \in Frames /\ f.step = last + k
    BY <1>5, <2>2
  <2> HIDE DEF f
  <2>4. last < f.step /\ f.step <= n * SaveInterval
    <3> DEFINE a == n * SaveInterval  b == (n - 1) * SaveInterval
    <3>1. b \in Int
      BY <1>4
    <3>2. a \in Nat /\ a = b + SaveInterval /\ last <= b /\ SaveInterval \in Nat
      BY <1>4, <1>6
    <3>3. last \in Nat
      BY <1>6
    <3> HIDE DEF a, b, last, n
    <3>4. last < last + k /\ last + k <= a
      BY <2>2, <3>1, <3>2, <3>3
    <3> QED BY <2>3, <3>4 DEF a
  <2>5. saved' = Append(saved, f)
    BY <2>1 DEF f
  <2>6. origin.kind = "run"
    BY <1>8 DEF SaveUnsafe
  <2>7. FramesAdvance'
    BY <1>1, <2>3, <2>4, <2>5, <2>6, SavingAdvances DEF TrajectoryInv
  <2>8. OriginOK'
    BY <1>1, <1>8 DEF SaveUnsafe, TrajectoryInv, OriginOK
  <2> QED BY <1>3, <2>7, <2>8 DEF TrajectoryInv
<1>9. CASE EndRun
  <2>1. saved' = saved /\ origin.kind = "run" /\ artifacts' \in Ends
    BY <1>9 DEF EndRun, Ends
  <2>2. FramesAdvance' /\ OriginOK'
    BY <1>1, <2>1 DEF TrajectoryInv, FramesAdvance, OriginOK
  <2> QED BY <1>3, <2>2 DEF TrajectoryInv
<1> QED BY <1>7, <1>8, <1>9

\* The loader.
LEMMA LoadKeeps == ASSUME TrajectoryInv, Load PROVE TrajectoryInv'
<1>1. /\ dataset.state = "none" /\ answer' = answer /\ UNCHANGED <<saved, origin, artifacts>>
  BY DEF Load
<1>2. answer.verdict # "result"
  BY <1>1 DEF TrajectoryInv, AnswerOK
<1>3. PICK file \in {"directory", "XDATCAR"}, x \in Lagging, c \in Lagging,
          convention \in {"unknown", "wrapped", "unwrapped"},
          interval \in {0, SaveInterval, SaveInterval + 1} :
         dataset' = LoadAs(SourceFile(file),
                           IF SourceFile(file) = "traj" THEN Len(saved) ELSE Len(saved) - x,
                           Len(saved) - c, convention, interval)
  BY DEF Load
<1>4. FramesAdvance /\ OriginOK
  BY DEF TrajectoryInv
<1>5. DatasetOK'
  BY <1>1, <1>3, <1>4, LoadingIsTrue
<1>6. FramesAdvance' /\ OriginOK'
  BY <1>1, <1>4 DEF FramesAdvance, OriginOK
<1>7. AnswerOK' /\ DisplacementsAreTrue'
  BY <1>1, <1>2 DEF AnswerOK, DisplacementsAreTrue
<1> QED BY <1>5, <1>6, <1>7 DEF TrajectoryInv

\* Every step.
LEMMA TrajectoryStep == ASSUME TrajectoryInv, [TrajectoryNext]_trajectoryVars PROVE TrajectoryInv'
<1>1. CASE UNCHANGED trajectoryVars
  BY <1>1 DEF trajectoryVars, TrajectoryInv, FramesAdvance, OriginOK, DatasetOK, AnswerOK,
              DisplacementsAreTrue, Determined, Truthful, Followed, Gone, Unknown
<1>2. CASE Collective \/ Jump
  BY <1>2, ComponentIsTrue DEF Collective, Jump
<1> QED BY <1>1, <1>2, RunningKeeps, LoadKeeps, MeanSquareIsTrue, TransportIsTrue DEF TrajectoryNext

\* Every displacement and every lag of an analysis is that of the atoms, for any
\* cell, interval, moves and number of frames, whatever the user declares of a run
\* that completed, and when the user says the truth of any other trajectory.
THEOREM DisplacementsSafety == TrajectorySpec => []DisplacementsAreTrue
<1>1. TrajectoryInv => DisplacementsAreTrue
  BY DEF TrajectoryInv
<1> QED BY <1>1, TrajectoryInvInit, TrajectoryStep, PTL DEF TrajectorySpec

\* The parts of the type invariant that are not about the order of frames: all
\* but the last are on the grid, and the states of the loader and the analysis.
TrajectoryWords ==
    /\ \A i \in 1..(Len(saved) - 1) : saved[i].step % SaveInterval = 0
    /\ origin.start \in StartStep
    /\ dataset.state \in {"none", "refused", "loaded"}
    /\ answer.verdict \in {"none", "refused", "result"}

\* A frame is saved only after one on the grid, and what is loaded or answered
\* is a result or a refusal.
LEMMA WordsStep ==
    ASSUME TrajectoryInv, TrajectoryWords, [TrajectoryNext]_trajectoryVars
    PROVE  TrajectoryWords'
<1> DEFINE Grid == \A i \in 1..(Len(saved) - 1) : saved[i].step % SaveInterval = 0
           Kept == /\ origin.start \in StartStep /\ dataset.state \in {"none", "refused", "loaded"}
                   /\ answer.verdict \in {"none", "refused", "result"}
<1>1. Grid /\ Kept /\ saved \in Seq(Frames) /\ Len(saved) >= 1
  BY DEF TrajectoryWords, TrajectoryInv, FramesAdvance
<1>2. ASSUME NEW f, saved' = Append(saved, f), OnGrid PROVE Grid'
  <2>1. saved[Len(saved)].step % SaveInterval = 0
    BY <1>2 DEF OnGrid
  <2>2. /\ Len(saved') = Len(saved) + 1 /\ Len(saved) \in Nat
        /\ \A i \in 1..Len(saved) : saved'[i] = saved[i]
    BY <1>1, <1>2
  <2>3. ASSUME NEW i \in 1..Len(saved) PROVE saved'[i].step % SaveInterval = 0
    <3>1. i \in 1..(Len(saved) - 1) \/ i = Len(saved)
      BY <2>2
    <3>2. saved[i].step % SaveInterval = 0
      BY <1>1, <2>1, <3>1
    <3> QED BY <2>2, <3>2
  <2>4. Len(saved') - 1 = Len(saved)
    BY <2>2
  <2> QED BY <2>3, <2>4
<1>3. CASE SaveFrame \/ SaveUnsafe
  <2>1. Grid'
    BY <1>2, <1>3 DEF SaveFrame, SaveUnsafe
  <2>2. Kept'
    BY <1>1, <1>3 DEF SaveFrame, SaveUnsafe
  <2> QED BY <2>1, <2>2 DEF TrajectoryWords
<1>4. CASE ~(SaveFrame \/ SaveUnsafe)
  <2>1. saved' = saved /\ origin' = origin
    BY <1>4 DEF TrajectoryNext, trajectoryVars, EndRun, Load, MeanSquare, Transport, Collective, Jump,
                Component
  <2>2. dataset'.state \in {"none", "refused", "loaded"}
    <3>1. CASE Load
      BY <3>1 DEF Load, LoadAs
    <3>2. CASE dataset' = dataset
      BY <1>1, <3>2
    <3> QED BY <1>4, <3>1, <3>2 DEF TrajectoryNext, trajectoryVars, EndRun, MeanSquare, Transport,
                                    Collective, Jump, Component
  <2>3. answer'.verdict \in {"none", "refused", "result"}
    <3>1. CASE MeanSquare \/ Transport
      <4>1. ASSUME NEW view, NEW drift, NEW lags
            PROVE  ResultOn(view, drift, lags).verdict = "result"
        BY DEF ResultOn
      <4>2. \A result, exact, fallback : Tracer(result, exact, fallback).verdict \in {"refused", "result"}
        BY DEF Tracer, Refusal
      <4>3. Refusal.verdict = "refused"
        BY DEF Refusal
      <4>4. CASE MeanSquare
        BY <4>1, <4>3, <4>4 DEF MeanSquare
      <4>5. CASE Transport
        <5>1. \/ \E result, exact, fallback : answer' = Tracer(result, exact, fallback)
              \/ answer' = Refusal
          BY <4>5 DEF Transport
        <5> QED BY <4>2, <4>3, <5>1
      <4> QED BY <3>1, <4>4, <4>5
    <3>2. CASE Collective \/ Jump
      <4>1. PICK kind, groups : Component(kind, groups)
        BY <3>2 DEF Collective, Jump
      <4>2. answer'.verdict = answer.verdict
        <5>1. answer = [answer EXCEPT !.verdict = @] /\ "verdict" \in DOMAIN answer
          BY <4>1 DEF Component, TrajectoryInv, AnswerOK
        <5>2. PICK parts, grade : answer' = [answer EXCEPT !.parts = parts, !.grade = grade]
          BY <4>1, Zenon DEF Component
        <5> QED BY <5>1, <5>2
      <4> QED BY <1>1, <4>2
    <3>3. CASE answer' = answer
      BY <1>1, <3>3
    <3> QED BY <1>4, <3>1, <3>2, <3>3 DEF TrajectoryNext, trajectoryVars, EndRun, Load
  <2> QED BY <1>1, <2>1, <2>2, <2>3 DEF TrajectoryWords
<1> QED BY <1>3, <1>4

\* A trajectory has its types: its frames advance in time and only the last is off
\* the grid of its interval.
THEOREM TrajectoryTypesCorrect == TrajectorySpec => []TrajectoryTypeOK
<1>1. TrajectoryInit => TrajectoryWords
  <2> SUFFICES ASSUME TrajectoryInit PROVE TrajectoryWords
    OBVIOUS
  <2>1. Len(saved) = 1
    BY DEF TrajectoryInit
  <2> QED BY <2>1 DEF TrajectoryInit, TrajectoryWords
<1>2. TrajectoryInv /\ TrajectoryWords => TrajectoryTypeOK
  <2> SUFFICES ASSUME TrajectoryInv, TrajectoryWords PROVE TrajectoryTypeOK
    OBVIOUS
  <2>1. saved \in Seq(Frames) /\ \A i, j \in 1..Len(saved) : i < j => saved[i].step < saved[j].step
    BY DEF TrajectoryInv, FramesAdvance
  <2>2. \A i \in DOMAIN saved : saved[i].step \in Nat /\ saved[i].mobile \in Int
    <3> SUFFICES ASSUME NEW i \in DOMAIN saved PROVE saved[i].step \in Nat /\ saved[i].mobile \in Int
      OBVIOUS
    <3>1. saved[i] \in Frames
      BY <2>1
    <3> QED BY <3>1 DEF Frames
  <2>3. \A i \in 2..Len(saved) : saved[i - 1].step < saved[i].step
    <3> SUFFICES ASSUME NEW i \in 2..Len(saved) PROVE saved[i - 1].step < saved[i].step
      OBVIOUS
    <3>1. i \in 1..Len(saved) /\ i - 1 \in 1..Len(saved) /\ i - 1 < i
      BY <2>1
    <3> QED BY <2>1, <3>1
  <2> QED BY <2>2, <2>3 DEF TrajectoryWords, TrajectoryTypeOK, TrajectoryInv, OriginOK
<1> QED BY <1>1, <1>2, TrajectoryInvInit, TrajectoryStep, WordsStep, PTL DEF TrajectorySpec
=============================================================================
