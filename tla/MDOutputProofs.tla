---------------------------- MODULE MDOutputProofs ----------------------------
(***************************************************************************)
(* The inductive invariant of MDOutput and the proofs of its safety, for   *)
(* any number of steps, any save interval and queue length, and any number *)
(* of upsets; and that its files are those of a run of TrajectoryData.     *)
(***************************************************************************)
EXTENDS MDOutput, SequenceTheorems, TLAPS

(* The inductive invariant *)

Closing == {"seal", "putSentinel", "join", "broken", "drained", "summary"}
Stopped == {"close", "dead"}

\* The writer thread exists once the MD thread has constructed it.
WriterExists ==
    (wpc = "none" <=> pc = "start") /\ (pc = "start" => manifest.status \notin Causes)

\* A failed writer writes no more, and before an outcome is reported the
\* writer has stopped.
WriterStopped ==
    /\ werr => wpc \in Stopped
    /\ pc = "broken" => werr
    /\ pc = "drained" => wpc \in Stopped
    /\ manifest.status \in Causes => wpc \in Stopped

\* The run has a cause other than "completed" once a handler was entered.
CauseKnown ==
    /\ pc \in InTry \cup {"start", "between", "finished"} =>
          cause = "completed" /\ ~backstop
    /\ pc \in {"handler", "backstop"} => cause # "completed"
    /\ backstop => cause # "completed"
    /\ pc = "summary" => cause = "completed"

\* The sentinel is the last thing in the queue, and only the sentinel ends a
\* writer that has not failed.
SealedLast ==
    /\ sealed => pc \in {"join", "broken", "drained", "summary", "over"}
    /\ wpc \in Stopped /\ ~werr => sealed /\ queue = <<>>

\* Before the submission of this step's frame, and after it.
Behind == /\ (Len(submitted) - 1) * SaveInterval < step
          /\ step <= Len(submitted) * SaveInterval
Even   == /\ (Len(submitted) - 1) * SaveInterval <= step
          /\ step < Len(submitted) * SaveInterval

\* The frames submitted by a run that nothing has disturbed.
Regular == \A i \in 1..Len(submitted) : submitted[i] = (i - 1) * SaveInterval

OnSchedule ==
    /\ pc \in {"start", "between", "observe", "compute"} => Regular /\ Behind
    /\ pc \in {"submit", "put"} =>
          Regular /\ Behind /\ (unsafe \/ step % SaveInterval = 0)
    /\ pc = "advance" /\ ~unsafe => Regular /\ Even
    /\ pc \in {"start", "between", "observe", "compute"} => ~unsafe
    /\ cause = "completed" /\ pc \in Closing \cup {"finished"} =>
          Regular /\ Even /\ step = TotalSteps

\* What Join has seen holds until the run is over.
DrainedWell ==
    /\ cause = "completed" /\ pc \in {"drained", "summary"} =>
          wpc = "dead" /\ ~werr
    /\ pc # "over" => outcome = "none"

\* The parts that speak of control only.
Control == WriterExists /\ WriterStopped /\ CauseKnown /\ SealedLast /\ DrainedWell

IInv ==
    /\ TypeOK /\ Control /\ OnSchedule
    /\ NothingDropped /\ ManifestCountsFrames /\ CompletedIsComplete

-------------------------------------------------------------------------------
(* Types *)

\* Every step keeps the variables in their types.
LEMMA TypeStep ==
    ASSUME TypeOK, [Next]_vars PROVE TypeOK'
<1> USE MDAssumption DEF TypeOK, Frames, Causes, InTry, Outside, Goto, Handle, Over,
        mdVars, wVars, chan, ends
<1>1. CASE Construct
  BY <1>1 DEF Construct
<1>2. CASE EnterTry
  BY <1>2 DEF EnterTry
<1>3. CASE Observe
  BY <1>3 DEF Observe
<1>4. CASE ComputeFails
  BY <1>4 DEF ComputeFails
<1>5. CASE \E b \in BOOLEAN : Compute(b)
  BY <1>5 DEF Compute
<1>6. CASE Submit
  BY <1>6 DEF Submit
<1>7. CASE Put
  BY <1>7 DEF Put, Room
<1>8. CASE PutFull
  BY <1>8 DEF PutFull, Room
<1>9. CASE Advance
  BY <1>9 DEF Advance
<1>10. CASE BeginClose
  BY <1>10 DEF BeginClose
<1>11. CASE Seal
  BY <1>11 DEF Seal
<1>12. CASE PutSentinel
  BY <1>12 DEF PutSentinel, Room
<1>13. CASE SentinelFull
  BY <1>13 DEF SentinelFull, Room
<1>14. CASE Join
  BY <1>14 DEF Join
<1>15. CASE Broken
  BY <1>15 DEF Broken, Publish
<1>16. CASE Report
  BY <1>16 DEF Report, Publish
<1>17. CASE Complete
  BY <1>17 DEF Complete, Publish
<1>18. CASE CompleteFails
  BY <1>18 DEF CompleteFails
<1>19. CASE Return
  BY <1>19 DEF Return
<1>20. CASE OpenFiles
  BY <1>20 DEF OpenFiles
<1>21. CASE Take
  BY <1>21 DEF Take
<1>22. CASE TakeSentinel
  BY <1>22 DEF TakeSentinel
<1>23. CASE WriteFrame
  BY <1>23 DEF WriteFrame
<1>24. CASE WriteRow
  BY <1>24 DEF WriteRow
<1>25. CASE WriteText
  BY <1>25 DEF WriteText
<1>26. CASE WriterFails
  BY <1>26 DEF WriterFails
<1>27. CASE \E b \in BOOLEAN : CloseFiles(b)
  BY <1>27 DEF CloseFiles
<1>28. CASE Cancel
  BY <1>28 DEF Cancel
<1>29. CASE \E kind \in {"cancelled", "failed"} : Upset(kind)
  <2>1. /\ UNCHANGED <<step, unsafe, cancel, chan, wVars, manifest>>
        /\ upsets < MaxUpsets /\ upsets' = upsets + 1
    BY <1>29 DEF Upset
  <2>2. /\ pc' \in {"handler", "backstop", "drained", "over"}
        /\ cause' \in Causes /\ backstop' \in BOOLEAN
        /\ outcome' \in Causes \cup {"none"}
    BY <1>29 DEF Upset
  <2> QED
    BY <2>1, <2>2
<1>30. CASE UNCHANGED vars
  BY <1>30 DEF vars
<1> QED
  BY <1>1, <1>2, <1>3, <1>4, <1>5, <1>6, <1>7, <1>8, <1>9, <1>10,
     <1>11, <1>12, <1>13, <1>14, <1>15, <1>16, <1>17, <1>18, <1>19, <1>20,
     <1>21, <1>22, <1>23, <1>24, <1>25, <1>26, <1>27, <1>28, <1>29, <1>30
  DEF Next, MDStep, WriterStep

-------------------------------------------------------------------------------
(* Control *)

\* Every step keeps the control invariant.
LEMMA ControlStep ==
    ASSUME TypeOK, Control, [Next]_vars PROVE Control'
<1> USE DEF TypeOK, Control, WriterExists, WriterStopped, CauseKnown, SealedLast,
            DrainedWell, Stopped, Causes, InTry, Goto, Handle, Over, Publish,
            mdVars, wVars, chan, ends
<1>1. CASE Construct
  BY <1>1 DEF Construct
<1>2. CASE EnterTry
  BY <1>2 DEF EnterTry
<1>3. CASE Observe
  BY <1>3 DEF Observe
<1>4. CASE ComputeFails
  BY <1>4 DEF ComputeFails
<1>5. CASE \E b \in BOOLEAN : Compute(b)
  BY <1>5 DEF Compute
<1>6. CASE Submit
  BY <1>6 DEF Submit
<1>7. CASE Put
  BY <1>7 DEF Put, Room
<1>8. CASE PutFull
  BY <1>8 DEF PutFull, Room
<1>9. CASE Advance
  BY <1>9 DEF Advance
<1>10. CASE BeginClose
  BY <1>10 DEF BeginClose
<1>11. CASE Seal
  BY <1>11 DEF Seal
<1>12. CASE PutSentinel
  BY <1>12 DEF PutSentinel, Room
<1>13. CASE SentinelFull
  BY <1>13 DEF SentinelFull, Room
<1>14. CASE Join
  BY <1>14 DEF Join
<1>15. CASE Broken
  BY <1>15 DEF Broken
<1>16. CASE Report
  BY <1>16 DEF Report
<1>17. CASE Complete
  BY <1>17 DEF Complete
<1>18. CASE CompleteFails
  BY <1>18 DEF CompleteFails
<1>19. CASE Return
  BY <1>19 DEF Return
<1>20. CASE OpenFiles
  BY <1>20 DEF OpenFiles
<1>21. CASE Take
  BY <1>21 DEF Take
<1>22. CASE TakeSentinel
  BY <1>22 DEF TakeSentinel
<1>23. CASE WriteFrame
  BY <1>23 DEF WriteFrame
<1>24. CASE WriteRow
  BY <1>24 DEF WriteRow
<1>25. CASE WriteText
  BY <1>25 DEF WriteText
<1>26. CASE WriterFails
  BY <1>26 DEF WriterFails
<1>27. CASE \E b \in BOOLEAN : CloseFiles(b)
  BY <1>27 DEF CloseFiles
<1>28. CASE Cancel
  BY <1>28 DEF Cancel
<1>29. CASE \E kind \in {"cancelled", "failed"} : Upset(kind)
  BY <1>29 DEF Upset, Outside, Loud
<1>30. CASE UNCHANGED vars
  BY <1>30 DEF vars
<1> QED
  BY <1>1, <1>2, <1>3, <1>4, <1>5, <1>6, <1>7, <1>8, <1>9, <1>10,
     <1>11, <1>12, <1>13, <1>14, <1>15, <1>16, <1>17, <1>18, <1>19, <1>20,
     <1>21, <1>22, <1>23, <1>24, <1>25, <1>26, <1>27, <1>28, <1>29, <1>30
  DEF Next, MDStep, WriterStep

-------------------------------------------------------------------------------
(* What the queue does to the frames *)

\* Appending to a queue appends to what is in front of it and in it.
LEMMA AppendBehind ==
    ASSUME NEW s \in Seq(Frames), NEW h \in Seq(Frames), NEW q \in Seq(Frames),
           NEW e \in Frames
    PROVE  (s \o h) \o Append(q, e) = Append((s \o h) \o q, e)
<1>1. s \o h \in Seq(Frames) /\ (s \o h) \o q \in Seq(Frames)
  BY ConcatProperties
<1>2. <<e>> \in Seq(Frames) /\ Append(q, e) = q \o <<e>>
  BY AppendIsConcat
<1>3. Append((s \o h) \o q, e) = ((s \o h) \o q) \o <<e>>
  BY <1>1, AppendIsConcat
<1> QED
  BY <1>1, <1>2, <1>3, ConcatAssociative

\* Taking the head of a queue in the hand, and laying it at the end of a file.
LEMMA Conveyor ==
    ASSUME NEW s \in Seq(Frames), NEW q \in Seq(Frames)
    PROVE  /\ q # <<>> => (s \o <<Head(q)>>) \o Tail(q) = (s \o <<>>) \o q
           /\ \A e \in Frames : (Append(s, e) \o <<>>) \o q = (s \o <<e>>) \o q
<1>1. s \o <<>> = s
  BY ConcatEmptySeq
<1>2. ASSUME q # <<>>
      PROVE  (s \o <<Head(q)>>) \o Tail(q) = (s \o <<>>) \o q
  <2>1. Head(q) \in Frames /\ Tail(q) \in Seq(Frames) /\ <<Head(q)>> \in Seq(Frames)
    BY <1>2, HeadTailProperties
  <2>2. <<Head(q)>> \o Tail(q) = q
    BY <1>2
  <2> QED
    BY <1>1, <2>1, <2>2, ConcatAssociative
<1>3. ASSUME NEW e \in Frames
      PROVE  (Append(s, e) \o <<>>) \o q = (s \o <<e>>) \o q
  <2>1. Append(s, e) = s \o <<e>> /\ Append(s, e) \in Seq(Frames)
    BY AppendIsConcat, AppendProperties
  <2> QED
    BY <2>1, ConcatEmptySeq
<1> QED
  BY <1>2, <1>3

\* Every step keeps the submitted frames in the files, in the writer's hand
\* and in the queue.
LEMMA NothingDroppedStep ==
    ASSUME TypeOK, Control, NothingDropped, [Next]_vars PROVE NothingDropped'
<1> USE DEF TypeOK, NothingDropped, Held, mdVars, wVars, chan, ends
<1>1. CASE UNCHANGED <<submitted, queue, wVars>>
  BY <1>1
<1>2. CASE Put
  <2>1. step \in Frames /\ submitted' = Append(submitted, step)
        /\ queue' = Append(queue, step) /\ UNCHANGED wVars
    BY <1>2 DEF Put
  <2>2. Held({"traj", "row"}) \in Seq(Frames) /\ Held({"traj"}) \in Seq(Frames)
    OBVIOUS
  <2>3. \A s, h, q \in Seq(Frames), e \in Frames :
          (s \o h) \o Append(q, e) = Append((s \o h) \o q, e)
    BY AppendBehind
  <2>4. /\ csv \in Seq(Frames) /\ traj \in Seq(Frames) /\ queue \in Seq(Frames)
        /\ step \in Frames
    OBVIOUS
  <2>5. /\ Held({"traj", "row"})' = Held({"traj", "row"})
        /\ Held({"traj"})' = Held({"traj"})
    BY <2>1
  <2> HIDE DEF Held, TypeOK
  <2>6. (csv \o Held({"traj", "row"})) \o Append(queue, step)
           = Append((csv \o Held({"traj", "row"})) \o queue, step)
    BY <2>2, <2>3, <2>4
  <2>7. (traj \o Held({"traj"})) \o Append(queue, step)
           = Append((traj \o Held({"traj"})) \o queue, step)
    BY <2>2, <2>3, <2>4
  <2> QED
    BY <2>1, <2>5, <2>6, <2>7
<1>3. CASE Take
  <2>1. /\ wpc = "get" /\ queue # <<>> /\ wpc' = "traj"
        /\ item' = Head(queue) /\ queue' = Tail(queue)
        /\ UNCHANGED <<submitted, traj, csv, werr>>
    BY <1>3 DEF Take
  <2>2. \A s \in Seq(Frames) :
          (s \o <<Head(queue)>>) \o Tail(queue) = (s \o <<>>) \o queue
    BY <2>1, Conveyor
  <2> QED
    BY <2>1, <2>2
<1>4. CASE WriteFrame
  <2>1. /\ wpc = "traj" /\ wpc' = "row" /\ traj' = Append(traj, item)
        /\ UNCHANGED <<submitted, queue, item, csv, werr>>
    BY <1>4 DEF WriteFrame
  <2>2. \A s, q \in Seq(Frames), e \in Frames :
          (Append(s, e) \o <<>>) \o q = (s \o <<e>>) \o q
    BY Conveyor
  <2>3. (Append(traj, item) \o <<>>) \o queue = (traj \o <<item>>) \o queue
    BY <2>2
  <2> QED
    BY <2>1, <2>3
<1>5. CASE WriteRow
  <2>1. /\ wpc = "row" /\ wpc' = "text" /\ csv' = Append(csv, item)
        /\ UNCHANGED <<submitted, queue, item, traj, werr>>
    BY <1>5 DEF WriteRow
  <2>2. \A s, q \in Seq(Frames), e \in Frames :
          (Append(s, e) \o <<>>) \o q = (s \o <<e>>) \o q
    BY Conveyor
  <2>3. (Append(csv, item) \o <<>>) \o queue = (csv \o <<item>>) \o queue
    BY <2>2
  <2> QED
    BY <2>1, <2>3
<1>6. ASSUME werr' \/ /\ UNCHANGED <<submitted, queue, traj, csv, werr>>
                      /\ wpc \notin {"traj", "row"} /\ wpc' \notin {"traj", "row"}
      PROVE  NothingDropped'
  BY <1>6
<1>9. CASE Construct
  BY <1>6, <1>9 DEF Construct, Control, WriterExists
<1>10. CASE \/ OpenFiles \/ TakeSentinel \/ WriteText \/ WriterFails
            \/ \E b \in BOOLEAN : CloseFiles(b)
  BY <1>6, <1>10 DEF OpenFiles, TakeSentinel, WriteText, WriterFails, CloseFiles
<1>7. CASE UNCHANGED vars
  BY <1>1, <1>7 DEF vars
<1>8. CASE \/ EnterTry \/ Observe \/ ComputeFails \/ \E b \in BOOLEAN : Compute(b)
           \/ Submit \/ PutFull \/ Advance \/ BeginClose \/ Seal \/ PutSentinel
           \/ SentinelFull \/ Join \/ Broken \/ Report \/ Complete
           \/ CompleteFails \/ Return \/ Cancel
           \/ \E kind \in {"cancelled", "failed"} : Upset(kind)
  BY <1>1, <1>8
  DEF EnterTry, Observe, ComputeFails, Compute, Submit, PutFull, Advance,
      BeginClose, Seal, PutSentinel, SentinelFull, Join, Broken, Report,
      Complete, CompleteFails, Return, Cancel, Upset
<1> QED
  BY <1>2, <1>3, <1>4, <1>5, <1>7, <1>8, <1>9, <1>10
  DEF Next, MDStep, WriterStep

-------------------------------------------------------------------------------
(* The schedule of the frames *)

\* A multiple of d in a half-open interval of length d.
LEMMA Multiple ==
    ASSUME NEW n \in Nat, NEW k \in Nat, NEW d \in Nat \ {0},
           (k - 1) * d < n, n <= k * d, n % d = 0
    PROVE  n = k * d
<1> DEFINE q == n \div d
<1>1. q \in Int /\ n = d * q
  OBVIOUS
<1>2. ~(q <= k - 1)
  <2> SUFFICES ASSUME q <= k - 1 PROVE FALSE
    OBVIOUS
  <2>1. d * q <= d * (k - 1)
    BY <1>1
  <2> QED
    BY <1>1, <2>1
<1>3. ~(q >= k + 1)
  <2> SUFFICES ASSUME q >= k + 1 PROVE FALSE
    OBVIOUS
  <2>1. d * q >= d * (k + 1)
    BY <1>1
  <2> QED
    BY <1>1, <2>1
<1>4. q = k
  BY <1>1, <1>2, <1>3
<1> QED
  BY <1>1, <1>4

\* A multiple leaves no remainder.
LEMMA NoRemainder ==
    ASSUME NEW k \in Nat, NEW d \in Nat \ {0} PROVE (k * d) % d = 0
<1> DEFINE q == (k * d) \div d
           r == (k * d) % d
<1>1. q \in Int /\ r \in 0..(d - 1) /\ k * d = d * q + r
  OBVIOUS
<1>2. d * (k - q) = r
  BY <1>1
<1> HIDE DEF q, r
<1>3. ~(k - q >= 1)
  <2> SUFFICES ASSUME k - q >= 1 PROVE FALSE
    OBVIOUS
  <2>1. d * (k - q) >= d
    BY <1>1
  <2> QED
    BY <1>1, <1>2, <2>1
<1>4. ~(k - q <= -1)
  <2> SUFFICES ASSUME k - q <= -1 PROVE FALSE
    OBVIOUS
  <2>1. d * (k - q) <= -d
    BY <1>1
  <2> QED
    BY <1>1, <1>2, <2>1
<1>5. k - q = 0
  BY <1>1, <1>3, <1>4
<1>6. r = 0
  BY <1>1, <1>2, <1>5
<1> QED
  BY <1>6 DEF r

\* The quotient of a number in an interval between two multiples of d.
LEMMA Quotient ==
    ASSUME NEW n \in Nat, NEW k \in Nat, NEW d \in Nat \ {0},
           (k - 1) * d <= n, n < k * d
    PROVE  n \div d = k - 1
<1> DEFINE q == n \div d
<1>1. q \in Int /\ d * q <= n /\ n < d * (q + 1)
  OBVIOUS
<1>2. ~(q <= k - 2)
  <2> SUFFICES ASSUME q <= k - 2 PROVE FALSE
    OBVIOUS
  <2>1. d * (q + 1) <= d * (k - 1)
    BY <1>1
  <2> QED
    BY <1>1, <2>1
<1>3. ~(q >= k)
  <2> SUFFICES ASSUME q >= k PROVE FALSE
    OBVIOUS
  <2>1. d * q >= d * k
    BY <1>1
  <2> QED
    BY <1>1, <2>1
<1> QED
  BY <1>1, <1>2, <1>3

\* Every step keeps an undisturbed run on its schedule.
LEMMA OnScheduleStep ==
    ASSUME TypeOK, Control, OnSchedule, [Next]_vars PROVE OnSchedule'
<1> DEFINE n == Len(submitted)
<1>0. /\ SaveInterval \in Nat \ {0} /\ TotalSteps \in Nat
      /\ step \in 0..TotalSteps /\ unsafe \in BOOLEAN
      /\ submitted \in Seq(Frames) /\ n \in Nat
  BY MDAssumption, LenProperties DEF TypeOK, Frames
<1> USE DEF OnSchedule, Closing, Goto, Handle, Over, mdVars, wVars, chan, ends
<1>1. CASE Construct \/ EnterTry
  BY <1>1 DEF Construct, EnterTry, Regular, Behind
<1>2. CASE Observe
  BY <1>2 DEF Observe, Regular, Behind
<1>3. CASE \E b \in BOOLEAN : Compute(b)
  <2>1. PICK b \in BOOLEAN : Compute(b)
    BY <1>3
  <2>2. /\ Regular /\ Behind /\ ~unsafe /\ unsafe' = b
        /\ UNCHANGED <<step, cause, submitted>>
        /\ pc' = IF b \/ step % SaveInterval = 0 THEN "submit" ELSE "advance"
    BY <2>1 DEF Compute
  <2>3. step % SaveInterval # 0 => step # n * SaveInterval
    BY <1>0, NoRemainder
  <2>4. pc' = "advance" => Even'
    BY <1>0, <2>2, <2>3 DEF Behind, Even
  <2> QED
    BY <2>2, <2>4 DEF Regular, Behind
<1>4. CASE Submit \/ PutFull
  BY <1>4 DEF Submit, PutFull, Regular, Behind
<1>5. CASE Put
  <2>1. /\ Regular /\ Behind /\ (unsafe \/ step % SaveInterval = 0)
        /\ submitted' = Append(submitted, step) /\ pc' = "advance"
        /\ UNCHANGED <<step, unsafe, cause>>
    BY <1>5 DEF Put
  <2>2. /\ Len(submitted') = n + 1 /\ submitted'[n + 1] = step
        /\ \A i \in 1..n : submitted'[i] = submitted[i]
    BY <1>0, <2>1, AppendProperties DEF Frames
  <2>3. ASSUME ~unsafe PROVE step = n * SaveInterval
    <3>1. /\ (n - 1) * SaveInterval < step /\ step <= n * SaveInterval
          /\ step % SaveInterval = 0 /\ step \in Nat
      BY <1>0, <2>1, <2>3 DEF Behind
    <3> QED
      BY <1>0, <3>1, Multiple
  <2>4. ASSUME ~unsafe PROVE Regular'
    <3> SUFFICES ASSUME NEW i \in 1..(n + 1)
                 PROVE  submitted'[i] = (i - 1) * SaveInterval
      BY <2>2 DEF Regular
    <3>1. CASE i = n + 1
      BY <1>0, <2>2, <2>3, <2>4, <3>1
    <3>2. CASE i \in 1..n
      BY <2>1, <2>2, <3>2 DEF Regular
    <3> QED
      BY <1>0, <3>1, <3>2
  <2>5. ASSUME ~unsafe PROVE Even'
    BY <1>0, <2>1, <2>2, <2>3, <2>5 DEF Even
  <2> QED
    BY <2>1, <2>4, <2>5
<1>6. CASE Advance
  <2>1. CASE unsafe
    BY <1>6, <2>1 DEF Advance, Control, CauseKnown, InTry
  <2>2. CASE ~unsafe /\ step = TotalSteps
    <3>1. /\ Regular /\ Even /\ pc' = "finished"
          /\ UNCHANGED <<step, unsafe, submitted>>
      BY <1>0, <1>6, <2>2 DEF Advance
    <3> QED
      BY <2>2, <3>1 DEF Regular, Even
  <2>3. CASE ~unsafe /\ step < TotalSteps
    <3>1. /\ Regular /\ Even /\ pc' = "observe" /\ step' = step + 1
          /\ UNCHANGED <<unsafe, submitted>>
      BY <1>0, <1>6, <2>3 DEF Advance
    <3>2. Behind'
      BY <1>0, <3>1 DEF Even, Behind
    <3> QED
      BY <2>3, <3>1, <3>2 DEF Regular
  <2> QED
    BY <1>0, <1>6, <2>1, <2>2, <2>3 DEF Advance
<1>7. CASE BeginClose \/ Seal \/ PutSentinel \/ SentinelFull \/ Join \/ Broken
  BY <1>7
  DEF BeginClose, Seal, PutSentinel, SentinelFull, Join, Broken, Regular, Even,
      Control, CauseKnown
<1>8. CASE ComputeFails \/ Report \/ Complete \/ CompleteFails \/ Return
  BY <1>8 DEF ComputeFails, Report, Complete, CompleteFails, Return, Regular, Even
<1>9. CASE WriterStep \/ Cancel
  BY <1>9
  DEF WriterStep, Cancel, OpenFiles, Take, TakeSentinel, WriteFrame, WriteRow,
      WriteText, WriterFails, CloseFiles, Regular, Behind, Even
<1>10. CASE \E kind \in {"cancelled", "failed"} : Upset(kind)
  BY <1>10 DEF Upset, Regular, Even, Control, CauseKnown
<1>11. CASE UNCHANGED vars
  BY <1>11 DEF vars, Regular, Behind, Even
<1> QED
  BY <1>1, <1>2, <1>3, <1>4, <1>5, <1>6, <1>7, <1>8, <1>9, <1>10, <1>11
  DEF Next, MDStep

-------------------------------------------------------------------------------
(* What is reported *)

\* A run on schedule that is drained has written every frame.
LEMMA DrainedIsComplete ==
    ASSUME TypeOK, Control, OnSchedule, NothingDropped,
           cause = "completed", pc \in {"drained", "summary"}
    PROVE  traj = AllFrames /\ csv = AllFrames /\ wpc = "dead" /\ ~werr
<1> DEFINE n == Len(submitted)
<1>1. /\ SaveInterval \in Nat \ {0} /\ TotalSteps \in Nat
      /\ submitted \in Seq(Frames) /\ n \in Nat /\ DOMAIN submitted = 1..n
      /\ submitted \in [1..n -> Frames]
      /\ traj \in Seq(Frames) /\ csv \in Seq(Frames)
  BY MDAssumption, LenProperties DEF TypeOK
<1>2. wpc = "dead" /\ ~werr /\ queue = <<>>
  BY DEF Control, DrainedWell, SealedLast, Stopped
<1>3. csv = submitted /\ traj = submitted
  BY <1>1, <1>2, ConcatEmptySeq DEF NothingDropped, Held
<1>4. Regular /\ Even /\ step = TotalSteps
  BY DEF OnSchedule, Closing
<1>5. n = (TotalSteps \div SaveInterval) + 1
  <2>1. /\ (n - 1) * SaveInterval <= TotalSteps
        /\ TotalSteps < n * SaveInterval
    BY <1>4 DEF Even
  <2>2. TotalSteps \div SaveInterval = n - 1
    BY <1>1, <2>1, Quotient
  <2>3. n \in Nat
    BY <1>1
  <2> HIDE DEF n
  <2> QED
    BY <2>2, <2>3
<1>6. submitted = AllFrames
  BY <1>1, <1>4, <1>5 DEF Regular, AllFrames
<1> QED
  BY <1>2, <1>3, <1>6

\* Every step keeps a completed run complete.
LEMMA CompletedStep ==
    ASSUME TypeOK, Control, OnSchedule, NothingDropped, CompletedIsComplete,
           [Next]_vars
    PROVE  CompletedIsComplete'
<1> USE DEF CompletedIsComplete, Goto, Handle, Over, Publish, mdVars, wVars, chan,
        ends
<1>1. CASE Complete \/ Return
  <2>1. cause = "completed" /\ pc \in {"drained", "summary"}
    BY <1>1 DEF Complete, Return, Control, CauseKnown
  <2>2. traj = AllFrames /\ csv = AllFrames /\ wpc = "dead" /\ ~werr
    BY <2>1, DrainedIsComplete
  <2> QED
    BY <1>1, <2>2 DEF Complete, Return, AllFrames
<1>2. CASE Broken \/ Report \/ CompleteFails
  BY <1>2
  DEF Broken, Report, CompleteFails, AllFrames, Control, CauseKnown, DrainedWell
<1>3. CASE \E kind \in {"cancelled", "failed"} : Upset(kind)
  BY <1>3 DEF Upset, AllFrames, Control, DrainedWell, InTry, Outside
<1>4. CASE UNCHANGED ends /\ wpc # "dead"
  BY <1>4
<1>5. CASE UNCHANGED <<ends, wVars>>
  BY <1>5 DEF AllFrames
<1>6. CASE WriterStep
  BY <1>4, <1>6
  DEF WriterStep, OpenFiles, Take, TakeSentinel, WriteFrame, WriteRow, WriteText,
      WriterFails, CloseFiles
<1>7. CASE Construct
  BY <1>4, <1>7 DEF Construct, Control, WriterExists
<1>8. CASE \/ EnterTry \/ Observe \/ ComputeFails \/ \E b \in BOOLEAN : Compute(b)
           \/ Submit \/ Put \/ PutFull \/ Advance \/ BeginClose \/ Seal
           \/ PutSentinel \/ SentinelFull \/ Join \/ Cancel \/ UNCHANGED vars
  BY <1>5, <1>8
  DEF EnterTry, Observe, ComputeFails, Compute, Submit, Put, PutFull, Advance,
      BeginClose, Seal, PutSentinel, SentinelFull, Join, Cancel, vars
<1> QED
  BY <1>1, <1>2, <1>3, <1>6, <1>7, <1>8 DEF Next, MDStep

\* Every step keeps the manifest's count right: rows are written only by a
\* writer that has not stopped, before anything is reported.
LEMMA CountStep ==
    ASSUME TypeOK, Control, ManifestCountsFrames, [Next]_vars
    PROVE  ManifestCountsFrames'
<1> USE DEF ManifestCountsFrames, Goto, Handle, Over, mdVars, wVars, chan, ends
<1>1. CASE Broken \/ Report \/ Complete
  BY <1>1 DEF Broken, Report, Complete, Publish, Causes
<1>2. CASE WriteRow
  BY <1>2 DEF WriteRow, Control, WriterStopped, Stopped
<1>3. CASE UNCHANGED <<csv, manifest>>
  BY <1>3
<1>4. CASE \/ OpenFiles \/ Take \/ TakeSentinel \/ WriteFrame \/ WriteText
           \/ WriterFails \/ \E b \in BOOLEAN : CloseFiles(b)
  BY <1>3, <1>4
  DEF OpenFiles, Take, TakeSentinel, WriteFrame, WriteText, WriterFails, CloseFiles
<1>5. CASE \/ Construct \/ EnterTry \/ Observe \/ ComputeFails
           \/ \E b \in BOOLEAN : Compute(b)
           \/ Submit \/ Put \/ PutFull \/ Advance \/ BeginClose \/ Seal
           \/ PutSentinel \/ SentinelFull \/ Join \/ CompleteFails \/ Return
           \/ Cancel \/ UNCHANGED vars
           \/ \E kind \in {"cancelled", "failed"} : Upset(kind)
  BY <1>3, <1>5
  DEF Construct, EnterTry, Observe, ComputeFails, Compute, Submit, Put, PutFull,
      Advance, BeginClose, Seal, PutSentinel, SentinelFull, Join, CompleteFails,
      Return, Cancel, vars, Upset
<1> QED
  BY <1>1, <1>2, <1>4, <1>5 DEF Next, MDStep, WriterStep

-------------------------------------------------------------------------------
(* The theorems *)

\* The strengthening holds in every reachable state of MDRunner.run and of the
\* writer thread: the run is on schedule, the writer stops when it has failed
\* or seen the sentinel, and nothing is reported before.
THEOREM InductiveInvariant == Spec => []IInv
<1>1. Init => IInv
  <2> SUFFICES ASSUME Init PROVE IInv
    OBVIOUS
  <2> USE MDAssumption DEF Init
  <2>1. TypeOK
    <3>1. <<>> \in Seq(Frames) /\ Len(<<>>) = 0
      BY EmptySeq
    <3>2. manifest \in [status : Causes \cup {"none", "earlier"}, frames : Nat]
      OBVIOUS
    <3>3. step \in Frames /\ item \in Frames /\ upsets \in 0..MaxUpsets
      BY DEF Frames
    <3>4. /\ submitted \in Seq(Frames) /\ queue \in Seq(Frames)
          /\ traj \in Seq(Frames) /\ csv \in Seq(Frames)
          /\ Len(queue) <= QueueMax
      BY <3>1
    <3> HIDE MDAssumption
    <3> QED
      BY <3>2, <3>3, <3>4 DEF TypeOK, Causes
  <2>2. Control
    BY DEF Control, WriterExists, WriterStopped, CauseKnown, SealedLast,
           DrainedWell, Stopped, Causes
  <2>3. OnSchedule
    BY DEF OnSchedule, Regular, Behind, Closing
  <2>4. NothingDropped
    BY DEF NothingDropped, Held
  <2>5. ManifestCountsFrames /\ CompletedIsComplete
    BY DEF ManifestCountsFrames, CompletedIsComplete, Causes
  <2> QED
    BY <2>1, <2>2, <2>3, <2>4, <2>5 DEF IInv
<1>2. IInv /\ [Next]_vars => IInv'
  BY TypeStep, ControlStep, NothingDroppedStep, OnScheduleStep, CompletedStep,
     CountStep
  DEF IInv
<1> QED
  BY <1>1, <1>2, PTL DEF Spec

\* Every variable of the run and of its writer keeps its type; the queue never
\* holds more than QUEUE_MAX_FRAMES frames.
THEOREM MDTypeCorrect == Spec => []TypeOK
<1> IInv => TypeOK
  BY DEF IInv
<1> QED
  BY InductiveInvariant, PTL

\* AsyncMDOutputWriter: "never drop a requested scientific frame".
THEOREM FramesKept == Spec => []NothingDropped
<1> IInv => NothingDropped
  BY DEF IInv
<1> QED
  BY InductiveInvariant, PTL

\* A run that returns, or is published as completed, has every frame on disk.
THEOREM CompletedRunsComplete == Spec => []CompletedIsComplete
<1> IInv => CompletedIsComplete
  BY DEF IInv
<1> QED
  BY InductiveInvariant, PTL

\* artifacts.json counts the rows of md.csv and is never overtaken by them.
THEOREM ManifestExact == Spec => []ManifestCountsFrames
<1> IInv => ManifestCountsFrames
  BY DEF IInv
<1> QED
  BY InductiveInvariant, PTL
-------------------------------------------------------------------------------
(* What a reader of the files sees: a run of TrajectoryData *)

\* The frames of trajectory.traj, of which the first is the start of the run, and
\* the status that this run has published.
FrameOf(s)  == [step |-> s, phase |-> "production", mobile |-> 0, framework |-> 0]
FramesRead  == IF traj = <<>> THEN <<FrameOf(0)>>
               ELSE [i \in 1..Len(traj) |-> FrameOf(traj[i])]
StatusRead  == IF manifest.status \in Causes THEN manifest.status ELSE "none"

\* The atoms of MDOutput have no positions, and nobody loads its files.
Read == INSTANCE TrajectoryData WITH
            Cell <- 1, StartStep <- {0}, Moves <- {<<0, 0>>}, LagGrid <- {}, Groups <- {},
            MaxFrames <- TotalSteps + 2,
            saved <- FramesRead, artifacts <- StatusRead,
            origin <- [kind |-> "run", start |-> 0, traj |-> TRUE],
            dataset <- [state |-> "none"], answer <- [verdict |-> "none"]

\* Every frame but the last was due by the schedule, and the last not later.
Scheduled ==
    /\ \A i \in 1..(Len(submitted) - 1) : submitted[i] = (i - 1) * SaveInterval
    /\ submitted # <<>> =>
          /\ (Len(submitted) - 2) * SaveInterval < submitted[Len(submitted)]
          /\ submitted[Len(submitted)] <= (Len(submitted) - 1) * SaveInterval

\* The files hold the first frames submitted; a row follows its frame.
FilesInOrder ==
    /\ Len(csv) <= Len(traj) /\ Len(traj) <= Len(submitted)
    /\ \A i \in 1..Len(traj) : traj[i] = submitted[i]
    /\ \A i \in 1..Len(csv) : csv[i] = traj[i]

\* A status is published once, but for that of a failed close in the finally block.
Reported ==
    /\ backstop => cause \in {"cancelled", "failed"}
    /\ manifest.status \in Causes =>
          \/ pc \in {"over", "summary"}
          \/ pc = "drained" /\ backstop /\ manifest.status = "failed"

\* A frame is submitted only when its step is due, or is the last.
LEMMA ScheduledStep ==
    ASSUME TypeOK, OnSchedule, Scheduled, [Next]_vars PROVE Scheduled'
<1> DEFINE n == Len(submitted)
<1>1. /\ SaveInterval \in Nat \ {0} /\ submitted \in Seq(Frames) /\ n \in Nat
      /\ step \in Nat /\ \A i \in 1..n : submitted[i] \in Nat
  BY MDAssumption, LenProperties, ElementOfSeq DEF TypeOK, Frames
<1>2. CASE Put
  <2>1. Regular /\ Behind
    BY <1>2 DEF Put, OnSchedule
  <2>2. submitted' = Append(submitted, step) /\ step \in Frames
    BY <1>2 DEF Put, TypeOK
  <2>3. /\ Len(submitted') = n + 1 /\ submitted'[n + 1] = step
        /\ \A i \in 1..n : submitted'[i] = submitted[i]
    BY <1>1, <2>2, AppendProperties
  <2>4. \A i \in 1..n : submitted'[i] = (i - 1) * SaveInterval
    BY <2>1, <2>3 DEF Regular
  <2>5. (n - 1) * SaveInterval < step /\ step <= n * SaveInterval
    BY <2>1 DEF Behind
  <2> HIDE DEF n
  <2>6. \A i \in 1..(Len(submitted') - 1) : submitted'[i] = (i - 1) * SaveInterval
    BY <1>1, <2>3, <2>4
  <2>7. Len(submitted') - 2 = n - 1 /\ Len(submitted') - 1 = n
    BY <1>1, <2>3
  <2> QED
    BY <2>3, <2>5, <2>6, <2>7 DEF Scheduled
<1>3. CASE UNCHANGED submitted
  BY <1>3 DEF Scheduled
<1> QED
  BY <1>2, <1>3
  DEF Next, MDStep, WriterStep, Construct, EnterTry, Observe, ComputeFails, Compute,
      Submit, PutFull, Advance, BeginClose, Seal, PutSentinel, SentinelFull, Join,
      Broken, Report, Complete, CompleteFails, Return, Cancel, Upset, OpenFiles, Take,
      TakeSentinel, WriteFrame, WriteRow, WriteText, WriterFails, CloseFiles, vars, chan

\* What comes next in the trajectory is the frame submitted after the last in it.
LEMMA NextFrame ==
    ASSUME TypeOK, Control, NothingDropped, wpc = "traj"
    PROVE  Len(traj) < Len(submitted) /\ item = submitted[Len(traj) + 1]
<1>1. ~werr
  BY DEF Control, WriterStopped, Stopped
<1>2. traj \o <<item>> \o queue = submitted
  BY <1>1 DEF NothingDropped, Held
<1>3. traj \in Seq(Frames) /\ queue \in Seq(Frames) /\ <<item>> \in Seq(Frames)
  BY DEF TypeOK
<1>4. traj \o <<item>> \in Seq(Frames) /\ Len(traj \o <<item>>) = Len(traj) + 1
      /\ (traj \o <<item>>)[Len(traj) + 1] = item
  BY <1>3
<1>5. Len(traj) \in Nat /\ Len(queue) \in Nat
  BY <1>3
<1> QED
  BY <1>2, <1>3, <1>4, <1>5, ConcatProperties

\* A row is written when its frame is in the trajectory and the last one there.
LEMMA NextRow ==
    ASSUME TypeOK, Control, NothingDropped, wpc = "row"
    PROVE  Len(csv) + 1 = Len(traj) /\ item = traj[Len(csv) + 1]
<1>1. ~werr
  BY DEF Control, WriterStopped, Stopped
<1>2. csv \o <<item>> \o queue = submitted /\ traj \o <<>> \o queue = submitted
  BY <1>1 DEF NothingDropped, Held
<1>3. /\ csv \in Seq(Frames) /\ traj \in Seq(Frames) /\ queue \in Seq(Frames)
      /\ <<item>> \in Seq(Frames)
  BY DEF TypeOK
<1>4. /\ csv \o <<item>> \in Seq(Frames) /\ Len(csv \o <<item>>) = Len(csv) + 1
      /\ (csv \o <<item>>)[Len(csv) + 1] = item
  BY <1>3
<1>5. traj \o queue = submitted
  BY <1>2, <1>3, ConcatEmptySeq
<1>6. Len(csv) \in Nat /\ Len(traj) \in Nat /\ Len(queue) \in Nat
  BY <1>3
<1>7. /\ Len(submitted) = Len(csv) + 1 + Len(queue)
      /\ submitted[Len(csv) + 1] = item
  BY <1>2, <1>3, <1>4, <1>6, ConcatProperties
<1>8. /\ Len(submitted) = Len(traj) + Len(queue)
      /\ \A i \in 1..Len(traj) : submitted[i] = traj[i]
  BY <1>3, <1>5, <1>6, ConcatProperties
<1> QED
  BY <1>6, <1>7, <1>8

\* Frames and rows are appended in the order of submission.
LEMMA FilesInOrderStep ==
    ASSUME TypeOK, Control, NothingDropped, FilesInOrder, [Next]_vars PROVE FilesInOrder'
<1>1. /\ submitted \in Seq(Frames) /\ traj \in Seq(Frames) /\ csv \in Seq(Frames)
      /\ Len(submitted) \in Nat /\ Len(traj) \in Nat /\ Len(csv) \in Nat /\ item \in Frames
  BY LenProperties DEF TypeOK
<1>2. CASE Put
  <2>1. submitted' = Append(submitted, step) /\ step \in Frames /\ UNCHANGED <<traj, csv>>
    BY <1>2 DEF Put, TypeOK, wVars
  <2>2. /\ Len(submitted') = Len(submitted) + 1
        /\ \A i \in 1..Len(submitted) : submitted'[i] = submitted[i]
    BY <1>1, <2>1, AppendProperties
  <2> QED
    BY <1>1, <2>1, <2>2 DEF FilesInOrder
<1>3. CASE WriteFrame
  <2>1. /\ wpc = "traj" /\ traj' = Append(traj, item) /\ UNCHANGED <<submitted, csv>>
    BY <1>3 DEF WriteFrame, chan
  <2>2. Len(traj) < Len(submitted) /\ item = submitted[Len(traj) + 1]
    BY <2>1, NextFrame
  <2>3. /\ Len(traj') = Len(traj) + 1 /\ traj'[Len(traj) + 1] = item
        /\ \A i \in 1..Len(traj) : traj'[i] = traj[i]
    BY <1>1, <2>1, AppendProperties
  <2> QED
    BY <1>1, <2>1, <2>2, <2>3 DEF FilesInOrder
<1>4. CASE WriteRow
  <2>1. /\ wpc = "row" /\ csv' = Append(csv, item) /\ UNCHANGED <<submitted, traj>>
    BY <1>4 DEF WriteRow, chan
  <2>2. Len(csv) + 1 = Len(traj) /\ item = traj[Len(csv) + 1]
    BY <2>1, NextRow
  <2>3. /\ Len(csv') = Len(csv) + 1 /\ csv'[Len(csv) + 1] = item
        /\ \A i \in 1..Len(csv) : csv'[i] = csv[i]
    BY <1>1, <2>1, AppendProperties
  <2> QED
    BY <1>1, <2>1, <2>2, <2>3 DEF FilesInOrder
<1>5. CASE UNCHANGED <<submitted, traj, csv>>
  BY <1>5 DEF FilesInOrder
<1> QED
  BY <1>2, <1>3, <1>4, <1>5
  DEF Next, MDStep, WriterStep, Construct, EnterTry, Observe, ComputeFails, Compute,
      Submit, PutFull, Advance, BeginClose, Seal, PutSentinel, SentinelFull, Join,
      Broken, Report, Complete, CompleteFails, Return, Cancel, Upset, OpenFiles, Take,
      TakeSentinel, WriteText, WriterFails, CloseFiles, vars, chan, wVars

\* Every clause publishes once and leaves, but the finally block goes on.
LEMMA ReportedStep ==
    ASSUME TypeOK, Control, Reported, [Next]_vars PROVE Reported'
<1> USE DEF Reported, Goto, Handle, Over, mdVars, wVars, chan, ends
<1>1. CASE Broken \/ Report \/ Complete
  BY <1>1 DEF Broken, Report, Complete, Publish, Control, CauseKnown
<1>2. CASE CompleteFails \/ Return
  BY <1>2 DEF CompleteFails, Return
<1>3. CASE \E kind \in {"cancelled", "failed"} : Upset(kind)
  BY <1>3 DEF Upset, InTry, Outside, Loud
<1>4. CASE \/ Construct \/ EnterTry \/ Observe \/ ComputeFails
           \/ \E b \in BOOLEAN : Compute(b)
           \/ Submit \/ Put \/ PutFull \/ Advance
  BY <1>4 DEF Construct, EnterTry, Observe, ComputeFails, Compute, Submit, Put, PutFull,
              Advance, Control, CauseKnown, InTry
<1>5. CASE BeginClose \/ Seal \/ PutSentinel \/ SentinelFull \/ Join
  BY <1>5 DEF BeginClose, Seal, PutSentinel, SentinelFull, Join
<1>6. CASE WriterStep \/ Cancel \/ UNCHANGED vars
  BY <1>6 DEF WriterStep, OpenFiles, Take, TakeSentinel, WriteFrame, WriteRow, WriteText,
              WriterFails, CloseFiles, Cancel, vars
<1> QED
  BY <1>1, <1>2, <1>3, <1>4, <1>5, <1>6 DEF Next, MDStep

\* A sequence with one more element, as a function.
LEMMA AppendIsFunction ==
    ASSUME NEW S, NEW s \in Seq(S), NEW e \in S
    PROVE  Append(s, e) = [i \in 1..(Len(s) + 1) |-> IF i = Len(s) + 1 THEN e ELSE s[i]]
<1>1. Append(s, e) \in Seq(S) /\ Len(Append(s, e)) = Len(s) + 1
  BY AppendProperties
<1>2. DOMAIN Append(s, e) = 1..(Len(s) + 1) /\ Len(s) \in Nat
  BY <1>1, LenProperties
<1>3. \A i \in 1..(Len(s) + 1) : Append(s, e)[i] = IF i = Len(s) + 1 THEN e ELSE s[i]
  BY <1>2, AppendProperties
<1> DEFINE a == Append(s, e)
<1>4. a = [i \in 1..Len(a) |-> a[i]]
  <2>1. a \in Seq(S)
    BY <1>1
  <2> HIDE DEF a
  <2> QED BY <2>1
<1> QED BY <1>1, <1>2, <1>3, <1>4

\* A written frame is the next one on the grid, or the last one off it.
LEMMA FrameIsSaved ==
    ASSUME TypeOK, Control, NothingDropped, Scheduled, FilesInOrder, WriteFrame
    PROVE  Read!SaveFrame \/ Read!SaveUnsafe \/ UNCHANGED FramesRead
<1> DEFINE m == Len(traj)
           n == Len(submitted)
<1>1. /\ wpc = "traj" /\ traj' = Append(traj, item) /\ manifest' = manifest
      /\ item \in Frames /\ traj \in Seq(Frames) /\ submitted \in Seq(Frames)
      /\ m \in Nat /\ n \in Nat /\ SaveInterval \in Nat \ {0} /\ TotalSteps \in Nat
  BY MDAssumption, LenProperties DEF WriteFrame, TypeOK, ends
<1>2. m < n /\ item = submitted[m + 1]
  BY <1>1, NextFrame
<1>3. /\ \A i \in 1..(n - 1) : submitted[i] = (i - 1) * SaveInterval
      /\ (n - 2) * SaveInterval < submitted[n] /\ submitted[n] <= (n - 1) * SaveInterval
  <2>1. submitted # <<>>
    BY <1>1, <1>2
  <2> QED BY <2>1 DEF Scheduled
<1>4. /\ Len(traj') = m + 1 /\ traj'[m + 1] = item /\ traj' \in Seq(Frames)
      /\ \A i \in 1..m : traj'[i] = traj[i]
  BY <1>1, AppendProperties
<1>5. FramesRead' = [i \in 1..(m + 1) |-> FrameOf(traj'[i])]
  <2>1. traj' # <<>>
    BY <1>1, <1>4
  <2> QED BY <1>4, <2>1 DEF FramesRead, FrameOf
<1>6. CASE traj = <<>>
  <2>1. m = 0
    BY <1>6
  <2>2. item = 0
    <3>1. item = submitted[1] /\ submitted[n] <= (n - 1) * SaveInterval
      BY <1>2, <1>3, <2>1
    <3>2. n > 1 => item = (1 - 1) * SaveInterval
      BY <1>1, <1>3, <3>1
    <3>3. n = 1 => item <= 0 * SaveInterval
      BY <1>3, <3>1
    <3> HIDE DEF n
    <3> QED BY <1>1, <1>2, <2>1, <3>2, <3>3 DEF Frames
  <2>3. FramesRead' = [i \in 1..1 |-> FrameOf(0)]
    BY <1>4, <1>5, <2>1, <2>2
  <2>4. FramesRead = <<FrameOf(0)>>
    BY <1>6 DEF FramesRead
  <2> QED BY <2>3, <2>4
<1>7. CASE traj # <<>>
  <2>1. m >= 1 /\ traj[m] = submitted[m] /\ FramesRead = [i \in 1..m |-> FrameOf(traj[i])]
    BY <1>1, <1>7, EmptySeq DEF FilesInOrder, FramesRead
  <2>2. traj[m] = (m - 1) * SaveInterval
    BY <1>1, <1>2, <1>3, <2>1
  <2>3. /\ FramesRead \in Seq([step : Nat, phase : {"production"}, mobile : {0}, framework : {0}])
        /\ Len(FramesRead) = m /\ FramesRead[m] = FrameOf(traj[m])
        /\ \A i \in 1..m : FramesRead[i] = FrameOf(traj[i])
    <3>1. \A i \in 1..m : traj[i] \in Nat
      BY <1>1, ElementOfSeq DEF Frames
    <3> QED BY <1>1, <2>1, <3>1 DEF FrameOf
  <2>4. FramesRead' = Append(FramesRead, FrameOf(item))
    <3>1. Append(FramesRead, FrameOf(item)) = [i \in 1..(m + 1) |->
              IF i = m + 1 THEN FrameOf(item) ELSE FramesRead[i]]
      <4> DEFINE S == [step : Nat, phase : {"production"}, mobile : {0}, framework : {0}]
                 e == FrameOf(item)
                 l == Len(FramesRead)
      <4>1. e \in S /\ FramesRead \in Seq(S) /\ l = m
        BY <1>1, <2>3 DEF FrameOf, Frames
      <4> HIDE DEF S, e
      <4>2. Append(FramesRead, e) = [i \in 1..(l + 1) |-> IF i = l + 1 THEN e ELSE FramesRead[i]]
        BY <4>1, AppendIsFunction
      <4> QED BY <4>1, <4>2 DEF e
    <3>2. \A i \in 1..(m + 1) : FrameOf(traj'[i])
              = IF i = m + 1 THEN FrameOf(item) ELSE FramesRead[i]
      BY <1>1, <1>4, <2>3
    <3> QED BY <1>5, <3>1, <3>2
  <2>5. /\ Read!OnGrid /\ FramesRead[Len(FramesRead)].step = (m - 1) * SaveInterval
    <3>1. ((m - 1) * SaveInterval) % SaveInterval = 0
      <4>1. m - 1 \in Nat
        BY <1>1, <2>1
      <4> HIDE DEF m
      <4> QED BY <1>1, <4>1, NoRemainder
    <3>2. FramesRead[Len(FramesRead)].step = (m - 1) * SaveInterval
      BY <2>2, <2>3 DEF FrameOf
    <3> QED BY <3>1, <3>2 DEF Read!OnGrid
  <2>6. StatusRead = "none" /\ StatusRead' = "none"
    <3>1. manifest.status \notin Causes
      BY <1>1 DEF Control, WriterStopped, Stopped
    <3> QED BY <1>1, <3>1 DEF StatusRead
  <2>7. Read!Running
    BY <2>6 DEF Read!Running
  <2>8. Len(FramesRead) < TotalSteps + 2
    <3>1. (m - 1) * SaveInterval <= TotalSteps
      <4>1. traj[m] \in Frames
        BY <1>1, <2>1, ElementOfSeq
      <4> QED BY <1>1, <2>2, <4>1 DEF Frames
    <3>2. \A x \in Nat, d \in Nat \ {0} : x <= x * d
      <4> SUFFICES ASSUME NEW x \in Nat, NEW d \in Nat \ {0} PROVE x <= x * d
        OBVIOUS
      <4>1. x * d = x + x * (d - 1) /\ x * (d - 1) \in Nat
        OBVIOUS
      <4> QED BY <4>1
    <3>3. m - 1 \in Nat
      BY <1>1, <2>1
    <3>4. m - 1 <= (m - 1) * SaveInterval
      <4> HIDE DEF m
      <4> QED BY <1>1, <3>2, <3>3
    <3> HIDE DEF m
    <3> QED BY <1>1, <2>3, <3>1, <3>3, <3>4
  <2>9. \A s \in Nat : Read!FrameAt(s, <<0, 0>>) = FrameOf(s)
    <3>1. FramesRead[Len(FramesRead)].mobile = 0 /\ FramesRead[Len(FramesRead)].framework = 0
      BY <2>3 DEF FrameOf
    <3>2. \A s \in Nat : Read!PhaseOf(s) = "production"
      BY DEF Read!PhaseOf
    <3> QED BY <3>1, <3>2 DEF Read!FrameAt, FrameOf
  <2>10. CASE item = m * SaveInterval
    <3>1. FramesRead' = Append(FramesRead, Read!FrameAt(Len(FramesRead) * SaveInterval, <<0, 0>>))
      <4>1. Len(FramesRead) * SaveInterval = item /\ item \in Nat
        BY <1>1, <2>3, <2>10 DEF Frames
      <4> QED BY <2>4, <2>9, <4>1
    <3> QED BY <2>5, <2>6, <2>7, <2>8, <3>1 DEF Read!SaveFrame
  <2>11. CASE item # m * SaveInterval
    <3>1. m + 1 = n
      <4>1. m + 1 \in 1..(n - 1) => item = (m + 1 - 1) * SaveInterval
        BY <1>2, <1>3
      <4> HIDE DEF m, n
      <4> QED BY <1>1, <1>2, <2>1, <2>11, <4>1
    <3>2. (m - 1) * SaveInterval < item /\ item < m * SaveInterval
      <4>1. n - 2 = m - 1 /\ n - 1 = m
        BY <1>1, <3>1
      <4>2. (m - 1) * SaveInterval < item /\ item <= m * SaveInterval
        BY <1>2, <1>3, <3>1, <4>1
      <4>3. item \in Int /\ m * SaveInterval \in Int
        BY <1>1 DEF Frames
      <4> HIDE DEF m, n
      <4> QED BY <2>11, <4>2, <4>3
    <3> DEFINE k == item - (m - 1) * SaveInterval
    <3>3. k \in 1..(SaveInterval - 1) /\ item = (m - 1) * SaveInterval + k
      <4>1. m * SaveInterval = (m - 1) * SaveInterval + SaveInterval
        BY <1>1
      <4>2. (m - 1) * SaveInterval \in Int /\ item \in Int
        BY <1>1 DEF Frames
      <4> HIDE DEF m
      <4> QED BY <1>1, <3>2, <4>1, <4>2
    <3> HIDE DEF k
    <3>4. FramesRead' = Append(FramesRead,
              Read!FrameAt(FramesRead[Len(FramesRead)].step + k, <<0, 0>>))
      <4>1. FramesRead[Len(FramesRead)].step + k = item /\ item \in Nat
        BY <1>1, <2>5, <3>3 DEF Frames
      <4> QED BY <2>4, <2>9, <4>1
    <3> QED BY <2>5, <2>6, <2>7, <2>8, <3>3, <3>4 DEF Read!SaveUnsafe
  <2> QED BY <2>10, <2>11
<1> QED BY <1>6, <1>7

\* What is published is how the run ends, and a run that completes is on the grid.
LEMMA StatusIsPublished ==
    ASSUME TypeOK, Control, OnSchedule, NothingDropped, Reported, Broken \/ Report \/ Complete
    PROVE  Read!EndRun \/ UNCHANGED <<FramesRead, StatusRead>>
<1>1. FramesRead' = FramesRead
  BY DEF Broken, Report, Complete, wVars, FramesRead
<1>2. ASSUME NEW s \in Causes, manifest'.status = s, s # "completed",
             \/ manifest.status \notin Causes
             \/ manifest.status = "failed" /\ s \in {"failed", "cancelled"}
      PROVE  Read!EndRun \/ UNCHANGED <<FramesRead, StatusRead>>
  <2>1. StatusRead' = s /\ s \in {"aborted", "cancelled", "failed"}
    BY <1>2 DEF StatusRead, Causes
  <2>2. CASE manifest.status \notin Causes
    <3>1. StatusRead = "none"
      BY <2>2 DEF StatusRead
    <3> QED BY <1>1, <2>1, <3>1 DEF Read!EndRun, Read!Ends
  <2>3. CASE manifest.status = "failed" /\ s \in {"failed", "cancelled"}
    <3>1. StatusRead = "failed"
      BY <2>3 DEF StatusRead, Causes
    <3> QED BY <1>1, <2>1, <2>3, <3>1 DEF Read!EndRun
  <2> QED BY <1>2, <2>2, <2>3
<1>3. CASE Broken
  BY <1>2, <1>3 DEF Broken, Publish, Reported, Causes
<1>4. CASE Report
  <2>1. cause \in Causes /\ cause # "completed" /\ manifest'.status = cause
    BY <1>4 DEF Report, Publish, TypeOK
  <2>2. \/ manifest.status \notin Causes
        \/ manifest.status = "failed" /\ cause \in {"failed", "cancelled"}
    BY <1>4 DEF Report, Reported
  <2> QED BY <1>2, <2>1, <2>2
<1>5. CASE Complete
  <2>1. traj = AllFrames
    BY <1>5, DrainedIsComplete DEF Complete
  <2>2. manifest.status \notin Causes
    BY <1>5 DEF Complete, Reported, Control, CauseKnown
  <2>3. StatusRead = "none" /\ StatusRead' = "completed"
    BY <1>5, <2>2 DEF Complete, Publish, StatusRead, Causes
  <2>4. Read!OnGrid
    <3> DEFINE q == TotalSteps \div SaveInterval
    <3>1. SaveInterval \in Nat \ {0} /\ TotalSteps \in Nat /\ q \in Nat
      BY MDAssumption
    <3>2. traj = [i \in 1..(q + 1) |-> (i - 1) * SaveInterval]
      BY <2>1 DEF AllFrames
    <3> HIDE DEF q
    <3>3. traj \in Seq(Frames) /\ Len(traj) = q + 1
      BY <3>1, <3>2, LenProperties DEF TypeOK
    <3>4. traj # <<>> /\ traj[q + 1] = q * SaveInterval
      BY <3>1, <3>2, <3>3
    <3>5. FramesRead = [i \in 1..(q + 1) |-> FrameOf(traj[i])]
      BY <3>3, <3>4 DEF FramesRead
    <3>6. Len(FramesRead) = q + 1 /\ FramesRead[q + 1].step = q * SaveInterval
      <4>1. FrameOf(traj[q + 1]).step = q * SaveInterval
        BY <3>4 DEF FrameOf
      <4>2. FramesRead \in Seq({FrameOf(traj[i]) : i \in 1..(q + 1)})
        BY <3>1, <3>5
      <4> QED BY <3>1, <3>5, <4>1, <4>2, LenProperties
    <3>7. (q * SaveInterval) % SaveInterval = 0
      BY <3>1, NoRemainder
    <3> QED BY <3>6, <3>7 DEF Read!OnGrid
  <2> QED BY <1>1, <2>3, <2>4 DEF Read!EndRun, Read!Ends
<1> QED BY <1>3, <1>4, <1>5

\* Every step saves a frame, ends the run, or is not seen in the files.
LEMMA ReadStep ==
    ASSUME IInv, Scheduled, FilesInOrder, Reported, [Next]_vars
    PROVE  [Read!TrajectoryNext]_(Read!trajectoryVars)
<1>1. CASE WriteFrame
  <2>1. UNCHANGED StatusRead
    BY <1>1 DEF WriteFrame, ends, StatusRead
  <2> QED BY <1>1, <2>1, FrameIsSaved DEF IInv, Read!TrajectoryNext, Read!trajectoryVars
<1>2. CASE Broken \/ Report \/ Complete
  BY <1>2, StatusIsPublished DEF IInv, Read!TrajectoryNext, Read!trajectoryVars
<1>3. CASE UNCHANGED <<traj, manifest>>
  BY <1>3 DEF FramesRead, StatusRead, Read!trajectoryVars
<1>4. CASE ~(WriteFrame \/ Broken \/ Report \/ Complete)
  BY <1>3, <1>4
  DEF Next, MDStep, WriterStep, Construct, EnterTry, Observe, ComputeFails, Compute,
      Submit, Put, PutFull, Advance, BeginClose, Seal, PutSentinel, SentinelFull, Join,
      CompleteFails, Return, Cancel, Upset, OpenFiles, Take, TakeSentinel, WriteRow,
      WriteText, WriterFails, CloseFiles, vars, wVars, ends
<1> QED BY <1>1, <1>2, <1>4

ReadInv == IInv /\ Scheduled /\ FilesInOrder /\ Reported

\* The files are always first frames of the run, in order and on its grid, and each
\* status is published in its turn.
LEMMA ReadInvariant == Spec => []ReadInv
<1>1. Init => Scheduled /\ FilesInOrder /\ Reported
  BY DEF Init, Scheduled, FilesInOrder, Reported, Causes
<1>2. IInv /\ Scheduled /\ FilesInOrder /\ Reported /\ [Next]_vars
        => Scheduled' /\ FilesInOrder' /\ Reported'
  BY ScheduledStep, FilesInOrderStep, ReportedStep DEF IInv
<1> QED BY <1>1, <1>2, InductiveInvariant, PTL DEF Spec, ReadInv

\* What MDRunner and AsyncMDOutputWriter leave in trajectory.traj and artifacts.json
\* is at every moment what TrajectoryData says of a run: frames on the grid but
\* perhaps the last, none after a status, and "completed" only on the grid.
THEOREM RunWritesATrajectory == Spec => Read!TrajectorySpec
<1>1. Init => Read!TrajectoryInit
  <2> SUFFICES ASSUME Init PROVE Read!TrajectoryInit
    OBVIOUS
  <2>1. FramesRead = <<FrameOf(0)>> /\ StatusRead = "none"
    BY DEF Init, FramesRead, StatusRead, Causes
  <2> QED BY <2>1 DEF Read!TrajectoryInit, FrameOf
<1>2. ReadInv /\ [Next]_vars => [Read!TrajectoryNext]_(Read!trajectoryVars)
  BY ReadStep DEF ReadInv
<1> QED BY <1>1, <1>2, ReadInvariant, PTL DEF Spec, Read!TrajectorySpec

\* The rows of md.csv are the steps of the frames of trajectory.traj, as far as they
\* go: the loader of an analysis takes the times of frames from them.
RowsTellSteps ==
    Len(csv) <= Len(traj) /\ \A i \in 1..Len(csv) : csv[i] = traj[i]

THEOREM RowsAreTrue == Spec => []RowsTellSteps
<1>1. ReadInv => RowsTellSteps
  BY DEF ReadInv, FilesInOrder, RowsTellSteps
<1> QED BY <1>1, ReadInvariant, PTL
===============================================================================
