-------------------------- MODULE ParallelSimProofs --------------------------
(***************************************************************************)
(* Proofs about ParallelSim, for every number of partitions, every end     *)
(* time and every set of partitions that may fail: IInv of ParallelSimInv  *)
(* is inductive, the correctness properties follow from it, and with it    *)
(* every step is one of LockStep.                                          *)
(***************************************************************************)
EXTENDS ParallelSimInv, FiniteSetTheorems, TLAPS

-----------------------------------------------------------------------------
(* Counting the raised flags.                                              *)

(* The partitions are finitely many: N.                                    *)
LEMMA PartFinite == IsFiniteSet(Part) /\ Cardinality(Part) = N
  BY ConstantsAssumption, FS_Interval DEF Part, ConstantsAssumption

(* A counter that has reached N has seen the flag of every partition.      *)
LEMMA FullCount ==
  ASSUME NEW S \in SUBSET Part, Cardinality(S) >= N
  PROVE  S = Part
  BY ConstantsAssumption, PartFinite, FS_Subset, FS_CardinalityType
     DEF ConstantsAssumption

(* Count adds one exactly when a flag is raised for the first time.         *)
LEMMA CountAdds ==
  ASSUME NEW S \in SUBSET Part, NEW p \in Part
  PROVE  Count(Cardinality(S), p, S) = Cardinality(S \cup {p})
<1>1. IsFiniteSet(S)
  BY PartFinite, FS_Subset
<1> QED
  BY <1>1, FS_AddElement, FS_CardinalityType DEF Count

-----------------------------------------------------------------------------
(* The initial states: every process is loading and no message is on its   *)
(* way, so nothing has to agree yet.                                       *)
LEMMA InitIInv == Init => IInv
<1> SUFFICES ASSUME Init PROVE IInv
  OBVIOUS
<1> USE DEF Init
<1>1. TypeOK
  BY DEF TypeOK, Waiting, Dead, Failure, Sockets
<1>2. OnePlace /\ MessagesFit /\ RepliesFit /\ VotesFit
  BY DEF OnePlace, MessagesFit, RepliesFit, VotesFit, Answered, ReplyDue
<1>3. Positions
  BY DEF Positions, Position
<1>4. CountersMatch
  BY FS_EmptySet DEF CountersMatch
<1>5. VerdictStands /\ Processes
  BY DEF VerdictStands, Processes
<1> QED
  BY <1>1, <1>2, <1>3, <1>4, <1>5 DEF IInv, SyncInv

-----------------------------------------------------------------------------
(* Every step keeps the types.                                             *)
LEMMA TypeStep == TypeOK /\ [Next]_vars => TypeOK'
<1> SUFFICES ASSUME TypeOK, [Next]_vars PROVE TypeOK'
  OBVIOUS
<1> USE DEF TypeOK, Waiting, Dead, Failure, Sockets
<1> USE DEF processes, partVars, sockets, flags, counters, progress, outcome, coordVars,
            waitVars
<1>1. ASSUME NEW p \in Part, Start(p) PROVE TypeOK'
  BY <1>1 DEF Start, Send, Running
<1>2. ASSUME NEW p \in Part, PassStartBarrier(p) PROVE TypeOK'
  BY <1>2 DEF PassStartBarrier, Receive, Running
<1>3. ASSUME NEW p \in Part, Step(p) PROVE TypeOK'
  BY <1>3 DEF Step, Send, Running, MaybeFinished
<1>4. ASSUME NEW p \in Part, PassStepBarrier(p) PROVE TypeOK'
  BY <1>4 DEF PassStepBarrier, Receive, Running
<1>5. ASSUME NEW p \in Part, LeaveLoop(p) PROVE TypeOK'
  BY <1>5 DEF LeaveLoop, Send, Running
<1>6. ASSUME NEW p \in Part, PassEndBarrier(p) PROVE TypeOK'
  BY <1>6 DEF PassEndBarrier, Running
<1>7. ASSUME NEW p \in Part, PassFinish(p) PROVE TypeOK'
  BY <1>7 DEF PassFinish, Receive, Running
<1>8. ASSUME NEW p \in Part, Exit(p) PROVE TypeOK'
  BY <1>8 DEF Exit, Running
<1>9. ASSUME NEW p \in Part, Fail(p) PROVE TypeOK'
  BY <1>9 DEF Fail, Running
<1>10. ASSUME NEW p \in Part, Throw(p) PROVE TypeOK'
  BY <1>10 DEF Throw, Running
<1>11. ASSUME NEW p \in Part, ReceiveBarrier(p) PROVE TypeOK'
  BY <1>11 DEF ReceiveBarrier, Take, Count
<1>12. ASSUME NEW p \in Part, ReceiveStep(p) PROVE TypeOK'
  BY <1>12 DEF ReceiveStep, Take, Count
<1>13. ASSUME NEW p \in Part, ReceiveFinished(p) PROVE TypeOK'
  BY <1>13 DEF ReceiveFinished, Take, Count
<1>14. ASSUME NEW p \in Part, ReplyBarrier(p) PROVE TypeOK'
  BY <1>14 DEF ReplyBarrier
<1>15. ASSUME NEW p \in Part, ReplyStep(p) PROVE TypeOK'
  BY <1>15 DEF ReplyStep
<1>16. ASSUME NEW p \in Part, ReapQuietly(p) PROVE TypeOK'
  BY <1>16 DEF ReapQuietly, Reapable
<1>17. ASSUME NEW p \in Part, ReapFailure(p) PROVE TypeOK'
  BY <1>17 DEF ReapFailure, Reapable
<1>18. ASSUME NEW p \in Part, Kill(p) PROVE TypeOK'
  BY <1>18 DEF Kill
<1>19. CASE Poll
  BY <1>19 DEF Poll, Pending
<1>20. CASE PollControl
  BY <1>20 DEF PollControl
<1>21. CASE AllStopped
  BY <1>21 DEF AllStopped, AllReceived
<1>22. CASE OpenBarrier
  BY <1>22 DEF OpenBarrier, AllReceived
<1>23. CASE BarrierNotFull
  BY <1>23 DEF BarrierNotFull, AllReceived
<1>24. CASE OpenStepBarrier
  BY <1>24 DEF OpenStepBarrier
<1>25. CASE StepNotFull
  BY <1>25 DEF StepNotFull
<1>26. CASE Join
  BY <1>26 DEF Join
<1>27. CASE SendControl
  BY <1>27 DEF SendControl
<1>28. CASE Over
  BY <1>28 DEF Over, vars
<1>29. CASE UNCHANGED vars
  BY <1>29 DEF vars
<1> QED
  BY <1>1, <1>2, <1>3, <1>4, <1>5, <1>6, <1>7, <1>8,
     <1>9, <1>10, <1>11, <1>12, <1>13, <1>14, <1>15, <1>16,
     <1>17, <1>18, <1>19, <1>20, <1>21, <1>22, <1>23, <1>24,
     <1>25, <1>26, <1>27, <1>28, <1>29
     DEF Next, PartitionNext, ErrorNext, CoordinatorNext, WaitNext

-----------------------------------------------------------------------------
(* A step that touches no clock, message, flag or counter, and neither     *)
(* begins nor ends a round of replies, keeps what these agree on.          *)
LEMMA SyncUntouched ==
  ASSUME SyncInv,
         UNCHANGED <<partVars, sockets, flags, counters, progress>>,
         \A p \in Part : \A round \in {"barrierReplies", "stepReplies"} :
           (cpc' = round /\ p \in todo') <=> (cpc = round /\ p \in todo)
  PROVE  SyncInv'
<1> USE DEF SyncInv, partVars, sockets, flags, counters, progress, ReplyDue, Answered
<1>1. OnePlace' /\ MessagesFit' /\ RepliesFit' /\ VotesFit'
  BY DEF OnePlace, MessagesFit, RepliesFit, VotesFit
<1>2. Positions'
  BY DEF Positions, Position
<1>3. CountersMatch' /\ VerdictStands'
  BY DEF CountersMatch, VerdictStands
<1> QED
  BY <1>1, <1>2, <1>3

(* Every step keeps what the sockets and the clocks agree on: one step per *)
(* action, and under it one per conjunct the action can disturb. Which     *)
(* barrier a message belongs to (OnePlace, MessagesFit, RepliesFit) is     *)
(* needed everywhere; the other conjuncts are cited where they are.        *)
LEMMA SyncStep == TypeOK /\ SyncInv /\ [Next]_vars => SyncInv'
<1> SUFFICES ASSUME TypeOK, SyncInv, [Next]_vars PROVE SyncInv'
  OBVIOUS
<1> USE DEF TypeOK, SyncInv, OnePlace, MessagesFit, RepliesFit, Answered, ReplyDue,
            Waiting
<1> USE DEF processes, partVars, sockets, flags, counters, progress, outcome, coordVars,
            waitVars
<1>1. ASSUME NEW p \in Part, Start(p) PROVE SyncInv'
  <2> USE <1>1 DEF Start, Send
  <2>1. OnePlace' /\ MessagesFit' /\ RepliesFit'
    OBVIOUS
  <2>2. VotesFit'
    BY DEF VotesFit
  <2>3. Positions'
    BY DEF Positions, Position, IsFinished
  <2>4. CountersMatch'
    BY DEF CountersMatch
  <2>5. VerdictStands'
    BY DEF VerdictStands
  <2> QED
    BY <2>1, <2>2, <2>3, <2>4, <2>5
<1>2. ASSUME NEW p \in Part, PassStartBarrier(p) PROVE SyncInv'
  <2> USE <1>2 DEF PassStartBarrier, Receive
  <2>1. OnePlace' /\ MessagesFit' /\ RepliesFit'
    OBVIOUS
  <2>2. VotesFit'
    BY DEF VotesFit
  <2>3. Positions'
    BY DEF Positions, Position, IsFinished
  <2>4. CountersMatch'
    BY DEF CountersMatch
  <2>5. VerdictStands'
    BY DEF VerdictStands
  <2> QED
    BY <2>1, <2>2, <2>3, <2>4, <2>5
<1>3. ASSUME NEW p \in Part, Step(p) PROVE SyncInv'
  <2> USE <1>3 DEF Step, Send, MaybeFinished
  <2>1. OnePlace' /\ MessagesFit' /\ RepliesFit'
    OBVIOUS
  <2>2. VotesFit'
    BY DEF VotesFit
  <2>3. Positions'
    BY DEF Positions, Position, IsFinished
  <2>4. CountersMatch'
    BY DEF CountersMatch
  <2>5. EndTime < 0 => ~allEmpty
    BY ConstantsAssumption DEF ConstantsAssumption, Positions, Position, IsFinished
  <2>6. VerdictStands'
    BY <2>5 DEF VerdictStands
  <2> QED
    BY <2>1, <2>2, <2>3, <2>4, <2>6
<1>4. ASSUME NEW p \in Part, PassStepBarrier(p) PROVE SyncInv'
  <2> USE <1>4 DEF PassStepBarrier, Receive
  <2>1. OnePlace' /\ MessagesFit' /\ RepliesFit'
    OBVIOUS
  <2>2. VotesFit'
    BY DEF VotesFit
  <2>3. Positions'
    BY DEF Positions, Position, IsFinished, VotesFit
  <2>4. CountersMatch'
    BY DEF CountersMatch
  <2>5. VerdictStands'
    BY DEF VerdictStands
  <2> QED
    BY <2>1, <2>2, <2>3, <2>4, <2>5
<1>5. ASSUME NEW p \in Part, LeaveLoop(p) PROVE SyncInv'
  <2> USE <1>5 DEF LeaveLoop, Send
  <2>1. OnePlace' /\ MessagesFit' /\ RepliesFit'
    OBVIOUS
  <2>2. VotesFit'
    BY DEF VotesFit
  <2>3. Positions'
    BY DEF Positions, Position, IsFinished
  <2>4. CountersMatch'
    BY DEF CountersMatch
  <2>5. VerdictStands'
    BY DEF VerdictStands
  <2> QED
    BY <2>1, <2>2, <2>3, <2>4, <2>5
<1>6. ASSUME NEW p \in Part, PassEndBarrier(p) PROVE SyncInv'
  <2> USE <1>6 DEF PassEndBarrier
  <2>1. OnePlace' /\ MessagesFit' /\ RepliesFit'
    OBVIOUS
  <2>2. VotesFit'
    BY DEF VotesFit
  <2>3. Positions'
    BY DEF Positions, Position, IsFinished
  <2>4. CountersMatch'
    BY DEF CountersMatch
  <2>5. VerdictStands'
    BY DEF VerdictStands
  <2> QED
    BY <2>1, <2>2, <2>3, <2>4, <2>5
<1>7. ASSUME NEW p \in Part, PassFinish(p) PROVE SyncInv'
  <2> USE <1>7 DEF PassFinish, Receive
  <2>1. OnePlace' /\ MessagesFit' /\ RepliesFit'
    OBVIOUS
  <2>2. VotesFit'
    BY DEF VotesFit
  <2>3. Positions'
    BY DEF Positions, Position, IsFinished
  <2>4. CountersMatch'
    BY DEF CountersMatch
  <2>5. VerdictStands'
    BY DEF VerdictStands
  <2> QED
    BY <2>1, <2>2, <2>3, <2>4, <2>5
<1>8. ASSUME NEW p \in Part, Exit(p) PROVE SyncInv'
  BY <1>8, SyncUntouched DEF Exit
<1>9. ASSUME NEW p \in Part, Fail(p) PROVE SyncInv'
  <2> USE <1>9 DEF Fail
  <2>1. OnePlace' /\ MessagesFit' /\ RepliesFit'
    OBVIOUS
  <2>2. VotesFit'
    BY DEF VotesFit
  <2>3. Positions'
    BY DEF Positions, Position, IsFinished
  <2>4. CountersMatch'
    BY DEF CountersMatch
  <2>5. VerdictStands'
    BY DEF VerdictStands
  <2> QED
    BY <2>1, <2>2, <2>3, <2>4, <2>5
<1>10. ASSUME NEW p \in Part, Throw(p) PROVE SyncInv'
  <2> USE <1>10 DEF Throw
  <2>1. OnePlace' /\ MessagesFit' /\ RepliesFit'
    OBVIOUS
  <2>2. VotesFit'
    BY DEF VotesFit
  <2>3. Positions'
    BY DEF Positions, Position, IsFinished
  <2>4. CountersMatch'
    BY DEF CountersMatch
  <2>5. VerdictStands'
    BY DEF VerdictStands
  <2> QED
    BY <2>1, <2>2, <2>3, <2>4, <2>5
<1>11. ASSUME NEW p \in Part, ReceiveBarrier(p) PROVE SyncInv'
  <2> USE <1>11 DEF ReceiveBarrier, Take
  <2>1. OnePlace' /\ MessagesFit' /\ RepliesFit'
    OBVIOUS
  <2>2. VotesFit'
    BY DEF VotesFit
  <2>3. Positions'
    BY DEF Positions, Position, IsFinished
  <2>4. CountersMatch'
    BY CountAdds DEF CountersMatch
  <2>5. VerdictStands'
    BY DEF VerdictStands
  <2> QED
    BY <2>1, <2>2, <2>3, <2>4, <2>5
<1>12. ASSUME NEW p \in Part, ReceiveStep(p) PROVE SyncInv'
  <2> USE <1>12 DEF ReceiveStep, Take
  <2>1. OnePlace' /\ MessagesFit' /\ RepliesFit'
    OBVIOUS
  <2>2. VotesFit'
    BY DEF VotesFit
  <2>3. Positions'
    BY DEF Positions, Position, IsFinished
  <2>4. CountersMatch'
    BY CountAdds DEF CountersMatch
  <2>5. VerdictStands'
    BY DEF VerdictStands
  <2> QED
    BY <2>1, <2>2, <2>3, <2>4, <2>5
<1>13. ASSUME NEW p \in Part, ReceiveFinished(p) PROVE SyncInv'
  <2> USE <1>13 DEF ReceiveFinished, Take
  <2>1. OnePlace' /\ MessagesFit' /\ RepliesFit'
    OBVIOUS
  <2>2. VotesFit'
    BY DEF VotesFit
  <2>3. Positions'
    BY DEF Positions, Position, IsFinished
  <2>4. CountersMatch'
    BY CountAdds DEF CountersMatch
  <2>5. VerdictStands'
    BY DEF VerdictStands
  <2> QED
    BY <2>1, <2>2, <2>3, <2>4, <2>5
<1>14. ASSUME NEW p \in Part, ReplyBarrier(p) PROVE SyncInv'
  <2> USE <1>14 DEF ReplyBarrier, First
  <2>1. OnePlace' /\ MessagesFit' /\ RepliesFit'
    OBVIOUS
  <2>2. VotesFit'
    BY DEF VotesFit
  <2>3. Positions'
    BY DEF Positions, Position, IsFinished
  <2>4. CountersMatch'
    BY DEF CountersMatch
  <2>5. VerdictStands'
    BY DEF VerdictStands
  <2> QED
    BY <2>1, <2>2, <2>3, <2>4, <2>5
<1>15. ASSUME NEW p \in Part, ReplyStep(p) PROVE SyncInv'
  <2> USE <1>15 DEF ReplyStep, First
  <2>1. OnePlace' /\ MessagesFit' /\ RepliesFit'
    OBVIOUS
  <2>2. VotesFit'
    BY DEF VotesFit
  <2>3. Positions'
    BY DEF Positions, Position, IsFinished
  <2>4. CountersMatch'
    BY DEF CountersMatch
  <2>5. VerdictStands'
    BY DEF VerdictStands
  <2> QED
    BY <2>1, <2>2, <2>3, <2>4, <2>5
<1>16. CASE Poll
  BY <1>16, SyncUntouched DEF Poll
<1>17. CASE PollControl
  BY <1>17, SyncUntouched DEF PollControl
<1>18. CASE AllStopped
  <2> USE <1>18 DEF AllStopped, AllReceived
  <2>1. stopped = Part
    BY FullCount DEF CountersMatch
  <2>2. OnePlace' /\ MessagesFit' /\ RepliesFit'
    BY <2>1
  <2>3. VotesFit'
    BY <2>1 DEF VotesFit
  <2>4. Positions'
    BY <2>1 DEF Positions, Position, IsFinished
  <2>5. CountersMatch'
    BY DEF CountersMatch
  <2>6. VerdictStands'
    BY DEF VerdictStands
  <2> QED
    BY <2>2, <2>3, <2>4, <2>5, <2>6
<1>19. CASE OpenBarrier
  <2> USE <1>19 DEF OpenBarrier, AllReceived
  <2>1. atBarrier = Part
    BY FullCount DEF CountersMatch
  <2>2. OnePlace' /\ MessagesFit' /\ RepliesFit'
    BY <2>1
  <2>3. VotesFit'
    BY <2>1 DEF VotesFit
  <2>4. Positions'
    BY <2>1 DEF Positions, Position, IsFinished
  <2>5. CountersMatch'
    BY FS_EmptySet DEF CountersMatch
  <2>6. VerdictStands'
    BY DEF VerdictStands
  <2> QED
    BY <2>2, <2>3, <2>4, <2>5, <2>6
<1>20. CASE BarrierNotFull
  BY <1>20, SyncUntouched DEF BarrierNotFull, AllReceived
<1>21. CASE OpenStepBarrier
  <2> USE <1>21 DEF OpenStepBarrier
  <2>1. atStep = Part
    BY FullCount DEF CountersMatch
  <2>2. OnePlace' /\ MessagesFit' /\ RepliesFit'
    BY <2>1
  <2>3. VotesFit'
    BY <2>1 DEF VotesFit
  <2>4. Positions'
    BY <2>1 DEF Positions, Position, IsFinished
  <2>5. CountersMatch'
    BY FS_EmptySet DEF CountersMatch
  <2>6. VerdictStands'
    BY <2>1 DEF VerdictStands, VotesFit, Positions, Position
  <2> QED
    BY <2>2, <2>3, <2>4, <2>5, <2>6
<1>22. CASE StepNotFull
  BY <1>22, SyncUntouched DEF StepNotFull
<1>23. CASE Join
  BY <1>23, SyncUntouched DEF Join
<1>24. ASSUME NEW p \in Part, ReapQuietly(p) PROVE SyncInv'
  BY <1>24, SyncUntouched DEF ReapQuietly
<1>25. ASSUME NEW p \in Part, ReapFailure(p) PROVE SyncInv'
  BY <1>25, SyncUntouched DEF ReapFailure
<1>26. ASSUME NEW p \in Part, Kill(p) PROVE SyncInv'
  BY <1>26, SyncUntouched DEF Kill
<1>27. CASE SendControl
  BY <1>27, SyncUntouched DEF SendControl
<1>28. CASE Over
  BY <1>28, SyncUntouched DEF Over, vars
<1>29. CASE UNCHANGED vars
  BY <1>29, SyncUntouched DEF vars
<1> QED
  BY <1>1, <1>2, <1>3, <1>4, <1>5, <1>6, <1>7, <1>8,
     <1>9, <1>10, <1>11, <1>12, <1>13, <1>14, <1>15, <1>16,
     <1>17, <1>18, <1>19, <1>20, <1>21, <1>22, <1>23, <1>24,
     <1>25, <1>26, <1>27, <1>28, <1>29
     DEF Next, PartitionNext, ErrorNext, CoordinatorNext, WaitNext

-----------------------------------------------------------------------------
(* Every step keeps the account of who is still running, who has been      *)
(* reaped and who is still to be killed.                                   *)
LEMMA ProcessesStep ==
  TypeOK /\ SyncInv /\ Processes /\ [Next]_vars => Processes'
<1> SUFFICES ASSUME TypeOK, SyncInv, Processes, [Next]_vars PROVE Processes'
  OBVIOUS
<1> USE DEF TypeOK, SyncInv, Processes
<1> USE DEF processes, partVars, sockets, flags, counters, progress, outcome, coordVars,
            waitVars
<1>1. ASSUME NEW p \in Part, Start(p) PROVE Processes'
  BY <1>1 DEF Start, Send, Running
<1>2. ASSUME NEW p \in Part, PassStartBarrier(p) PROVE Processes'
  BY <1>2 DEF PassStartBarrier, Receive, Running
<1>3. ASSUME NEW p \in Part, Step(p) PROVE Processes'
  BY <1>3 DEF Step, Send, Running
<1>4. ASSUME NEW p \in Part, PassStepBarrier(p) PROVE Processes'
  BY <1>4 DEF PassStepBarrier, Receive, Running
<1>5. ASSUME NEW p \in Part, LeaveLoop(p) PROVE Processes'
  BY <1>5 DEF LeaveLoop, Send, Running
<1>6. ASSUME NEW p \in Part, PassEndBarrier(p) PROVE Processes'
  BY <1>6 DEF PassEndBarrier, Running
<1>7. ASSUME NEW p \in Part, PassFinish(p) PROVE Processes'
  BY <1>7 DEF PassFinish, Receive, Running
<1>8. ASSUME NEW p \in Part, Exit(p) PROVE Processes'
  BY <1>8 DEF Exit, Running, Dead
<1>9. ASSUME NEW p \in Part, Fail(p) PROVE Processes'
  BY <1>9 DEF Fail, Running, Dead
<1>10. ASSUME NEW p \in Part, Throw(p) PROVE Processes'
  BY <1>10 DEF Throw, Running, Dead
<1>11. ASSUME NEW p \in Part, ReceiveBarrier(p) PROVE Processes'
  BY <1>11 DEF ReceiveBarrier, Take
<1>12. ASSUME NEW p \in Part, ReceiveStep(p) PROVE Processes'
  BY <1>12 DEF ReceiveStep, Take
<1>13. ASSUME NEW p \in Part, ReceiveFinished(p) PROVE Processes'
  BY <1>13 DEF ReceiveFinished, Take
<1>14. ASSUME NEW p \in Part, ReplyBarrier(p) PROVE Processes'
  BY <1>14 DEF ReplyBarrier
<1>15. ASSUME NEW p \in Part, ReplyStep(p) PROVE Processes'
  BY <1>15 DEF ReplyStep
<1>16. ASSUME NEW p \in Part, ReapQuietly(p) PROVE Processes'
  BY <1>16 DEF ReapQuietly, Reapable, Dead
<1>17. ASSUME NEW p \in Part, ReapFailure(p) PROVE Processes'
  BY <1>17 DEF ReapFailure, Reapable, Dead
<1>18. ASSUME NEW p \in Part, Kill(p) PROVE Processes'
  BY <1>18 DEF Kill, Dead
<1>19. CASE Poll
  BY <1>19 DEF Poll, Pending
<1>20. CASE PollControl
  BY <1>20 DEF PollControl
<1>21. CASE AllStopped
  BY <1>21, FullCount DEF AllStopped, AllReceived, CountersMatch
<1>22. CASE OpenBarrier
  BY <1>22 DEF OpenBarrier, AllReceived
<1>23. CASE BarrierNotFull
  BY <1>23 DEF BarrierNotFull, AllReceived
<1>24. CASE OpenStepBarrier
  BY <1>24 DEF OpenStepBarrier
<1>25. CASE StepNotFull
  BY <1>25 DEF StepNotFull
<1>26. CASE Join
  BY <1>26 DEF Join
<1>27. CASE SendControl
  BY <1>27 DEF SendControl, Dead, Failure
<1>28. CASE Over
  BY <1>28 DEF Over, vars
<1>29. CASE UNCHANGED vars
  BY <1>29 DEF vars
<1> QED
  BY <1>1, <1>2, <1>3, <1>4, <1>5, <1>6, <1>7, <1>8,
     <1>9, <1>10, <1>11, <1>12, <1>13, <1>14, <1>15, <1>16,
     <1>17, <1>18, <1>19, <1>20, <1>21, <1>22, <1>23, <1>24,
     <1>25, <1>26, <1>27, <1>28, <1>29
     DEF Next, PartitionNext, ErrorNext, CoordinatorNext, WaitNext

-----------------------------------------------------------------------------
(* The properties.                                                         *)

(* IInv is an invariant of every run of the program, failures included.    *)
THEOREM Invariance == Spec => []IInv
<1>1. IInv /\ [Next]_vars => IInv'
  BY TypeStep, SyncStep, ProcessesStep DEF IInv
<1> QED
  BY InitIInv, <1>1, PTL DEF Spec

(* Types: every variable of the run keeps to its values.                   *)
THEOREM Typing == Spec => []TypeOK
<1>1. IInv => TypeOK
  BY DEF IInv
<1> QED
  BY Invariance, <1>1, PTL

(* The clocks of the partitions never drift apart by more than a step, and *)
(* a partition that is ahead is held at the step barrier.                  *)
THEOREM Synchronized == Spec => []StepsSynchronized
<1>1. IInv => StepsSynchronized
  <2> SUFFICES ASSUME IInv PROVE StepsSynchronized
    OBVIOUS
  <2>1. ASSUME NEW p \in Part
        PROVE  \/ simTime[p] = steps
               \/ /\ simTime[p] = steps + 1
                  /\ pc[p] = "stepBarrier" /\ rep[p] = "none"
    BY DEF IInv, SyncInv, Positions, Position, Answered
  <2> QED
    BY <2>1 DEF StepsSynchronized, IInv, TypeOK
<1> QED
  BY Invariance, <1>1, PTL

(* When one partition has left the loop, every other stands at the same    *)
(* time and will leave it too.                                             *)
THEOREM SameEnd == Spec => []EndAgreed
<1>1. IInv => EndAgreed
  <2> SUFFICES ASSUME IInv, NEW p \in Part, NEW q \in Part, pc[p] \in AfterLoop
               PROVE  /\ simTime[q] = simTime[p]
                      /\ pc[q] = "loop" => IsFinished(simTime[q], finished[q])
    BY DEF EndAgreed
  <2>1. /\ simTime[p] = steps
        /\ syncBarrierTimes # 0
        /\ IsFinished(steps, allEmpty)
    BY DEF IInv, SyncInv, Positions, Position, AfterLoop
  <2> QED
    BY <2>1 DEF IInv, TypeOK, Waiting, SyncInv, Positions, Position
<1> QED
  BY Invariance, <1>1, PTL

(* The handlers a partition may call are up, at the start and at the end.  *)
THEOREM HandlersUp == Spec => []ServersUp
<1>1. IInv => ServersUp
  <2> SUFFICES ASSUME IInv, NEW p \in Part, NEW q \in Part,
                      pc[p] \in {"loop", "stepBarrier"}
               PROVE  pc[q] \notin {"loading", "finishing", "closing"}
    BY DEF ServersUp
  <2>1. syncBarrierTimes = 1
    BY DEF IInv, SyncInv, Positions, Position
  <2> QED
    BY <2>1 DEF IInv, SyncInv, Positions, Position
<1> QED
  BY Invariance, <1>1, PTL

(* No partition is ever woken by an answer to something else.              *)
THEOREM FittingReplies == Spec => []RepliesFit
<1>1. IInv => RepliesFit
  BY DEF IInv, SyncInv
<1> QED
  BY Invariance, <1>1, PTL

(* Without an end time, the run ends on a unanimous report, after the last *)
(* departure of every partition.                                           *)
THEOREM EndsWhenEmpty == Spec => []NoEarlyEnd
<1>1. IInv => NoEarlyEnd
  <2> SUFFICES ASSUME IInv, NEW p \in Part, NEW q \in Part,
                      EndTime < 0, pc[p] \in AfterLoop
               PROVE  maybeFinished[q] /\ simTime[p] > LastDepart[q] + 1
    BY DEF NoEarlyEnd
  <2>1. simTime[p] = steps /\ IsFinished(steps, allEmpty)
    BY DEF IInv, SyncInv, Positions, Position, AfterLoop
  <2>2. allEmpty
    BY <2>1, ConstantsAssumption DEF IsFinished, ConstantsAssumption
  <2>3. maybeFinished[q] /\ simTime[q] = steps
    BY <2>2 DEF IInv, SyncInv, VerdictStands
  <2> QED
    BY <2>1, <2>3 DEF IInv, SyncInv, VotesFit
<1> QED
  BY Invariance, <1>1, PTL

(* A failure is reported only when no partition process runs any more.     *)
THEOREM NoSurvivors == Spec => []FailureKillsAll
<1>1. IInv => FailureKillsAll
  BY DEF IInv, Processes, FailureKillsAll
<1> QED
  BY Invariance, <1>1, PTL

(* The coordinator exits alone, and with 0 only after complete runs.       *)
THEOREM ExitIsClean == Spec => []CleanExit
<1>1. IInv => CleanExit
  <2> SUFFICES ASSUME IInv, cpc = "exit" PROVE CleanExit
    BY DEF CleanExit
  <2>1. \A p \in Part : proc[p] \in Dead
    BY DEF IInv, Processes
  <2>2. ASSUME finishStatus = 0, NEW p \in Part
        PROVE  /\ pc[p] \in {"finishing", "closing"}
               /\ IsFinished(simTime[p], finished[p])
    <3>1. p \in stopped
      BY <2>2 DEF IInv, Processes
    <3>2. pc[p] \in {"finishing", "closing"}
      BY <3>1 DEF IInv, SyncInv, MessagesFit
    <3> QED
      BY <3>2 DEF IInv, SyncInv, Positions, Position
  <2> QED
    BY <2>1, <2>2 DEF CleanExit
<1> QED
  BY Invariance, <1>1, PTL

-----------------------------------------------------------------------------
(* ParallelSim implements LockStep: every step of a run, also one in which *)
(* partitions fail, arrives at a barrier, opens it, crosses it, or leaves  *)
(* the barriers as they are.                                               *)


(* Nobody has crossed, nobody waits and nothing has opened.                *)
LEMMA RefinesInit == Init => LS!Init
  BY DEF Init, LS!Init, WaitsAt, Crossed

(* A step that touches no clock, program counter, vote or verdict.         *)
LEMMA BarriersUntouched ==
  ASSUME UNCHANGED <<partVars, progress>>
  PROVE  UNCHANGED LS!vars
  BY DEF LS!vars, partVars, progress, WaitsAt, Crossed

(* The move of p alone, as the functions of the mapping see it.            *)
LEMMA Crosses ==
  ASSUME NEW p \in Part, TypeOK,
         WaitsAt(p) # "none", Crossed(p) < syncBarrierTimes + steps,
         \A q \in Part \ {p} : WaitsAt(q)' = WaitsAt(q) /\ Crossed(q)' = Crossed(q),
         WaitsAt(p)' = "none", Crossed(p)' = Crossed(p) + 1,
         finished' = IF WaitsAt(p) = "step" THEN [finished EXCEPT ![p] = allEmpty]
                     ELSE finished,
         UNCHANGED <<maybeFinished, progress>>
  PROVE  LS!Cross(p)
<1>1. [q \in Part |-> WaitsAt(q)]' = [[q \in Part |-> WaitsAt(q)] EXCEPT ![p] = "none"]
  OBVIOUS
<1>2. [q \in Part |-> Crossed(q)]'
        = [[q \in Part |-> Crossed(q)] EXCEPT ![p] = @ + 1]
  OBVIOUS
<1> QED
  BY <1>1, <1>2 DEF LS!Cross, progress

(* Every step of the run is a step of LockStep or leaves its view alone:    *)
(* one step per action, or per group of actions that leave it alone.       *)
LEMMA RefinesNext == IInv /\ [Next]_vars => [LS!Next]_(LS!vars)
<1> SUFFICES ASSUME IInv, [Next]_vars PROVE [LS!Next]_(LS!vars)
  OBVIOUS
<1> USE DEF partVars, progress, coordVars
<1>0. TypeOK /\ Positions /\ OnePlace /\ MessagesFit
  BY DEF IInv, SyncInv
<1>1. ASSUME NEW p \in Part, Start(p) PROVE LS!ArriveAtBarrier(p)
  BY <1>0, <1>1 DEF Start, LS!ArriveAtBarrier, WaitsAt, Crossed, TypeOK
<1>2. ASSUME NEW p \in Part, PassStartBarrier(p) PROVE LS!Cross(p)
  <2> USE <1>0, <1>2 DEF PassStartBarrier, Receive, TypeOK
  <2>1. WaitsAt(p) # "none" /\ Crossed(p) < syncBarrierTimes + steps
    BY DEF Positions, Position, Answered, WaitsAt, Crossed
  <2>2. /\ \A q \in Part \ {p} : WaitsAt(q)' = WaitsAt(q) /\ Crossed(q)' = Crossed(q)
        /\ WaitsAt(p)' = "none" /\ Crossed(p)' = Crossed(p) + 1
    BY DEF Positions, Position, WaitsAt, Crossed
  <2>3. finished' = IF WaitsAt(p) = "step" THEN [finished EXCEPT ![p] = allEmpty]
                    ELSE finished
    BY DEF WaitsAt
  <2> QED
    BY <2>1, <2>2, <2>3, Crosses
<1>3. ASSUME NEW p \in Part, Step(p)
      PROVE  \E v \in BOOLEAN : LS!ArriveAtStep(p, v)
  <2>1. PICK v \in MaybeFinished(p, simTime[p] + 1) :
          maybeFinished' = [maybeFinished EXCEPT ![p] = v]
    BY <1>3 DEF Step
  <2>2. \A q \in Part : /\ WaitsAt(q)' = IF q = p THEN "step" ELSE WaitsAt(q)
                        /\ Crossed(q)' = Crossed(q)
    BY <1>0, <1>3 DEF Step, WaitsAt, Crossed, TypeOK
  <2>3. [q \in Part |-> WaitsAt(q)]'
          = [[q \in Part |-> WaitsAt(q)] EXCEPT ![p] = "step"]
    BY <2>2
  <2>4. [q \in Part |-> Crossed(q)]' = [q \in Part |-> Crossed(q)]
    BY <2>2
  <2>5. WaitsAt(p) = "none"
    BY <1>3 DEF Step, WaitsAt
  <2>6. LS!ArriveAtStep(p, v)
    BY <1>3, <2>1, <2>3, <2>4, <2>5 DEF Step, LS!ArriveAtStep
  <2> QED
    BY <2>1, <2>6 DEF MaybeFinished
<1>4. ASSUME NEW p \in Part, PassStepBarrier(p) PROVE LS!Cross(p)
  <2> USE <1>0, <1>4 DEF PassStepBarrier, Receive, TypeOK
  <2>1. WaitsAt(p) # "none" /\ Crossed(p) < syncBarrierTimes + steps
    BY DEF Positions, Position, Answered, WaitsAt, Crossed
  <2>2. /\ \A q \in Part \ {p} : WaitsAt(q)' = WaitsAt(q) /\ Crossed(q)' = Crossed(q)
        /\ WaitsAt(p)' = "none" /\ Crossed(p)' = Crossed(p) + 1
    BY DEF WaitsAt, Crossed
  <2>3. finished' = IF WaitsAt(p) = "step" THEN [finished EXCEPT ![p] = allEmpty]
                    ELSE finished
    BY DEF WaitsAt, IInv, SyncInv, RepliesFit, VotesFit
  <2> QED
    BY <2>1, <2>2, <2>3, Crosses
<1>5. ASSUME NEW p \in Part, LeaveLoop(p) PROVE LS!ArriveAtBarrier(p)
  BY <1>0, <1>5 DEF LeaveLoop, LS!ArriveAtBarrier, WaitsAt, Crossed, TypeOK
<1>6. ASSUME NEW p \in Part, PassEndBarrier(p) PROVE LS!Cross(p)
  <2> USE <1>0, <1>6 DEF PassEndBarrier, TypeOK
  <2>1. WaitsAt(p) # "none" /\ Crossed(p) < syncBarrierTimes + steps
    BY DEF Positions, Position, Answered, WaitsAt, Crossed
  <2>2. /\ \A q \in Part \ {p} : WaitsAt(q)' = WaitsAt(q) /\ Crossed(q)' = Crossed(q)
        /\ WaitsAt(p)' = "none" /\ Crossed(p)' = Crossed(p) + 1
    BY DEF WaitsAt, Crossed
  <2>3. finished' = IF WaitsAt(p) = "step" THEN [finished EXCEPT ![p] = allEmpty]
                    ELSE finished
    BY DEF WaitsAt
  <2> QED
    BY <2>1, <2>2, <2>3, Crosses
<1>7. ASSUME NEW p \in Part, PassFinish(p) \/ Throw(p) PROVE UNCHANGED LS!vars
  BY <1>0, <1>7 DEF PassFinish, Throw, LS!vars, WaitsAt, Crossed, TypeOK
<1>8. CASE OpenBarrier
  <2>1. atBarrier = Part
    BY <1>8, FullCount DEF OpenBarrier, IInv, SyncInv, CountersMatch, TypeOK
  <2>2. ASSUME NEW p \in Part
        PROVE  WaitsAt(p) = "barrier" /\ Crossed(p) = syncBarrierTimes + steps
    BY <1>0, <2>1 DEF OnePlace, MessagesFit, Positions, Position, WaitsAt, Crossed,
                      TypeOK
  <2> QED
    BY <1>0, <1>8, <2>2 DEF OpenBarrier, LS!Next, LS!OpenBarrier, LS!AllWaitAt,
                            WaitsAt, Crossed, TypeOK
<1>9. CASE OpenStepBarrier
  <2>1. atStep = Part
    BY <1>9, FullCount DEF OpenStepBarrier, IInv, SyncInv, CountersMatch, TypeOK
  <2>2. ASSUME NEW p \in Part
        PROVE  /\ WaitsAt(p) = "step" /\ Crossed(p) = syncBarrierTimes + steps
               /\ p \in empty <=> maybeFinished[p]
    BY <1>0, <2>1 DEF OnePlace, MessagesFit, Positions, Position, WaitsAt, Crossed,
                      TypeOK, IInv, SyncInv, VotesFit
  <2> QED
    BY <1>0, <1>9, <2>2 DEF OpenStepBarrier, LS!Next, LS!OpenStep, LS!AllWaitAt,
                            WaitsAt, Crossed, TypeOK
<1>10. ASSUME NEW p \in Part, Exit(p) \/ Fail(p) PROVE UNCHANGED LS!vars
  BY <1>10, BarriersUntouched DEF Exit, Fail
<1>11. ASSUME NEW p \in Part,
              ReceiveBarrier(p) \/ ReceiveStep(p) \/ ReceiveFinished(p)
       PROVE  UNCHANGED LS!vars
  BY <1>11, BarriersUntouched DEF ReceiveBarrier, ReceiveStep, ReceiveFinished, Take
<1>12. ASSUME NEW p \in Part, ReplyBarrier(p) \/ ReplyStep(p)
       PROVE  UNCHANGED LS!vars
  BY <1>12, BarriersUntouched DEF ReplyBarrier, ReplyStep
<1>13. CASE Poll \/ PollControl \/ AllStopped \/ BarrierNotFull \/ StepNotFull \/ Join
  BY <1>13, BarriersUntouched
     DEF Poll, PollControl, AllStopped, BarrierNotFull, StepNotFull, Join
<1>14. CASE WaitNext
  BY <1>14, BarriersUntouched DEF WaitNext, ReapQuietly, ReapFailure, Kill, SendControl
<1>15. CASE Over \/ UNCHANGED vars
  BY <1>15, BarriersUntouched DEF Over, vars
<1> QED
  BY <1>1, <1>2, <1>3, <1>4, <1>5, <1>6, <1>7, <1>8, <1>9, <1>10, <1>11, <1>12,
     <1>13, <1>14, <1>15
     DEF Next, PartitionNext, ErrorNext, CoordinatorNext, LS!Next

(* The sync sockets, flags and counters implement the abstract barriers.   *)
THEOREM Refinement == Spec => ImplementsLockStep
<1> QED
  BY RefinesInit, RefinesNext, Invariance, PTL DEF Spec, ImplementsLockStep, LS!Spec
=============================================================================
