-------------------------- MODULE HordeWorker_proofs --------------------------
(***************************************************************************)
(* Proofs about HordeWorker, for any jobs, places in the server, local     *)
(* clients and limits.                                                     *)
(***************************************************************************)
EXTENDS HordeWorker, TLAPS

USE DEF serverVars, worldVars, jobVars, requestVars, countVars

\* In one round of the loop, from its beginning to the reply.
Round == {"punished", "free", "unused", "pop", "try", "post", "reply"}
Working == {"try", "post", "reply", "submit"}

\* What the round has established: no text is in hand until one is answered,
\* there is a job while it is worked on, and its failures are within bounds.
InHand ==
    /\ at \in Round => current_generation = NoJob /\ currentjob_attempts <= Tries
    /\ at \in Working => current_id \in Jobs
    /\ at = "submit" => current_generation \in {NoJob, current_id}
    /\ at = "punished" => /\ exitcounter < ExitLimit \/ exitcounter = Closing
                         /\ punishcounter >= PunishLimit

\* The reply the worker waits for is to the request about the job in hand, and
\* that request has not been answered before.
AwaitsOwn ==
    /\ at = "reply" => /\ pending \in Posts
                       /\ asked[pending] = current_id
                       /\ pending \notin answered
    /\ \A r \in answered : phase[r] = "granted"

HordeInv == TypeOK /\ InHand /\ AwaitsOwn /\ AnswersItsJob

USE WorkerAssumption DEF HordeInv, TypeOK, InHand, AwaitsOwn, AnswersItsJob,
    Round, Working, Ended, Server!Phases

LEMMA InitInv == Init => HordeInv
BY DEF Init, Server!Init, Enough

\* A failed attempt, however it failed.
LEMMA FailInv ==
    ASSUME HordeInv, Fail, at \in {"post", "reply"}
    PROVE  /\ InHand'
           /\ pending' \in Posts \cup {NoPost}
           /\ current_id' \in Jobs \cup {NoJob}
           /\ current_generation' \in Jobs \cup {NoJob}
           /\ currentjob_attempts' \in 0..Tries + 1
           /\ at' \in {"try", "submit"}
BY DEF Fail

LEMMA ReadyInv == ASSUME HordeInv, Ready PROVE HordeInv'
BY DEF Ready

LEMMA BeginInv == ASSUME HordeInv, Begin PROVE HordeInv'
BY DEF Begin

LEMMA PauseInv == ASSUME HordeInv, Pause PROVE HordeInv'
BY DEF Pause, OnePauseMore

LEMMA LookAroundInv == ASSUME HordeInv, LookAround PROVE HordeInv'
BY DEF LookAround

LEMMA PopFailsInv == ASSUME HordeInv, PopFails PROVE HordeInv'
BY DEF PopFails, CountError, Enough

LEMMA PopInv == ASSUME HordeInv, Pop PROVE HordeInv'
BY DEF Pop

LEMMA PopRaisesInv == ASSUME HordeInv, PopRaises PROVE HordeInv'
BY DEF PopRaises

LEMMA TestInv == ASSUME HordeInv, Test PROVE HordeInv'
BY DEF Test

LEMMA PostInv == ASSUME HordeInv, Post PROVE HordeInv'
BY DEF Post, Server!Ask, Server!Move

LEMMA PostFailsInv == ASSUME HordeInv, PostFails PROVE HordeInv'
BY FailInv DEF PostFails

LEMMA SubmitInv == ASSUME HordeInv, Submit PROVE HordeInv'
BY DEF Submit

LEMMA SubmitRaisesInv == ASSUME HordeInv, SubmitRaises PROVE HordeInv'
BY DEF SubmitRaises

LEMMA StopInv == ASSUME HordeInv, Stop PROVE HordeInv'
BY DEF Stop

LEMMA SubmitEndsInv == ASSUME HordeInv, SubmitEnds PROVE HordeInv'
BY DEF SubmitEnds, CountError, Credit, Enough

LEMMA ServeInv ==
    ASSUME HordeInv, NEW r \in Posts \cup Locals, Serve(r) PROVE HordeInv'
BY DEF Serve, Server!Grant, Server!Run, Server!Move

LEMMA RefuseInv ==
    ASSUME HordeInv, NEW r \in Posts \cup Locals, Refuse(r) PROVE HordeInv'
BY FailInv DEF Refuse, Gone, Awaited, Server!Refuse, Server!GiveUp, Server!Move

LEMMA AnswerInv ==
    ASSUME HordeInv, NEW r \in Posts \cup Locals, Answer(r) PROVE HordeInv'
BY FailInv DEF Answer, Awaited, Server!Return, Server!Move

LEMMA LeaveInv ==
    ASSUME HordeInv, NEW r \in Posts \cup Locals, Leave(r) PROVE HordeInv'
BY DEF Leave, Gone, Server!GiveUp, Server!Move

LEMMA LocalAskInv == ASSUME HordeInv, LocalAsk PROVE HordeInv'
BY DEF LocalAsk, Server!Ask, Server!Move

LEMMA ElapseInv == ASSUME HordeInv, Elapse PROVE HordeInv'
<1>1. recent' \in BOOLEAN /\ UNCHANGED <<serverVars, jobVars, requestVars, countVars,
                                       at, submits, cluster>>
  BY DEF Elapse
<1> QED
  BY <1>1

LEMMA ClusterLostInv == ASSUME HordeInv, ClusterLost PROVE HordeInv'
BY DEF ClusterLost

LEMMA CloseInv == ASSUME HordeInv, Close PROVE HordeInv'
BY DEF Close

LEMMA NextInv == ASSUME HordeInv, [Next]_vars PROVE HordeInv'
<1>1. CASE WorkerStep
  BY <1>1, ReadyInv, BeginInv, PauseInv, LookAroundInv, PopFailsInv, PopRaisesInv,
     PopInv, TestInv, PostInv, PostFailsInv, SubmitInv, SubmitRaisesInv, StopInv DEF WorkerStep
<1>2. CASE ServerStep
  BY <1>2, ServeInv, RefuseInv, AnswerInv, LeaveInv DEF ServerStep
<1>3. CASE UNCHANGED vars
  BY <1>3 DEF vars
<1> QED
  BY <1>1, <1>2, <1>3, SubmitEndsInv, LocalAskInv, ElapseInv, ClusterLostInv,
     CloseInv DEF Next

LEMMA Inductive == Spec => []HordeInv
BY InitInv, NextInv, PTL DEF Spec

\* Every reachable state of worker, server and threads is well typed: no count
\* passes its limit.
THEOREM TypeCorrect == Spec => []TypeOK
BY Inductive, PTL

\* The text submitted for a job is the one generated for it, however many of
\* its requests and of earlier jobs are still in the server.
THEOREM OwnAnswers == Spec => []AnswersItsJob
BY Inductive, PTL

-----------------------------------------------------------------------------
(* Errors: each pause has cost PunishLimit of them.                        *)

\* Unless enough errors were counted, they are as many as the pauses in force
\* have cost and those since, until the server closes.
Owed ==
    /\ errors # Enough /\ exitcounter # Closing =>
          exitcounter * PunishLimit + punishcounter <= errors
    /\ StopsOnErrors

ErrorInv == HordeInv /\ Owed

LEMMA Products ==
    /\ \A e \in Nat : (e + 1) * PunishLimit = e * PunishLimit + PunishLimit
    /\ \A e \in Nat : e >= ExitLimit => e * PunishLimit >= Enough
    /\ \A e \in Nat : e > 0 => (e - 1) * PunishLimit <= e * PunishLimit
    /\ Enough \in Nat
BY DEF Enough

LEMMA InitOwed == Init => Owed
BY Products DEF Init, Owed, StopsOnErrors

\* An error more is owed an error more.
LEMMA CountErrorOwed ==
    ASSUME HordeInv, Owed, CountError, UNCHANGED exitcounter,
           UNCHANGED at \/ at' = "head"
    PROVE  Owed'
<1> DEFINE cost == exitcounter * PunishLimit
<1>1. cost \in Nat
  OBVIOUS
<1> HIDE DEF cost
<1>2. errors # Enough /\ exitcounter # Closing => cost + punishcounter <= errors
  BY DEF Owed, cost
<1>3. errors' # Enough /\ exitcounter # Closing => cost + punishcounter' <= errors'
  BY <1>1, <1>2, Products DEF CountError
<1>4. cost' = cost
  BY DEF cost
<1> QED
  BY <1>3, <1>4 DEF Owed, StopsOnErrors, CountError, cost

LEMMA PauseOwed == ASSUME HordeInv, Owed, Pause PROVE Owed'
BY Products DEF Pause, OnePauseMore, Owed, StopsOnErrors

LEMMA StopOwed == ASSUME HordeInv, Owed, Stop PROVE Owed'
BY Products DEF Stop, Owed, StopsOnErrors

LEMMA CreditOwed ==
    ASSUME HordeInv, Owed, Credit, UNCHANGED <<punishcounter, errors, at>>
    PROVE  Owed'
BY Products DEF Credit, Owed, StopsOnErrors

LEMMA CloseOwed == ASSUME Owed, Close PROVE Owed'
BY DEF Close, Owed, StopsOnErrors

\* What changes no count does not end the worker.
LEMMA OthersOwed ==
    ASSUME Owed, UNCHANGED countVars, at' # "stopped" \/ UNCHANGED at
    PROVE  Owed'
BY DEF Owed, StopsOnErrors

LEMMA NextOwed == ASSUME ErrorInv, [Next]_vars PROVE Owed'
<1> USE DEF ErrorInv
<1>1. CASE PopFails
  BY <1>1, CountErrorOwed DEF PopFails
<1>2. CASE Pause
  BY <1>2, PauseOwed
<1>3. CASE Stop
  BY <1>3, StopOwed
<1>4. CASE SubmitEnds
  BY <1>4, CountErrorOwed, CreditOwed, OthersOwed DEF SubmitEnds
<1>5. CASE \/ Ready \/ Begin \/ LookAround \/ Pop \/ PopRaises \/ Test \/ Post
           \/ PostFails \/ Submit \/ SubmitRaises
  BY <1>5, OthersOwed
     DEF Ready, Begin, LookAround, Pop, PopRaises, Test, Post, PostFails, Fail,
         Submit, SubmitRaises
<1>6. CASE ServerStep
  BY <1>6, OthersOwed DEF ServerStep, Serve, Refuse, Answer, Leave, Fail
<1>7. CASE LocalAsk \/ Elapse \/ ClusterLost \/ UNCHANGED vars
  BY <1>7, OthersOwed DEF LocalAsk, Elapse, ClusterLost, vars
<1> QED
  BY <1>1, <1>2, <1>3, <1>4, <1>5, <1>6, <1>7, CloseOwed DEF Next, WorkerStep

\* What the worker stops for as too many errors are ExitLimit times PunishLimit
\* errors, whatever is taken back in between, however the submitting threads
\* come in and whenever the server closes.
THEOREM StoppedByErrors == Spec => []StopsOnErrors
<1>1. Init => ErrorInv
  BY InitInv, InitOwed DEF ErrorInv
<1>2. ErrorInv /\ [Next]_vars => ErrorInv'
  BY NextInv, NextOwed DEF ErrorInv
<1>3. ErrorInv => StopsOnErrors
  BY DEF ErrorInv, Owed
<1> QED
  BY <1>1, <1>2, <1>3, PTL DEF Spec
=============================================================================
