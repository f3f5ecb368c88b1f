-------------------------- MODULE KcppServer_proofs --------------------------
(***************************************************************************)
(* Proofs about the server of KcppServer, for any number of handlers, any  *)
(* limit on the queue and any bound on the tokens.                         *)
(***************************************************************************)
EXTENDS KcppServer, FiniteSetTheorems, TLAPS

-----------------------------------------------------------------------------
(* Types                                                                   *)

LEMMA InitType == Init => TypeOK
<1>. SUFFICES ASSUME Init PROVE TypeOK
  OBVIOUS
<1>1. req \in [Handlers -> Request]
  BY DEF Init, Request, NoRequest, AllKinds, AnyKey
<1>2. output \in [of: Handlers \cup {Nobody}, key: AnyKey]
  BY DEF Init, AnyKey
<1>3. /\ pc \in [Handlers -> Stages]
      /\ gen \in [Handlers -> GenStages]
      /\ sse \in [Handlers -> StreamStages]
  BY DEF Init, Stages, GenStages, Looping, StreamStages
<1>4. streamDone \in [Handlers -> BOOLEAN]
  BY DEF Init
<1>5. /\ remaining_tokens \in 0..MaxTokens
      /\ delayed \in Nat
      /\ ntokens \in Nat
  BY ServerAssumption DEF Init
<1>6. /\ seen \in [Handlers -> Nat]
      /\ current_token \in [Handlers -> Nat]
  BY DEF Init
<1>7. /\ modelbusy \in Handlers \cup {Nobody}
      /\ requestsinqueue \in Nat
      /\ currentusergenkey \in AnyKey
      /\ totalgens \in 0..1
      /\ pendingabortkey \in AnyKey
      /\ abortcall \in AnyKey \cup {Nobody}
      /\ foreign \subseteq Handlers
  BY DEF Init, AnyKey
<1>8. /\ generation_finished \in BOOLEAN
      /\ early_abort \in BOOLEAN
  BY DEF Init
<1>. QED
  BY <1>1, <1>2, <1>3, <1>4, <1>5, <1>6, <1>7, <1>8 DEF TypeOK

LEMMA AdmitType ==
    ASSUME TypeOK, NEW h \in Handlers, Receive(h) \/ Admit(h)
    PROVE  TypeOK'
<1>. USE ServerAssumption DEF TypeOK, Stages, AnyKey, Request, AllKinds,
         GenStages, Looping, StreamStages, Goto, GenGoto, StreamGoto,
         keyVars, backendVars, loopVars, streamVars, NoRequest
<1>1. CASE Receive(h)
  BY <1>1 DEF Receive
<1>2. CASE CheckQueue(h)
  BY <1>2 DEF CheckQueue
<1>3. CASE LoadQueue(h)
  BY <1>3 DEF LoadQueue
<1>4. CASE StoreQueue(h)
  BY <1>4 DEF StoreQueue
<1>5. CASE Acquire(h)
  BY <1>5 DEF Acquire
<1>6. CASE TryAcquire(h)
  BY <1>6 DEF TryAcquire
<1>7. CASE Dequeue(h)
  <2>1. OneLess \in Nat
    BY DEF OneLess
  <2>2. seen' \in [Handlers -> Nat]
    BY <1>7, <2>1 DEF Dequeue
  <2>3. requestsinqueue' \in Nat
    BY <1>7, <2>1 DEF Dequeue
  <2>4. pc' \in [Handlers -> Stages]
    BY <1>7 DEF Dequeue
  <2>5. UNCHANGED <<modelbusy, req, keyVars, backendVars, streamVars, gen>>
    BY <1>7 DEF Dequeue
  <2>. QED
    BY <2>2, <2>3, <2>4, <2>5
<1>8. CASE StoreDequeue(h)
  BY <1>8 DEF StoreDequeue
<1>. QED
  BY <1>1, <1>2, <1>3, <1>4, <1>5, <1>6, <1>7, <1>8 DEF Admit

LEMMA ServeType ==
    ASSUME TypeOK, NEW h \in Handlers, Serve(h)
    PROVE  TypeOK'
<1>. USE ServerAssumption DEF TypeOK, Stages, AnyKey, Request, AllKinds,
         GenStages, Looping, StreamStages, Goto, GenGoto, StreamGoto,
         lockVars, keyVars, backendVars, loopVars, streamVars, NoRequest
<1>1. CASE RejectBody(h)
  BY <1>1 DEF RejectBody
<1>2. CASE StartModel(h)
  BY <1>2 DEF StartModel
<1>3. CASE FinishModel(h)
  BY <1>3 DEF FinishModel
<1>4. CASE StartText(h)
  BY <1>4 DEF StartText
<1>5. CASE Reply(h)
  BY <1>5 DEF Reply
<1>6. CASE Release(h)
  <2>1. req' \in [Handlers -> Request]
    BY <1>6 DEF Release
  <2>2. output' \in [of: Handlers \cup {Nobody}, key: AnyKey]
    BY <1>6 DEF Release
  <2>3. gen' \in [Handlers -> GenStages]
    BY <1>6 DEF Release
  <2>. QED
    BY <1>6, <2>1, <2>2, <2>3 DEF Release
<1>. QED
  BY <1>1, <1>2, <1>3, <1>4, <1>5, <1>6 DEF Serve

LEMMA GenerateType ==
    ASSUME TypeOK, NEW h \in Handlers, Generate(h)
    PROVE  TypeOK'
<1>. USE ServerAssumption DEF TypeOK, Stages, AnyKey, Request, AllKinds,
         GenStages, Looping, StreamStages, GenGoto, StreamGoto,
         lockVars, keyVars, backendVars, loopVars, streamVars
<1>1. CASE PrepRaises(h)
  BY <1>1 DEF PrepRaises
<1>2. CASE PublishKey(h)
  BY <1>2 DEF PublishKey
<1>3. CASE DeferredAbort(h)
  BY <1>3 DEF DeferredAbort
<1>4. CASE EnterBackend(h)
  BY <1>4 DEF EnterBackend
<1>5. CASE ResetStatus(h)
  BY <1>5 DEF ResetStatus
<1>6. CASE ResetOutput(h)
  <2>1. output' \in [of: Handlers \cup {Nobody}, key: AnyKey]
    <3>. req[h].key \in AnyKey
      BY DEF TypeOK, Request
    <3>. QED
      BY <1>6 DEF ResetOutput, AnyKey
  <2>2. /\ ntokens' \in Nat /\ delayed' \in Nat
        /\ remaining_tokens' \in 0..MaxTokens
    BY <1>6 DEF ResetOutput
  <2>3. gen' \in [Handlers -> GenStages]
    BY <1>6 DEF ResetOutput
  <2>4. early_abort' \in BOOLEAN
    BY <1>6 DEF ResetOutput
  <2>5. UNCHANGED <<lockVars, keyVars, generation_finished, streamVars>>
    BY <1>6 DEF ResetOutput
  <2>. QED
    BY <2>1, <2>2, <2>3, <2>4, <2>5
<1>7. CASE StartTurn(h)
  BY <1>7 DEF StartTurn
<1>8. CASE EvalFails(h)
  BY <1>8 DEF EvalFails
<1>9. CASE SkipSampling(h)
  BY <1>9 DEF SkipSampling
<1>10. CASE ChooseToken(h)
  BY <1>10 DEF ChooseToken
<1>11. CASE PushToken(h)
  <2>1. ntokens' \in Nat /\ delayed' \in Nat
    BY <1>11 DEF PushToken
  <2>. QED
    BY <1>11, <2>1 DEF PushToken
<1>12. CASE FlushTokens(h)
  BY <1>12 DEF FlushTokens
<1>13. CASE FinishGeneration(h)
  BY <1>13 DEF FinishGeneration
<1>. QED
  BY <1>1, <1>2, <1>3, <1>4, <1>5, <1>6, <1>7, <1>8, <1>9, <1>10, <1>11, <1>12,
     <1>13 DEF Generate

LEMMA StreamType ==
    ASSUME TypeOK, NEW h \in Handlers, Stream(h)
    PROVE  TypeOK'
<1>. USE ServerAssumption DEF TypeOK, Stages, AnyKey, Request, AllKinds,
         GenStages, Looping, StreamStages, Goto, StreamGoto,
         lockVars, keyVars, backendVars, loopVars
<1>1. CASE SendHeaders(h)
  BY <1>1 DEF SendHeaders
<1>2. CASE HeadersFail(h)
  BY <1>2 DEF HeadersFail
<1>3. CASE WakeStream(h)
  BY <1>3 DEF WakeStream
<1>4. CASE PollFinished(h)
  BY <1>4 DEF PollFinished
<1>5. CASE DrainTokens(h)
  BY <1>5 DEF DrainTokens
<1>6. CASE DrainFails(h)
  BY <1>6 DEF DrainFails
<1>. QED
  BY <1>1, <1>2, <1>3, <1>4, <1>5, <1>6 DEF Stream

LEMMA AbortType ==
    ASSUME TypeOK, Abort
    PROVE  TypeOK'
<1>. USE ServerAssumption DEF TypeOK, AnyKey, lockVars, streamVars, backendVars, loopVars
<1>1. CASE AbortCall
  BY <1>1 DEF AbortCall
<1>2. ASSUME NEW key \in AbortKeys, AbortCheck(key)
      PROVE  TypeOK'
  BY <1>2 DEF AbortCheck
<1>3. ASSUME NEW key \in AbortKeys, AbortLater(key)
      PROVE  TypeOK'
  BY <1>3 DEF AbortLater
<1>. QED
  BY <1>1, <1>2, <1>3 DEF Abort

LEMMA StutterType == ASSUME TypeOK, UNCHANGED vars PROVE TypeOK'
BY DEF TypeOK, vars, lockVars, keyVars, backendVars, loopVars, streamVars

\* Every variable keeps its type: the queue length, for one, never goes below
\* zero, whichever way the updates of it interleave.
THEOREM TypeCorrect == Spec => []TypeOK
<1>1. Init => TypeOK
  BY InitType
<1>2. TypeOK /\ [Next]_vars => TypeOK'
  BY AdmitType, ServeType, GenerateType, StreamType, AbortType, StutterType
     DEF Next
<1>. QED
  BY <1>1, <1>2, PTL DEF Spec

-----------------------------------------------------------------------------
(* The lock                                                                *)

\* Most actions touch neither the lock nor the stage of any handler.
LEMMA GenerateKeepsLock ==
    ASSUME NEW h \in Handlers, Generate(h)
    PROVE  UNCHANGED lockVars
BY DEF Generate, PrepRaises, PublishKey, DeferredAbort, EnterBackend,
       ResetStatus, ResetOutput, StartTurn, EvalFails, SkipSampling, ChooseToken,
         PushToken, FlushTokens, FinishGeneration

LEMMA AbortKeepsLock ==
    ASSUME Abort
    PROVE  UNCHANGED <<lockVars, streamVars, gen>>
BY DEF Abort, AbortCall, AbortCheck, AbortLater

\* A handler about to write the headers of its stream has started its
\* generation and is still inside the try of do_POST. Without this, the
\* release that HeadersFail leads to could give up the lock of another.
HeadersInside ==
    \A h \in Handlers : sse[h] = "headers" => pc[h] = "serve" /\ gen[h] # "none"

\* A step of h cannot disturb the stage of another handler: LockHeld survives
\* if the new stage of h agrees with what h does to the lock.
LEMMA LockStep ==
    ASSUME TypeOK, LockHeld, NEW h \in Handlers, NEW stage, Goto(h, stage),
           \/ modelbusy' = modelbusy /\ (stage \in Locked <=> pc[h] \in Locked)
           \/ modelbusy = Nobody /\ modelbusy' = h /\ stage \in Locked
           \/ modelbusy = h /\ modelbusy' = Nobody /\ stage \notin Locked
    PROVE  LockHeld'
<1>. SUFFICES ASSUME NEW g \in Handlers
              PROVE  pc'[g] \in Locked <=> modelbusy' = g
  BY DEF LockHeld
<1>1. Nobody # g /\ Nobody # h
  BY ServerAssumption
<1>2. pc' = [pc EXCEPT ![h] = stage] /\ pc \in [Handlers -> Stages]
  BY DEF Goto, TypeOK
<1>3. CASE g = h
  BY <1>1, <1>2, <1>3 DEF LockHeld
<1>4. CASE g # h
  BY <1>1, <1>2, <1>4 DEF LockHeld
<1>. QED
  BY <1>3, <1>4

LEMMA AdmitLock ==
    ASSUME TypeOK, LockHeld, NEW h \in Handlers, Receive(h) \/ Admit(h)
    PROVE  LockHeld'
<1>1. CASE Receive(h)
  BY <1>1, LockStep DEF Receive, Locked
<1>2. CASE CheckQueue(h)
  <2>1. PICK stage \in {"load", "wait", "try"} : Goto(h, stage)
    BY <1>2 DEF CheckQueue
  <2>. QED
    BY <1>2, <2>1, LockStep DEF CheckQueue, Locked
<1>3. CASE LoadQueue(h)
  BY <1>3, LockStep DEF LoadQueue, Locked
<1>4. CASE StoreQueue(h)
  BY <1>4, LockStep DEF StoreQueue, Locked
<1>5. CASE Acquire(h)
  BY <1>5, LockStep DEF Acquire, Locked
<1>6. CASE TryAcquire(h)
  BY <1>6, LockStep DEF TryAcquire, Locked
<1>7. CASE Dequeue(h)
  <2>1. PICK stage \in {"dstore", "serve"} : Goto(h, stage)
    BY <1>7 DEF Dequeue
  <2>. QED
    BY <1>7, <2>1, LockStep DEF Dequeue, Locked
<1>8. CASE StoreDequeue(h)
  BY <1>8, LockStep DEF StoreDequeue, Locked
<1>. QED
  BY <1>1, <1>2, <1>3, <1>4, <1>5, <1>6, <1>7, <1>8 DEF Admit

LEMMA ServeLock ==
    ASSUME TypeOK, LockHeld, NEW h \in Handlers, Serve(h)
    PROVE  LockHeld'
<1>1. CASE RejectBody(h)
  BY <1>1, LockStep DEF RejectBody, Locked
<1>2. CASE Reply(h)
  BY <1>2, LockStep DEF Reply, Locked
<1>3. CASE Release(h)
  <2>1. modelbusy = h
    BY <1>3 DEF Release, LockHeld, Locked
  <2>. QED
    BY <1>3, <2>1, LockStep DEF Release, Locked
<1>4. CASE StartModel(h) \/ FinishModel(h) \/ StartText(h)
  BY <1>4 DEF StartModel, FinishModel, StartText, lockVars, LockHeld
<1>. QED
  BY <1>1, <1>2, <1>3, <1>4 DEF Serve

LEMMA StreamLock ==
    ASSUME TypeOK, LockHeld, HeadersInside, NEW h \in Handlers, Stream(h)
    PROVE  LockHeld'
<1>1. CASE HeadersFail(h)
  <2>1. pc[h] = "serve"
    BY <1>1 DEF HeadersFail, HeadersInside
  <2>. QED
    BY <1>1, <2>1, LockStep DEF HeadersFail, Locked
<1>2. CASE ~HeadersFail(h)
  <2>1. UNCHANGED lockVars
    BY <1>2 DEF Stream, SendHeaders, WakeStream, PollFinished, DrainTokens,
            DrainFails
  <2>. QED
    BY <2>1 DEF lockVars, LockHeld
<1>. QED
  BY <1>1, <1>2

LEMMA AdmitInside ==
    ASSUME TypeOK, HeadersInside, NEW h \in Handlers, Receive(h) \/ Admit(h)
    PROVE  HeadersInside'
<1>1. CASE Receive(h)
  BY <1>1 DEF Receive, TypeOK, HeadersInside, Goto, GenGoto, streamVars
<1>2. CASE Admit(h)
  <2>1. /\ UNCHANGED <<sse, gen>>
        /\ pc[h] # "serve"
        /\ \E stage : Goto(h, stage)
    BY <1>2 DEF Admit, CheckQueue, LoadQueue, StoreQueue, Acquire, TryAcquire,
            Dequeue, StoreDequeue, streamVars
  <2>. QED
    BY <2>1 DEF TypeOK, HeadersInside, Goto
<1>. QED
  BY <1>1, <1>2

LEMMA ServeInside ==
    ASSUME TypeOK, HeadersInside, NEW h \in Handlers, Serve(h)
    PROVE  HeadersInside'
<1>. USE DEF TypeOK, HeadersInside, Goto, GenGoto, StreamGoto, lockVars, streamVars
<1>1. CASE RejectBody(h)
  BY <1>1 DEF RejectBody
<1>2. CASE StartModel(h)
  BY <1>2 DEF StartModel
<1>3. CASE FinishModel(h)
  BY <1>3 DEF FinishModel
<1>4. CASE StartText(h)
  BY <1>4 DEF StartText
<1>5. CASE Reply(h)
  BY <1>5 DEF Reply
<1>6. CASE Release(h)
  BY <1>6 DEF Release
<1>. QED
  BY <1>1, <1>2, <1>3, <1>4, <1>5, <1>6 DEF Serve

LEMMA GenerateInside ==
    ASSUME TypeOK, HeadersInside, NEW h \in Handlers, Generate(h)
    PROVE  HeadersInside'
<1>1. UNCHANGED pc
  BY GenerateKeepsLock DEF lockVars
<1>2. \/ UNCHANGED sse
      \/ sse' = [sse EXCEPT ![h] = IF sse[h] = "off" THEN "off" ELSE "broken"]
  BY DEF Generate, PrepRaises, PublishKey, DeferredAbort, EnterBackend,
         ResetStatus, ResetOutput, StartTurn, EvalFails, SkipSampling, ChooseToken,
         PushToken, FlushTokens, FinishGeneration,
         streamVars, StreamGoto
<1>3. \/ UNCHANGED gen
      \/ \E stage \in GenStages \ {"none"} : gen' = [gen EXCEPT ![h] = stage]
  BY DEF Generate, PrepRaises, PublishKey, DeferredAbort, EnterBackend,
         ResetStatus, ResetOutput, StartTurn, EvalFails, SkipSampling, ChooseToken,
         PushToken, FlushTokens, FinishGeneration,
         GenGoto, GenStages, Looping
<1>. QED
  BY <1>1, <1>2, <1>3 DEF TypeOK, HeadersInside

LEMMA StreamInside ==
    ASSUME TypeOK, HeadersInside, NEW h \in Handlers, Stream(h)
    PROVE  HeadersInside'
<1>. USE DEF TypeOK, HeadersInside, Goto, StreamGoto, lockVars
<1>1. CASE SendHeaders(h)
  BY <1>1 DEF SendHeaders
<1>2. CASE HeadersFail(h)
  BY <1>2 DEF HeadersFail
<1>3. CASE WakeStream(h)
  BY <1>3 DEF WakeStream
<1>4. CASE PollFinished(h)
  BY <1>4 DEF PollFinished
<1>5. CASE DrainTokens(h)
  BY <1>5 DEF DrainTokens
<1>6. CASE DrainFails(h)
  BY <1>6 DEF DrainFails
<1>. QED
  BY <1>1, <1>2, <1>3, <1>4, <1>5, <1>6 DEF Stream

LockInv == TypeOK /\ LockHeld /\ HeadersInside

LEMMA LockInductive == LockInv /\ [Next]_vars => LockInv'
<1>. SUFFICES ASSUME TypeOK, LockHeld, HeadersInside, [Next]_vars
              PROVE  LockHeld' /\ HeadersInside' /\ TypeOK'
  BY DEF LockInv
<1>1. ASSUME NEW h \in Handlers, Receive(h) \/ Admit(h)
      PROVE  LockHeld' /\ HeadersInside' /\ TypeOK'
  BY <1>1, AdmitLock, AdmitInside, AdmitType
<1>2. ASSUME NEW h \in Handlers, Serve(h)
      PROVE  LockHeld' /\ HeadersInside' /\ TypeOK'
  BY <1>2, ServeLock, ServeInside, ServeType
<1>3. ASSUME NEW h \in Handlers, Generate(h)
      PROVE  LockHeld' /\ HeadersInside' /\ TypeOK'
  BY <1>3, GenerateKeepsLock, GenerateInside, GenerateType
     DEF lockVars, LockHeld
<1>4. ASSUME NEW h \in Handlers, Stream(h)
      PROVE  LockHeld' /\ HeadersInside' /\ TypeOK'
  BY <1>4, StreamLock, StreamInside, StreamType
<1>5. CASE Abort
  BY <1>5, AbortKeepsLock, AbortType
     DEF lockVars, streamVars, LockHeld, HeadersInside
<1>6. CASE UNCHANGED vars
  BY <1>6, StutterType DEF vars, lockVars, streamVars, LockHeld, HeadersInside
<1>. QED
  BY <1>1, <1>2, <1>3, <1>4, <1>5, <1>6 DEF Next

LEMMA LockInvariant == Spec => []LockInv
<1>1. Init => LockInv
  <2>. SUFFICES ASSUME Init PROVE LockHeld /\ HeadersInside
    BY InitType DEF LockInv
  <2>. QED
    BY ServerAssumption DEF Init, LockHeld, HeadersInside, Locked
<1>. QED
  BY <1>1, LockInductive, PTL DEF Spec

\* A handler is in the locked section exactly while it holds the lock, also
\* when clients leave and threads switch inside updates of the queue length.
THEOREM LockDiscipline == Spec => []LockHeld
BY LockInvariant, PTL DEF LockInv
-----------------------------------------------------------------------------
(* The serial service, as long as no client leaves before its headers      *)

\* A generation that is under way belongs to a handler that is serving, and a
\* handler that does not serve has none. It is inductive only without
\* HeadersFail, which lets do_POST leave first.
GenLocked ==
    \A h \in Handlers :
        /\ gen[h] \notin {"none", "done"} => pc[h] = "serve"
        /\ gen[h] # "none" => pc[h] \in {"serve", "release"}

ServiceInv == LockInv /\ GenLocked

\* Every step of the server is a step of the service or changes nothing in it.
ServiceStep == [Service!Next]_Service!vars

\* The steps that leave the lock and every phase alone.
LEMMA PhaseStutter ==
    ASSUME UNCHANGED modelbusy,
           \A h \in Handlers : ServicePhase(h)' = ServicePhase(h)
    PROVE  ServiceStep
BY DEF ServiceStep, Service!vars

\* A step that moves the phase of one handler and of no other.
LEMMA PhaseMove ==
    ASSUME NEW h \in Handlers, NEW from, NEW to,
           ServicePhase(h) = from, ServicePhase(h)' = to,
           \A g \in Handlers \ {h} : ServicePhase(g)' = ServicePhase(g)
    PROVE  Service!Move(h, from, to)
BY DEF Service!Move

\* The phase of a handler is a function of its own two stages.
LEMMA PhaseLocal ==
    ASSUME TypeOK, NEW h \in Handlers,
           \/ UNCHANGED pc
           \/ \E stage : Goto(h, stage),
           \/ UNCHANGED gen
           \/ \E stage : GenGoto(h, stage)
    PROVE  \A g \in Handlers \ {h} : ServicePhase(g)' = ServicePhase(g)
<1>. SUFFICES ASSUME NEW g \in Handlers \ {h}
              PROVE  ServicePhase(g)' = ServicePhase(g)
  OBVIOUS
<1>1. pc'[g] = pc[g]
  BY DEF TypeOK, Goto
<1>2. gen'[g] = gen[g]
  BY DEF TypeOK, GenGoto
<1>. QED
  BY <1>1, <1>2 DEF ServicePhase

LEMMA ReceiveRefines ==
    ASSUME ServiceInv, NEW h \in Handlers, Receive(h)
    PROVE  ServiceStep
<1>1. ServicePhase(h) = "away" /\ ServicePhase(h)' = "waiting"
  BY DEF Receive, Goto, GenGoto, ServiceInv, LockInv, TypeOK, ServicePhase,
         Native, Looping, Locked
<1>2. \A g \in Handlers \ {h} : ServicePhase(g)' = ServicePhase(g)
  BY PhaseLocal DEF Receive, ServiceInv, LockInv
<1>3. Service!Ask(h)
  BY <1>1, <1>2, PhaseMove DEF Service!Ask, Receive
<1>. QED
  BY <1>3 DEF ServiceStep, Service!Next

LEMMA AdmitRefines ==
    ASSUME ServiceInv, NEW h \in Handlers, Admit(h)
    PROVE  ServiceStep
<1>1. /\ UNCHANGED gen
      /\ \E stage : Goto(h, stage)
      /\ pc[h] # "serve"
      /\ pc[h] # "idle"
  BY DEF Admit, CheckQueue, LoadQueue, StoreQueue, Acquire, TryAcquire,
         Dequeue, StoreDequeue
<1>2. \A g \in Handlers \ {h} : ServicePhase(g)' = ServicePhase(g)
  BY <1>1, PhaseLocal DEF ServiceInv, LockInv
<1>3. gen[h] \notin Native /\ gen'[h] \notin Native
  BY <1>1 DEF ServiceInv, GenLocked, Native, Looping
<1>4. CASE pc[h] \in Locked
  <2>1. pc'[h] \in Locked /\ UNCHANGED modelbusy
    BY <1>4 DEF Admit, CheckQueue, LoadQueue, StoreQueue, Acquire, TryAcquire,
            Dequeue, StoreDequeue, Goto, Locked, ServiceInv, LockInv, TypeOK
  <2>2. ServicePhase(h)' = ServicePhase(h)
    BY <1>3, <1>4, <2>1 DEF ServicePhase, Locked, Native
  <2>. QED
    BY <1>2, <2>1, <2>2, PhaseStutter
<1>5. CASE pc[h] \notin Locked /\ UNCHANGED modelbusy /\ pc'[h] # "idle"
  <2>1. pc[h] \in {"check", "load", "store", "wait", "try"}
    BY <1>1, <1>5 DEF ServiceInv, LockInv, TypeOK, Stages, Locked
  <2>2. pc'[h] \in {"check", "load", "store", "wait", "try"}
    BY <1>5, <2>1, ServerAssumption
       DEF Admit, CheckQueue, LoadQueue, StoreQueue, Acquire, TryAcquire,
           Dequeue, StoreDequeue, Goto, Locked, ServiceInv, LockInv, TypeOK
  <2>3. ServicePhase(h)' = ServicePhase(h)
    BY <1>3, <2>1, <2>2 DEF ServicePhase, Locked
  <2>. QED
    BY <1>2, <1>5, <2>3, PhaseStutter
<1>6. CASE TryAcquire(h) /\ pc'[h] = "idle"
  <2>1. pc[h] = "try" /\ UNCHANGED modelbusy
    BY <1>6 DEF TryAcquire, Goto, ServiceInv, LockInv, TypeOK
  <2>2. ServicePhase(h) = "waiting" /\ ServicePhase(h)' = "away"
    BY <1>3, <1>6, <2>1 DEF ServicePhase, Locked
  <2>3. Service!Refuse(h)
    BY <1>2, <2>1, <2>2, PhaseMove DEF Service!Refuse
  <2>. QED
    BY <2>3 DEF ServiceStep, Service!Next
<1>7. CASE /\ modelbusy = Nobody
           /\ modelbusy' = h
           /\ pc[h] \in {"wait", "try"}
           /\ pc'[h] \in {"dequeue", "serve"}
  <2>1. ServicePhase(h) = "waiting" /\ ServicePhase(h)' = "granted"
    BY <1>3, <1>7 DEF ServicePhase, Locked
  <2>2. Service!Grant(h)
    BY <1>2, <1>7, <2>1, PhaseMove DEF Service!Grant
  <2>. QED
    BY <2>2 DEF ServiceStep, Service!Next
<1>. QED
  BY <1>4, <1>5, <1>6, <1>7
     DEF Admit, CheckQueue, LoadQueue, StoreQueue, Acquire, TryAcquire,
         Dequeue, StoreDequeue, Goto, ServiceInv, LockInv, TypeOK

LEMMA ServeRefines ==
    ASSUME ServiceInv, NEW h \in Handlers, Serve(h)
    PROVE  ServiceStep
<1>. USE DEF ServiceInv, LockInv
<1>1. \A g \in Handlers \ {h} : ServicePhase(g)' = ServicePhase(g)
  BY PhaseLocal DEF Serve, RejectBody, StartModel, FinishModel, StartText,
     Reply, Release, lockVars
<1>2. CASE RejectBody(h) \/ Reply(h) \/ StartText(h)
  <2>1. UNCHANGED modelbusy
    BY <1>2 DEF RejectBody, Reply, StartText, lockVars
  <2>2. ServicePhase(h)' = ServicePhase(h)
    BY <1>2 DEF RejectBody, Reply, StartText, Goto, GenGoto, lockVars, TypeOK,
       ServicePhase, Native, Looping, Locked
  <2>. QED
    BY <1>1, <2>1, <2>2, PhaseStutter
<1>3. CASE StartModel(h)
  <2>1. ServicePhase(h) = "granted" /\ ServicePhase(h)' = "running"
    BY <1>3 DEF StartModel, GenGoto, TypeOK, ServicePhase, Native, Looping, Locked
  <2>2. Service!Run(h)
    BY <1>1, <1>3, <2>1, PhaseMove DEF Service!Run, StartModel, lockVars
  <2>. QED
    BY <2>2 DEF ServiceStep, Service!Next
<1>4. CASE FinishModel(h)
  <2>1. ServicePhase(h) = "running" /\ ServicePhase(h)' = "granted"
    BY <1>4 DEF FinishModel, GenGoto, TypeOK, GenLocked, lockVars,
       ServicePhase, Native, Looping, Locked
  <2>2. Service!Return(h)
    BY <1>1, <1>4, <2>1, PhaseMove DEF Service!Return, FinishModel, lockVars
  <2>. QED
    BY <2>2 DEF ServiceStep, Service!Next
<1>5. CASE Release(h)
  <2>1. gen[h] \notin Native /\ gen'[h] \notin Native
    BY <1>5 DEF Release, GenGoto, TypeOK, GenLocked, Native, Looping
  <2>2. pc[h] = "release" /\ pc'[h] = "idle" /\ modelbusy' = Nobody
    BY <1>5 DEF Release, Goto, TypeOK
  <2>3. ServicePhase(h) = "granted" /\ ServicePhase(h)' = "away"
    BY <2>1, <2>2 DEF ServicePhase, Locked
  <2>4. Service!GiveUp(h)
    BY <1>1, <2>2, <2>3, PhaseMove DEF Service!GiveUp
  <2>. QED
    BY <2>4 DEF ServiceStep, Service!Next
<1>. QED
  BY <1>2, <1>3, <1>4, <1>5 DEF Serve

LEMMA GenerateRefines ==
    ASSUME ServiceInv, NEW h \in Handlers, Generate(h)
    PROVE  ServiceStep
<1>. USE DEF ServiceInv, LockInv
<1>1. UNCHANGED <<pc, modelbusy>>
  BY GenerateKeepsLock DEF lockVars
<1>2. \A g \in Handlers \ {h} : ServicePhase(g)' = ServicePhase(g)
  <2>1. UNCHANGED gen \/ \E stage : GenGoto(h, stage)
    BY DEF Generate, PrepRaises, PublishKey, DeferredAbort, EnterBackend,
       ResetStatus, ResetOutput, StartTurn, EvalFails, SkipSampling, ChooseToken,
         PushToken, FlushTokens, FinishGeneration
  <2>. QED
    BY <1>1, <2>1, PhaseLocal
<1>3. pc[h] = "serve"
  BY DEF GenLocked, Generate, PrepRaises, PublishKey, DeferredAbort,
     EnterBackend, ResetStatus, ResetOutput, StartTurn, EvalFails, SkipSampling, ChooseToken,
         PushToken, FlushTokens, FinishGeneration
<1>4. CASE EnterBackend(h)
  <2>1. ServicePhase(h) = "granted" /\ ServicePhase(h)' = "running"
    BY <1>1, <1>3, <1>4
       DEF EnterBackend, GenGoto, TypeOK, ServicePhase, Native, Looping, Locked
  <2>2. Service!Run(h)
    BY <1>1, <1>2, <2>1, PhaseMove DEF Service!Run
  <2>. QED
    BY <2>2 DEF ServiceStep, Service!Next
<1>5. CASE FinishGeneration(h) \/ EvalFails(h)
  <2>1. ServicePhase(h) = "running" /\ ServicePhase(h)' = "granted"
    BY <1>1, <1>3, <1>5
       DEF FinishGeneration, EvalFails, GenGoto, TypeOK, ServicePhase, Native,
           Looping, Locked
  <2>2. Service!Return(h)
    BY <1>1, <1>2, <2>1, PhaseMove DEF Service!Return
  <2>. QED
    BY <2>2 DEF ServiceStep, Service!Next
<1>6. CASE \/ PrepRaises(h) \/ PublishKey(h) \/ DeferredAbort(h)
           \/ ResetStatus(h) \/ ResetOutput(h) \/ StartTurn(h)
           \/ SkipSampling(h) \/ ChooseToken(h) \/ PushToken(h) \/ FlushTokens(h)
  <2>1. gen[h] \in Native <=> gen'[h] \in Native
    BY <1>6 DEF PrepRaises, PublishKey, DeferredAbort, ResetStatus,
       ResetOutput, StartTurn, SkipSampling, ChooseToken, PushToken, FlushTokens, GenGoto, TypeOK, Native, Looping
  <2>2. ServicePhase(h)' = ServicePhase(h)
    BY <1>1, <1>3, <2>1 DEF ServicePhase, Locked
  <2>. QED
    BY <1>1, <1>2, <2>2, PhaseStutter
<1>. QED
  BY <1>4, <1>5, <1>6 DEF Generate

LEMMA StreamKeepsLock ==
    ASSUME ~ClientLeaves, NEW h \in Handlers, Stream(h)
    PROVE  UNCHANGED <<lockVars, gen>>
BY DEF Stream, SendHeaders, HeadersFail, WakeStream, PollFinished, DrainTokens,
       DrainFails

LEMMA GenLockedStep ==
    ASSUME ~ClientLeaves, TypeOK, GenLocked, [Next]_vars
    PROVE  GenLocked'
<1>1. ASSUME NEW h \in Handlers, Receive(h)
      PROVE  GenLocked'
  BY <1>1 DEF TypeOK, GenLocked, Receive, Goto, GenGoto
<1>2. ASSUME NEW h \in Handlers, Admit(h)
      PROVE  GenLocked'
  <2>1. UNCHANGED gen /\ pc[h] \notin {"serve", "release"} /\ \E stage : Goto(h, stage)
    BY <1>2 DEF Admit, CheckQueue, LoadQueue, StoreQueue, Acquire, TryAcquire,
       Dequeue, StoreDequeue
  <2>. QED
    BY <2>1 DEF TypeOK, GenLocked, Goto
<1>3. ASSUME NEW h \in Handlers, Serve(h)
      PROVE  GenLocked'
  BY <1>3 DEF TypeOK, GenLocked, Serve, RejectBody, StartModel, FinishModel,
     StartText, Reply, Release, Goto, GenGoto, lockVars
<1>4. ASSUME NEW h \in Handlers, Generate(h)
      PROVE  GenLocked'
  <2>1. UNCHANGED pc /\ pc[h] = "serve"
    BY <1>4, GenerateKeepsLock
       DEF lockVars, GenLocked, Generate, PrepRaises, PublishKey,
           DeferredAbort, EnterBackend, ResetStatus, ResetOutput, StartTurn,
           EvalFails, SkipSampling, ChooseToken, PushToken, FlushTokens,
           FinishGeneration
  <2>2. UNCHANGED gen \/ \E stage : GenGoto(h, stage)
    BY <1>4 DEF Generate, PrepRaises, PublishKey, DeferredAbort, EnterBackend,
       ResetStatus, ResetOutput, StartTurn, EvalFails, SkipSampling, ChooseToken,
         PushToken, FlushTokens, FinishGeneration
  <2>. QED
    BY <2>1, <2>2 DEF TypeOK, GenLocked, GenGoto
<1>5. ASSUME NEW h \in Handlers, Stream(h)
      PROVE  GenLocked'
  BY <1>5, StreamKeepsLock DEF GenLocked, lockVars
<1>6. CASE Abort
  BY <1>6, AbortKeepsLock DEF GenLocked, lockVars
<1>7. CASE UNCHANGED vars
  BY <1>7 DEF GenLocked, vars, lockVars
<1>. QED
  BY <1>1, <1>2, <1>3, <1>4, <1>5, <1>6, <1>7 DEF Next

LEMMA ServiceInductive ==
    ASSUME ~ClientLeaves, ServiceInv, [Next]_vars
    PROVE  ServiceInv' /\ ServiceStep
<1>1. ServiceInv'
  BY LockInductive, GenLockedStep DEF ServiceInv, LockInv
<1>2. ASSUME UNCHANGED <<pc, gen, modelbusy>>
      PROVE  ServiceStep
  BY <1>2, PhaseStutter DEF ServicePhase
<1>3. ASSUME NEW h \in Handlers, Stream(h)
      PROVE  ServiceStep
  BY <1>2, <1>3, StreamKeepsLock DEF lockVars
<1>4. CASE Abort
  BY <1>1, <1>2, <1>4, AbortKeepsLock DEF lockVars
<1>5. CASE UNCHANGED vars
  BY <1>1, <1>2, <1>5 DEF vars, lockVars
<1>. QED
  BY <1>1, <1>3, <1>4, <1>5, ReceiveRefines, AdmitRefines, ServeRefines,
     GenerateRefines DEF Next

LEMMA ServiceInit == Init => ServiceInv /\ Service!Init
<1>. SUFFICES ASSUME Init PROVE ServiceInv /\ Service!Init
  OBVIOUS
<1>1. LockInv
  <2>. LockHeld /\ HeadersInside
    BY ServerAssumption DEF Init, LockHeld, HeadersInside, Locked
  <2>. QED
    BY InitType DEF LockInv
<1>2. \A h \in Handlers : ServicePhase(h) = "away"
  BY DEF Init, ServicePhase, Native, Looping, Locked
<1>3. Service!Init
  BY <1>2 DEF Init, Service!Init
<1>. QED
  BY <1>1, <1>3 DEF ServiceInv, GenLocked, Init

\* With no client gone before its headers, the server is a serial service:
\* clients are granted the model one at a time and the native code runs only
\* between a grant and the release of it.
THEOREM Serial ==
    ASSUME ~ClientLeaves
    PROVE  Spec => ImplementsService
<1>1. Init => ServiceInv /\ Service!Init
  BY ServiceInit
<1>2. ServiceInv /\ [Next]_vars => ServiceInv' /\ [Service!Next]_Service!vars
  BY ServiceInductive DEF ServiceStep
<1>. QED
  BY <1>1, <1>2, PTL DEF Spec, ImplementsService, Service!Spec

\* No two requests are in the native code at once, under the same condition.
THEOREM OneAtATime ==
    ASSUME ~ClientLeaves
    PROVE  Spec => []OneInNative
<1>1. Init => ServiceInv
  BY ServiceInit
<1>2. ServiceInv /\ [Next]_vars => ServiceInv'
  BY ServiceInductive
<1>3. ServiceInv => OneInNative
  BY DEF ServiceInv, LockInv, LockHeld, GenLocked, OneInNative, Native, Looping, Locked
<1>. QED
  BY <1>1, <1>2, <1>3, PTL DEF Spec
-----------------------------------------------------------------------------
(* The count of the queue, where threads do not switch inside its updates  *)

WaitingHandlers == {h \in Handlers : pc[h] \in Queued}

\* No handler is in the middle of an update of the count.
UpdatesWhole == \A h \in Handlers : pc[h] \notin {"load", "store", "dstore"}

QueueInv == LockInv /\ UpdatesWhole /\ QueueExact

LEMMA WaitingFinite == IsFiniteSet(WaitingHandlers) /\ Cardinality(WaitingHandlers) \in Nat
<1>1. WaitingHandlers \in SUBSET Handlers
  BY DEF WaitingHandlers
<1>. QED
  BY <1>1, ServerAssumption, FS_Subset, FS_CardinalityType

\* A step of one handler that neither enters nor leaves the queue.
LEMMA QueueStays ==
    ASSUME TypeOK, QueueExact, NEW h \in Handlers, NEW stage, Goto(h, stage),
           UNCHANGED requestsinqueue, pc[h] \in Queued <=> stage \in Queued
    PROVE  QueueExact'
<1>1. WaitingHandlers' = WaitingHandlers
  BY DEF WaitingHandlers, Goto, TypeOK
<1>. QED
  BY <1>1 DEF QueueExact, WaitingHandlers, multiuserlimit, muint

LEMMA QueueGrows ==
    ASSUME TypeOK, QueueExact, ~SplitUpdates, NEW h \in Handlers, CheckQueue(h), MayQueue
    PROVE  QueueExact'
<1>1. pc[h] \notin Queued /\ Goto(h, "wait") /\ requestsinqueue' = requestsinqueue + 1
  BY DEF CheckQueue, Queued
<1>2. WaitingHandlers' = WaitingHandlers \cup {h} /\ h \notin WaitingHandlers
  BY <1>1 DEF WaitingHandlers, Goto, TypeOK, Queued
<1>3. Cardinality(WaitingHandlers') = Cardinality(WaitingHandlers) + 1
  BY <1>2, WaitingFinite, FS_AddElement
<1>4. requestsinqueue' = Cardinality(WaitingHandlers')
  BY <1>1, <1>3 DEF QueueExact, WaitingHandlers
<1>5. requestsinqueue + 1 <= multiuserlimit
  BY ServerAssumption DEF MayQueue, TypeOK, multiuserlimit, muint
<1>. QED
  BY <1>1, <1>4, <1>5 DEF QueueExact, WaitingHandlers, multiuserlimit, muint

LEMMA QueueShrinks ==
    ASSUME TypeOK, QueueExact, ~SplitUpdates, NEW h \in Handlers, Dequeue(h)
    PROVE  QueueExact'
<1>1. pc[h] \in Queued /\ Goto(h, "serve") /\ requestsinqueue' = OneLess
  BY DEF Dequeue, Queued
<1>2. WaitingHandlers' = WaitingHandlers \ {h} /\ h \in WaitingHandlers
  BY <1>1 DEF WaitingHandlers, Goto, TypeOK, Queued
<1>3. Cardinality(WaitingHandlers') = Cardinality(WaitingHandlers) - 1
  BY <1>2, WaitingFinite, FS_RemoveElement
<1>4. Cardinality(WaitingHandlers) # 0
  BY <1>2, WaitingFinite, FS_EmptySet
<1>5. requestsinqueue = Cardinality(WaitingHandlers)
  BY DEF QueueExact, WaitingHandlers
<1>6. requestsinqueue' = Cardinality(WaitingHandlers') /\ requestsinqueue' <= requestsinqueue
  BY <1>1, <1>3, <1>4, <1>5, WaitingFinite DEF OneLess
<1>7. requestsinqueue' <= multiuserlimit
  <2>1. requestsinqueue <= multiuserlimit /\ multiuserlimit \in Int
    BY ServerAssumption DEF QueueExact, multiuserlimit, muint
  <2>. QED
    BY <1>1, <2>1 DEF OneLess, TypeOK
<1>. QED
  BY <1>6, <1>7 DEF QueueExact, WaitingHandlers, multiuserlimit, muint

LEMMA AdmitQueue ==
    ASSUME QueueInv, ~SplitUpdates, NEW h \in Handlers, Admit(h)
    PROVE  QueueExact' /\ UpdatesWhole'
<1>. USE DEF QueueInv, LockInv
<1>1. UpdatesWhole'
  BY DEF UpdatesWhole, Admit, CheckQueue, LoadQueue, StoreQueue, Acquire, TryAcquire, Dequeue,
         StoreDequeue, Goto, TypeOK
<1>2. CASE CheckQueue(h)
  <2>1. CASE MayQueue
    BY <1>1, <1>2, <2>1, QueueGrows
  <2>2. CASE ~MayQueue
    BY <1>1, <1>2, <2>2, QueueStays DEF CheckQueue, Queued
  <2>. QED
    BY <2>1, <2>2
<1>3. CASE Acquire(h)
  BY <1>1, <1>3, QueueStays DEF Acquire, Queued
<1>4. CASE TryAcquire(h)
  BY <1>1, <1>4, QueueStays DEF TryAcquire, Queued
<1>5. CASE Dequeue(h)
  BY <1>1, <1>5, QueueShrinks
<1>6. ~LoadQueue(h) /\ ~StoreQueue(h) /\ ~StoreDequeue(h)
  BY DEF UpdatesWhole, LoadQueue, StoreQueue, StoreDequeue
<1>. QED
  BY <1>1, <1>2, <1>3, <1>4, <1>5, <1>6 DEF Admit

\* The steps outside admission take no handler into the queue or out of it.
LEMMA OtherQueue ==
    ASSUME QueueInv, NEW h \in Handlers,
           Receive(h) \/ Serve(h) \/ Generate(h) \/ Stream(h)
    PROVE  QueueExact' /\ UpdatesWhole'
<1>. USE DEF QueueInv, LockInv
<1>1. UNCHANGED requestsinqueue
  BY GenerateKeepsLock
     DEF lockVars, Receive, Serve, RejectBody, StartModel, FinishModel, StartText, Reply, Release,
         Stream, SendHeaders, HeadersFail, WakeStream, PollFinished, DrainTokens, DrainFails
<1>2. \/ UNCHANGED pc
      \/ \E stage \in {"check", "release", "idle"} :
           Goto(h, stage) /\ pc[h] \in {"idle", "serve", "release"}
  BY GenerateKeepsLock
     DEF lockVars, Receive, Serve, RejectBody, StartModel, FinishModel, StartText, Reply, Release,
         Stream, SendHeaders, HeadersFail, WakeStream, PollFinished, DrainTokens, DrainFails,
         HeadersInside
<1>3. CASE UNCHANGED pc
  BY <1>1, <1>3 DEF QueueExact, UpdatesWhole, multiuserlimit, muint
<1>4. CASE \E stage \in {"check", "release", "idle"} :
             Goto(h, stage) /\ pc[h] \in {"idle", "serve", "release"}
  <2>1. QueueExact'
    BY <1>1, <1>4, QueueStays DEF Queued
  <2>2. UpdatesWhole'
    BY <1>4 DEF UpdatesWhole, Goto, TypeOK
  <2>. QED
    BY <2>1, <2>2
<1>. QED
  BY <1>2, <1>3, <1>4

\* requestsinqueue, which the endpoints read without the lock, is the number
\* of handlers in the queue and never above the limit, for any number of them.
THEOREM QueueCounted ==
    ASSUME ~SplitUpdates
    PROVE  Spec => []QueueExact
<1>1. Init => QueueInv
  <2>. SUFFICES ASSUME Init PROVE QueueInv
    OBVIOUS
  <2>1. LockInv
    <3>. LockHeld /\ HeadersInside
      BY ServerAssumption DEF Init, LockHeld, HeadersInside, Locked
    <3>. QED
      BY InitType DEF LockInv
  <2>2. UpdatesWhole
    BY DEF Init, UpdatesWhole
  <2>3. WaitingHandlers = {}
    BY DEF Init, WaitingHandlers, Queued
  <2>4. QueueExact
    <3>1. Cardinality(WaitingHandlers) = 0
      BY <2>3, FS_EmptySet
    <3>2. 0 <= multiuserlimit
      BY ServerAssumption DEF multiuserlimit, muint
    <3>. QED
      BY <3>1, <3>2 DEF Init, QueueExact, WaitingHandlers
  <2>. QED
    BY <2>1, <2>2, <2>4 DEF QueueInv
<1>2. QueueInv /\ [Next]_vars => QueueInv'
  <2>. SUFFICES ASSUME QueueInv, [Next]_vars PROVE QueueInv'
    OBVIOUS
  <2>1. LockInv'
    BY LockInductive DEF QueueInv
  <2>2. CASE UNCHANGED <<pc, requestsinqueue>>
    BY <2>1, <2>2 DEF QueueInv, QueueExact, UpdatesWhole, multiuserlimit, muint
  <2>3. CASE Abort
    BY <2>2, <2>3, AbortKeepsLock DEF lockVars
  <2>4. CASE UNCHANGED vars
    BY <2>2, <2>4 DEF vars, lockVars
  <2>. QED
    BY <2>1, <2>3, <2>4, AdmitQueue, OtherQueue DEF Next, QueueInv
<1>3. QueueInv => QueueExact
  BY DEF QueueInv
<1>. QED
  BY <1>1, <1>2, <1>3, PTL DEF Spec
-----------------------------------------------------------------------------
(* Whose output the buffers hold, and what an abort stops                  *)

Published == {"keyed", "entered", "cleared"} \cup Looping

\* Once published, the key of the generation under way stays the current one.
KeyPublished == \A h \in Handlers : gen[h] \in Published => currentusergenkey = req[h].key

OutputOwned ==
    \A h \in Handlers : gen[h] \in Looping => output = [of |-> h, key |-> req[h].key]

OutputInv == ServiceInv /\ KeyPublished /\ OutputOwned

\* One generation is under way at a time, also outside the native code.
LEMMA OneUnderWay ==
    ASSUME ServiceInv, NEW g \in Handlers, NEW h \in Handlers,
           gen[g] \notin {"none", "done"}, gen[h] \notin {"none", "done"}
    PROVE  g = h
BY DEF ServiceInv, GenLocked, LockInv, LockHeld, Locked

\* A handler that takes a request, or is done with one, has no generation under
\* way, and what it changes of request and output concerns no other.
LEMMA IdleOutput ==
    ASSUME OutputInv, NEW h \in Handlers, Receive(h) \/ Release(h)
    PROVE  KeyPublished' /\ OutputOwned'
<1>. USE DEF OutputInv, ServiceInv, LockInv, TypeOK
<1>. SUFFICES ASSUME NEW g \in Handlers
              PROVE  /\ gen'[g] \in Published => currentusergenkey' = req'[g].key
                     /\ gen'[g] \in Looping => output' = [of |-> g, key |-> req'[g].key]
  BY DEF KeyPublished, OutputOwned
<1>1. CASE g = h
  <2>1. gen'[h] \in {"none", "done"}
    BY DEF Receive, Release, GenGoto, GenLocked
  <2>. QED
    BY <1>1, <2>1 DEF Published, Looping
<1>2. CASE g # h
  <2>1. gen'[g] = gen[g] /\ req'[g] = req[g] /\ UNCHANGED currentusergenkey
    BY <1>2 DEF Receive, Release, GenGoto, keyVars
  <2>2. gen[g] \in Looping => output' = output
    <3>1. gen[g] \in Looping => output.of = g
      BY DEF OutputOwned
    <3>. QED
      BY <1>2, <3>1 DEF Receive, Release, backendVars
  <2>. QED
    BY <2>1, <2>2 DEF KeyPublished, OutputOwned
<1>. QED
  BY <1>1, <1>2

\* The steps of a handler that change neither key nor output start none.
LEMMA QuietOutput ==
    ASSUME OutputInv, UNCHANGED <<req, currentusergenkey, output>>,
           \A g \in Handlers : gen'[g] \in Published => gen'[g] = gen[g]
    PROVE  KeyPublished' /\ OutputOwned'
BY DEF OutputInv, KeyPublished, OutputOwned, Published

LEMMA ServeOutput ==
    ASSUME OutputInv, NEW h \in Handlers, Admit(h) \/ Serve(h) \/ Stream(h)
    PROVE  KeyPublished' /\ OutputOwned'
<1>1. CASE Release(h)
  BY <1>1, IdleOutput
<1>2. CASE ~Release(h)
  <2>1. UNCHANGED <<req, currentusergenkey, output>>
    BY <1>2 DEF Admit, CheckQueue, LoadQueue, StoreQueue, Acquire, TryAcquire, Dequeue,
       StoreDequeue, Serve, RejectBody, StartModel, FinishModel, StartText, Reply,
       Stream, SendHeaders, HeadersFail, WakeStream, PollFinished, DrainTokens, DrainFails,
       lockVars, keyVars, backendVars
  <2>2. UNCHANGED gen \/ \E stage \in {"busy", "done", "prep"} : GenGoto(h, stage)
    BY <1>2 DEF Admit, CheckQueue, LoadQueue, StoreQueue, Acquire, TryAcquire, Dequeue,
       StoreDequeue, Serve, RejectBody, StartModel, FinishModel, StartText, Reply,
       Stream, SendHeaders, HeadersFail, WakeStream, PollFinished, DrainTokens, DrainFails
  <2>3. \A g \in Handlers : gen'[g] \in Published => gen'[g] = gen[g]
    BY <2>2 DEF GenGoto, Published, Looping, OutputInv, ServiceInv, LockInv, TypeOK
  <2>. QED
    BY <2>1, <2>3, QuietOutput
<1>. QED
  BY <1>1, <1>2

LEMMA GenerateOutput ==
    ASSUME OutputInv, NEW h \in Handlers, Generate(h)
    PROVE  KeyPublished' /\ OutputOwned'
<1>. USE DEF OutputInv
<1>1. UNCHANGED req
  BY GenerateKeepsLock DEF lockVars
<1>2. gen[h] \notin {"none", "done"}
  BY DEF Generate, PrepRaises, PublishKey, DeferredAbort, EnterBackend,
         ResetStatus, ResetOutput, StartTurn, EvalFails, SkipSampling, ChooseToken,
         PushToken, FlushTokens, FinishGeneration
<1>3. \E stage \in GenStages : gen' = [gen EXCEPT ![h] = stage]
  BY DEF Generate, PrepRaises, PublishKey, DeferredAbort, EnterBackend,
         ResetStatus, ResetOutput, StartTurn, EvalFails, SkipSampling, ChooseToken,
         PushToken, FlushTokens, FinishGeneration, GenGoto, GenStages, Looping
<1>4. \A g \in Handlers \ {h} : gen'[g] \in {"none", "done"}
  <2>1. \A g \in Handlers \ {h} : gen[g] \in {"none", "done"}
    BY <1>2, OneUnderWay
  <2>. QED
    BY <1>3, <2>1 DEF ServiceInv, LockInv, TypeOK
<1>5. gen'[h] \in Published => currentusergenkey' = req[h].key
  BY DEF Generate, PrepRaises, PublishKey, DeferredAbort, EnterBackend,
         ResetStatus, ResetOutput, StartTurn, EvalFails, SkipSampling, ChooseToken,
         PushToken, FlushTokens, FinishGeneration,
         GenGoto, Published, Looping, KeyPublished, keyVars, ServiceInv, LockInv, TypeOK
<1>6. gen'[h] \in Looping => output' = [of |-> h, key |-> req[h].key]
  BY DEF Generate, PrepRaises, PublishKey, DeferredAbort, EnterBackend,
         ResetStatus, ResetOutput, StartTurn, EvalFails, SkipSampling, ChooseToken,
         PushToken, FlushTokens, FinishGeneration, backendVars,
         GenGoto, Looping, OutputOwned, ServiceInv, LockInv, TypeOK
<1>. QED
  BY <1>1, <1>4, <1>5, <1>6 DEF KeyPublished, OutputOwned, Published, Looping

LEMMA OutputInductive ==
    ASSUME ~ClientLeaves, OutputInv, [Next]_vars
    PROVE  OutputInv'
<1>1. ServiceInv'
  BY ServiceInductive DEF OutputInv
<1>2. CASE UNCHANGED <<req, currentusergenkey, output, gen>>
  BY <1>1, <1>2 DEF OutputInv, KeyPublished, OutputOwned
<1>3. CASE Abort
  <2>1. UNCHANGED <<req, currentusergenkey, output, gen>>
    BY <1>3 DEF Abort, AbortCall, AbortCheck, AbortLater, lockVars, backendVars
  <2>. QED
    BY <1>2, <2>1
<1>4. CASE UNCHANGED vars
  BY <1>2, <1>4 DEF vars, lockVars, keyVars, backendVars
<1>. QED
  BY <1>1, <1>3, <1>4, IdleOutput, ServeOutput, GenerateOutput DEF Next, OutputInv

LEMMA OutputInit == Init => OutputInv
BY ServiceInit DEF OutputInv, KeyPublished, OutputOwned, Published, Looping, Init

\* While a generation produces tokens, the lock and the buffers are its
\* request's, and the check endpoint shows its text to no other key.
THEOREM OutputIsOwn ==
    ASSUME ~ClientLeaves
    PROVE  Spec => []RunningOwnsOutput
<1>1. OutputInv => RunningOwnsOutput
  <2>. SUFFICES ASSUME OutputInv, NEW h \in Handlers, gen[h] \in Looping
                PROVE  /\ modelbusy = h
                       /\ output = [of |-> h, key |-> req[h].key]
                       /\ currentusergenkey = req[h].key
    BY DEF RunningOwnsOutput, CheckAnswers
  <2>1. modelbusy = h
    BY DEF OutputInv, ServiceInv, GenLocked, LockInv, LockHeld, Locked, Looping
  <2>. QED
    BY <2>1 DEF OutputInv, KeyPublished, OutputOwned, Published
<1>. QED
  BY <1>1, OutputInit, OutputInductive, PTL DEF Spec

\* What an abort leaves to come, in one step of the loop of h.
StopsChoosing(h) ==
    gen[h] \in Looping /\ gen'[h] \in Looping /\ early_abort =>
        /\ early_abort'
        /\ remaining_tokens' = remaining_tokens
        /\ ntokens' + delayed' > ntokens + delayed
             => gen[h] = "sampling" /\ ntokens' + delayed' = ntokens + delayed + 1

\* Of one delayed token more, some move on and some are kept.
LEMMA AtMostOneMore ==
    ASSUME NEW d \in Nat, NEW out \in Nat, NEW kept \in Nat, kept <= (d + 1) - out
    PROVE  out + kept <= d + 1
OBVIOUS

LEMMA AbortedStep ==
    ASSUME OutputInv, Next, NEW h \in Handlers
    PROVE  StopsChoosing(h)
<1>. SUFFICES ASSUME gen[h] \in Looping, gen'[h] \in Looping, early_abort
              PROVE  /\ early_abort'
                     /\ remaining_tokens' = remaining_tokens
                     /\ ntokens' + delayed' > ntokens + delayed
                          => /\ gen[h] = "sampling"
                             /\ ntokens' + delayed' = ntokens + delayed + 1
  BY DEF StopsChoosing
<1>0. ntokens \in Nat /\ delayed \in Nat /\ DelayLimit \in Nat
  BY ServerAssumption DEF OutputInv, ServiceInv, LockInv, TypeOK
<1>1. CASE /\ early_abort'
           /\ UNCHANGED <<remaining_tokens, ntokens, delayed>>
  BY <1>0, <1>1
<1>2. ASSUME NEW g \in Handlers, Generate(g)
      PROVE  g = h
  <2>1. gen[g] \notin {"none", "done"}
    BY <1>2 DEF Generate, PrepRaises, PublishKey, DeferredAbort, EnterBackend,
         ResetStatus, ResetOutput, StartTurn, EvalFails, SkipSampling, ChooseToken,
         PushToken, FlushTokens, FinishGeneration
  <2>. QED
    BY <2>1, OneUnderWay DEF OutputInv, Looping
<1>3. CASE PushToken(h)
  <2>. DEFINE held == delayed + 1
              out  == IF held > DelayLimit THEN held - DelayLimit ELSE 0
  <2>1. /\ gen[h] = "sampling" /\ early_abort' /\ remaining_tokens' = remaining_tokens
        /\ ntokens' = ntokens + out
        /\ delayed' \in 0..(held - out)
    BY <1>3 DEF PushToken
  <2>2. out \in Nat /\ held - out \in Nat /\ held = delayed + 1
    BY <1>0
  <2>. HIDE DEF held, out
  <2>3. PICK moved \in Nat, kept \in Nat :
          ntokens' = ntokens + moved /\ delayed' = kept /\ moved + kept <= delayed + 1
    <3>1. delayed' \in Nat /\ delayed' <= held - out
      BY <2>1, <2>2
    <3>2. delayed' <= (delayed + 1) - out
      BY <2>2, <3>1
    <3>3. out + delayed' <= delayed + 1
      BY <1>0, <2>2, <3>1, <3>2, AtMostOneMore
    <3>. QED
      BY <2>1, <2>2, <3>1, <3>3
  <2>4. ntokens' + delayed' > ntokens + delayed => ntokens' + delayed' = ntokens + delayed + 1
    BY <1>0, <2>3
  <2>. QED
    BY <2>1, <2>4
<1>4. CASE FlushTokens(h)
  BY <1>0, <1>4 DEF FlushTokens
<1>5. ASSUME Generate(h), ~PushToken(h), ~FlushTokens(h)
      PROVE  early_abort' /\ UNCHANGED <<remaining_tokens, ntokens, delayed>>
  <2>1. ~ChooseToken(h) /\ ~ResetOutput(h)
    BY DEF ChooseToken, ResetOutput, Looping
  <2>. QED
    BY <1>5, <2>1 DEF Generate, PrepRaises, PublishKey, DeferredAbort, EnterBackend,
       ResetStatus, StartTurn, EvalFails, SkipSampling, FinishGeneration, backendVars, loopVars
<1>6. ASSUME NEW g \in Handlers, Receive(g) \/ Admit(g) \/ Serve(g) \/ Stream(g)
      PROVE  early_abort' /\ UNCHANGED <<remaining_tokens, ntokens, delayed>>
  BY <1>6 DEF Receive, Admit, CheckQueue, LoadQueue, StoreQueue, Acquire, TryAcquire, Dequeue,
     StoreDequeue, Serve, RejectBody, StartModel, FinishModel, StartText, Reply, Release,
     Stream, SendHeaders, HeadersFail, WakeStream, PollFinished, DrainTokens, DrainFails,
     backendVars, loopVars
<1>7. ASSUME Abort
      PROVE  early_abort' /\ UNCHANGED <<remaining_tokens, ntokens, delayed>>
  BY <1>7 DEF Abort, AbortCall, AbortCheck, AbortLater, backendVars, loopVars
<1>. QED
  BY <1>1, <1>2, <1>3, <1>4, <1>5, <1>6, <1>7 DEF Next

\* An abort that arrives during a generation is not undone before it ends, by
\* whatever thread, and no further token is chosen: the one past the last test
\* of the flag and the delayed ones are all that can follow.
THEOREM AbortIsFinal ==
    ASSUME ~ClientLeaves
    PROVE  Spec => AbortSticks
<1>1. OutputInv /\ [Next]_vars => [\A h \in Handlers : StopsChoosing(h)]_vars
  BY AbortedStep
<1>2. Init => OutputInv
  BY OutputInit
<1>3. OutputInv /\ [Next]_vars => OutputInv'
  BY OutputInductive
<1>. QED
  BY <1>1, <1>2, <1>3, PTL DEF Spec, AbortSticks, StopsChoosing
-----------------------------------------------------------------------------
(* What a stream sends                                                     *)

\* Before its generation has passed the resets, a stream has looked at nothing.
UnsentBefore ==
    \A h \in Handlers : gen[h] \notin Looping \cup {"done"} =>
        /\ sse[h] \notin {"poll", "drain", "ended"}
        /\ ~streamDone[h]
        /\ current_token[h] = 0
        /\ h \notin foreign

\* The flag is down from the reset of a generation to its end.
FlagDown ==
    \A h \in Handlers : gen[h] \in {"cleared"} \cup Looping => ~generation_finished

\* A stream that has read the flag as set belongs to a generation that is over,
\* and no stream ends before it has read that.
OverWhenRead ==
    \A h \in Handlers :
        /\ sse[h] = "ended" => streamDone[h]
        /\ streamDone[h] => gen[h] = "done"

\* No stream has sent more tokens of its generation than there are.
CursorInside == \A h \in Handlers : output.of = h => current_token[h] <= ntokens

StreamInv ==
    /\ OutputInv
    /\ UnsentBefore
    /\ FlagDown
    /\ OverWhenRead
    /\ CursorInside
    /\ StreamWaits
    /\ StreamWhole

StreamParts == UnsentBefore /\ FlagDown /\ OverWhenRead /\ CursorInside /\ StreamWaits /\ StreamWhole

\* Steps that concern neither a generation nor a stream.
LEMMA QuietStream ==
    ASSUME StreamInv,
           UNCHANGED <<generation_finished, ntokens, output, streamVars, gen>>
    PROVE  StreamParts'
BY DEF StreamInv, StreamParts, UnsentBefore, FlagDown, OverWhenRead, CursorInside,
       StreamWaits, StreamWhole, streamVars

\* A handler that does not serve has neither generation nor stream.
LEMMA ReceiveStream ==
    ASSUME StreamInv, NEW h \in Handlers, Receive(h)
    PROVE  StreamParts'
<1>1. gen[h] = "none"
  BY DEF Receive, StreamInv, OutputInv, ServiceInv, GenLocked
<1>2. UNCHANGED gen
  BY <1>1 DEF Receive, GenGoto, StreamInv, OutputInv, ServiceInv, LockInv, TypeOK
<1>. QED
  BY <1>2, QuietStream DEF Receive, backendVars

LEMMA ReleaseStream ==
    ASSUME StreamInv, NEW h \in Handlers, Release(h)
    PROVE  StreamParts'
<1>. USE DEF StreamInv, OutputInv, ServiceInv, LockInv, TypeOK
<1>1. gen[h] \in {"none", "done"}
  BY DEF Release, GenLocked
<1>2. /\ \A g \in Handlers \ {h} : /\ gen'[g] = gen[g] /\ sse'[g] = sse[g]
                                   /\ current_token'[g] = current_token[g]
                                   /\ streamDone'[g] = streamDone[g]
                                   /\ output'.of = g <=> output.of = g
      /\ foreign' = foreign \ {h}
      /\ UNCHANGED <<generation_finished, ntokens>>
  BY <1>1, ServerAssumption DEF Release, GenGoto, StreamGoto
<1>3. /\ gen'[h] = "none" /\ sse'[h] = "off" /\ current_token'[h] = 0
      /\ ~streamDone'[h] /\ output'.of # h
  BY <1>1, ServerAssumption DEF Release, GenGoto, StreamGoto
<1>4. UnsentBefore'
  BY <1>2, <1>3 DEF UnsentBefore
<1>5. FlagDown'
  BY <1>2, <1>3 DEF FlagDown, Looping
<1>6. OverWhenRead'
  BY <1>2, <1>3 DEF OverWhenRead
<1>7. CursorInside'
  BY <1>2, <1>3 DEF CursorInside
<1>8. StreamWaits'
  BY <1>2, <1>3 DEF StreamWaits
<1>9. StreamWhole'
  BY <1>2, <1>3 DEF StreamWhole
<1>. QED
  BY <1>4, <1>5, <1>6, <1>7, <1>8, <1>9 DEF StreamParts

\* A step that moves one generation on, its stream perhaps with it, and
\* touches neither flag nor output.
LEMMA MoveStream ==
    ASSUME StreamInv, NEW h \in Handlers,
           UNCHANGED <<generation_finished, ntokens, output, current_token, streamDone, foreign>>,
           NEW stage \in {"prep", "keyed", "entered", "busy", "done"}, GenGoto(h, stage),
           gen[h] \notin Looping \cup {"done"},
           NEW stream \in {"off", "headers", "broken", sse[h]}, StreamGoto(h, stream)
    PROVE  StreamParts'
<1>. USE DEF StreamInv, OutputInv, ServiceInv, LockInv, TypeOK
<1>1. \A g \in Handlers \ {h} : gen'[g] = gen[g] /\ sse'[g] = sse[g]
  BY DEF GenGoto, StreamGoto
<1>2. gen'[h] \notin {"cleared"} \cup Looping /\ sse'[h] \notin {"poll", "drain", "ended"}
  BY DEF GenGoto, StreamGoto, UnsentBefore, Looping
<1>3. current_token[h] = 0 /\ h \notin foreign /\ ~streamDone[h]
  BY DEF UnsentBefore
<1>4. UnsentBefore'
  BY <1>1, <1>2, <1>3 DEF UnsentBefore
<1>5. FlagDown'
  BY <1>1, <1>2 DEF FlagDown
<1>6. OverWhenRead'
  BY <1>1, <1>2, <1>3 DEF OverWhenRead
<1>7. CursorInside'
  BY DEF CursorInside
<1>8. StreamWaits' /\ StreamWhole'
  BY <1>1, <1>2, <1>3 DEF StreamWaits, StreamWhole
<1>. QED
  BY <1>4, <1>5, <1>6, <1>7, <1>8 DEF StreamParts

LEMMA ServeStream ==
    ASSUME StreamInv, NEW h \in Handlers, Admit(h) \/ Serve(h)
    PROVE  StreamParts'
<1>. USE DEF StreamInv, OutputInv, ServiceInv, LockInv, TypeOK
<1>1. sse = [sse EXCEPT ![h] = sse[h]]
  OBVIOUS
<1>2. CASE StartModel(h)
  <2>1. GenGoto(h, "busy") /\ StreamGoto(h, sse[h])
    BY <1>1, <1>2 DEF StartModel, StreamGoto, streamVars
  <2>. QED
    BY <1>2, <2>1, MoveStream DEF StartModel, Looping, backendVars, streamVars
<1>3. CASE FinishModel(h)
  <2>1. GenGoto(h, "done") /\ StreamGoto(h, sse[h])
    BY <1>1, <1>3 DEF FinishModel, StreamGoto, streamVars
  <2>. QED
    BY <1>3, <2>1, MoveStream DEF FinishModel, Looping, backendVars, streamVars
<1>4. CASE StartText(h)
  <2>1. \/ GenGoto(h, "prep") /\ StreamGoto(h, "off")
        \/ GenGoto(h, "prep") /\ StreamGoto(h, "headers")
    BY <1>4 DEF StartText
  <2>. QED
    BY <1>4, <2>1, MoveStream DEF StartText, Looping, backendVars
<1>5. CASE Release(h)
  BY <1>5, ReleaseStream
<1>6. CASE RejectBody(h) \/ Reply(h) \/ Admit(h)
  BY <1>6, QuietStream DEF RejectBody, Reply, Admit, CheckQueue, LoadQueue, StoreQueue,
     Acquire, TryAcquire, Dequeue, StoreDequeue, backendVars
<1>. QED
  BY <1>2, <1>3, <1>4, <1>5, <1>6 DEF Serve

\* While one generation is under way, every other is over or not begun.
LEMMA OthersIdle ==
    ASSUME StreamInv, NEW h \in Handlers, gen[h] \notin {"none", "done"}
    PROVE  \A g \in Handlers \ {h} : gen[g] \in {"none", "done"}
BY OneUnderWay DEF StreamInv, OutputInv

LEMMA GenerateStream ==
    ASSUME StreamInv, NEW h \in Handlers, Generate(h)
    PROVE  StreamParts'
<1>. USE DEF StreamInv, OutputInv, ServiceInv, LockInv, TypeOK
<1>1. sse = [sse EXCEPT ![h] = sse[h]]
  OBVIOUS
<1>2. CASE PrepRaises(h)
  <2>1. \/ GenGoto(h, "done") /\ StreamGoto(h, "off")
        \/ GenGoto(h, "done") /\ StreamGoto(h, "broken")
    BY <1>2 DEF PrepRaises
  <2>. QED
    BY <1>2, <2>1, MoveStream DEF PrepRaises, Looping, backendVars
<1>3. CASE PublishKey(h) \/ DeferredAbort(h) \/ EnterBackend(h)
  <2>1. /\ \E stage \in {"keyed", "entered", "done"} : GenGoto(h, stage)
        /\ StreamGoto(h, sse[h])
    BY <1>1, <1>3 DEF PublishKey, DeferredAbort, EnterBackend, StreamGoto, streamVars
  <2>. QED
    BY <1>3, <2>1, MoveStream
       DEF PublishKey, DeferredAbort, EnterBackend, Looping, backendVars, streamVars
<1>4. ASSUME NEW g \in Handlers \ {h}
      PROVE  /\ gen'[g] = gen[g]
             /\ gen[h] \notin {"none", "done"} => gen[g] \in {"none", "done"}
  BY OthersIdle DEF Generate, PrepRaises, PublishKey, DeferredAbort, EnterBackend,
     ResetStatus, ResetOutput, StartTurn, EvalFails, SkipSampling, ChooseToken,
         PushToken, FlushTokens, FinishGeneration, GenGoto
<1>5. CASE ResetStatus(h)
  <2>1. /\ ~generation_finished' /\ gen'[h] = "cleared" /\ gen[h] = "entered"
        /\ UNCHANGED <<ntokens, output, sse, current_token, streamDone, foreign>>
    BY <1>5 DEF ResetStatus, GenGoto, streamVars
  <2>2. UnsentBefore' /\ FlagDown'
    BY <2>1, <1>4 DEF UnsentBefore, FlagDown, Looping
  <2>3. OverWhenRead'
    BY <2>1, <1>4 DEF OverWhenRead, UnsentBefore, Looping
  <2>4. CursorInside' /\ StreamWaits' /\ StreamWhole'
    BY <2>1, <1>4 DEF CursorInside, StreamWaits, StreamWhole
  <2>. QED
    BY <2>2, <2>3, <2>4 DEF StreamParts
<1>6. CASE ResetOutput(h)
  <2>1. /\ ntokens' = 0 /\ output'.of = h /\ gen'[h] = "running" /\ gen[h] = "cleared"
        /\ UNCHANGED <<generation_finished, sse, current_token, streamDone, foreign>>
    BY <1>6 DEF ResetOutput, GenGoto, streamVars
  <2>2. /\ current_token[h] = 0 /\ h \notin foreign /\ ~streamDone[h]
        /\ sse[h] \notin {"poll", "drain", "ended"}
    BY <2>1 DEF UnsentBefore, Looping
  <2>3. UnsentBefore' /\ FlagDown'
    BY <2>1, <2>2, <1>4 DEF UnsentBefore, FlagDown, Looping
  <2>4. OverWhenRead'
    BY <2>1, <2>2, <1>4 DEF OverWhenRead
  <2>5. CursorInside' /\ StreamWaits' /\ StreamWhole'
    BY <2>1, <2>2, <1>4 DEF CursorInside, StreamWaits, StreamWhole
  <2>. QED
    BY <2>3, <2>4, <2>5 DEF StreamParts
<1>7. CASE \/ StartTurn(h) \/ SkipSampling(h) \/ ChooseToken(h)
           \/ PushToken(h) \/ FlushTokens(h)
  <2>1. /\ gen[h] \in Looping /\ gen'[h] \in Looping
        /\ UNCHANGED <<generation_finished, output, sse, current_token, streamDone, foreign>>
    BY <1>7 DEF StartTurn, SkipSampling, ChooseToken, PushToken, FlushTokens, GenGoto,
       Looping, backendVars, streamVars
  <2>2. /\ ntokens \in Nat /\ ntokens' \in Nat /\ ntokens' >= ntokens
        /\ current_token \in [Handlers -> Nat]
    <3>1. ntokens \in Nat /\ delayed \in Nat /\ DelayLimit \in Nat
      BY ServerAssumption
    <3>2. CASE PushToken(h)
      BY <3>1, <3>2 DEF PushToken
    <3>3. CASE FlushTokens(h)
      BY <3>1, <3>3 DEF FlushTokens
    <3>4. CASE StartTurn(h) \/ SkipSampling(h) \/ ChooseToken(h)
      BY <3>1, <3>4 DEF StartTurn, SkipSampling, ChooseToken, backendVars
    <3>. QED
      BY <1>7, <3>2, <3>3, <3>4
  <2>3. sse[h] # "ended" /\ output.of = h
    BY <2>1 DEF OverWhenRead, OutputOwned, Looping
  <2>4. UnsentBefore' /\ FlagDown'
    BY <2>1, <1>4 DEF UnsentBefore, FlagDown, Looping
  <2>5. OverWhenRead'
    BY <2>1, <1>4 DEF OverWhenRead, Looping
  <2>6. CursorInside'
    BY <2>1, <2>2 DEF CursorInside
  <2>7. StreamWaits'
    BY <2>1, <1>4 DEF StreamWaits, Looping
  <2>8. StreamWhole'
    BY <2>1, <2>3 DEF StreamWhole
  <2>. QED
    BY <2>4, <2>5, <2>6, <2>7, <2>8 DEF StreamParts
<1>8. CASE FinishGeneration(h) \/ EvalFails(h)
  <2>1. /\ gen[h] \in {"turn", "flushed"} /\ gen'[h] = "done"
        /\ UNCHANGED <<ntokens, output, sse, current_token, streamDone, foreign>>
    BY <1>8 DEF FinishGeneration, EvalFails, GenGoto, streamVars
  <2>2. UnsentBefore' /\ OverWhenRead'
    BY <2>1, <1>4 DEF UnsentBefore, OverWhenRead
  <2>3. FlagDown'
    BY <2>1, <1>4 DEF FlagDown, Looping
  <2>4. CursorInside' /\ StreamWaits' /\ StreamWhole'
    BY <2>1, <1>4 DEF CursorInside, StreamWaits, StreamWhole
  <2>. QED
    BY <2>2, <2>3, <2>4 DEF StreamParts
<1>. QED
  BY <1>2, <1>3, <1>5, <1>6, <1>7, <1>8 DEF Generate

\* The steps of a stream keep its parts when clients stay and prompts are
\* prepared within the delay.
LEMMA StreamStream ==
    ASSUME ~ClientLeaves, ~SlowPrep, StreamInv, NEW h \in Handlers, Stream(h)
    PROVE  StreamParts'
<1>. USE DEF StreamInv, OutputInv, ServiceInv, LockInv, TypeOK
<1>1. UNCHANGED <<generation_finished, ntokens, output, gen>>
  BY DEF Stream, SendHeaders, HeadersFail, WakeStream, PollFinished, DrainTokens, DrainFails, backendVars
<1>2. \A g \in Handlers \ {h} : sse'[g] = sse[g]
  BY DEF Stream, SendHeaders, HeadersFail, WakeStream, PollFinished, DrainTokens, DrainFails, StreamGoto
<1>3. FlagDown'
  BY <1>1 DEF FlagDown
<1>4. CASE SendHeaders(h) \/ WakeStream(h) \/ DrainFails(h)
  <2>1. UNCHANGED <<current_token, streamDone, foreign>>
    BY <1>4 DEF SendHeaders, WakeStream, DrainFails
  <2>2. /\ sse'[h] \in {"delay", "poll", "broken"}
        /\ sse'[h] = "poll" => gen[h] \in Looping \cup {"done"}
    BY <1>4 DEF SendHeaders, WakeStream, DrainFails, StreamGoto
  <2>3. UnsentBefore'
    BY <1>1, <1>2, <2>1, <2>2 DEF UnsentBefore
  <2>4. OverWhenRead'
    BY <1>1, <1>2, <2>1, <2>2 DEF OverWhenRead
  <2>5. CursorInside'
    BY <1>1, <2>1 DEF CursorInside
  <2>6. StreamWhole' /\ StreamWaits'
    BY <1>1, <1>2, <2>1, <2>2 DEF StreamWhole, StreamWaits
  <2>. QED
    BY <1>3, <2>3, <2>4, <2>5, <2>6 DEF StreamParts
<1>5. CASE PollFinished(h)
  <2>1. /\ sse[h] = "poll" /\ sse'[h] = "drain" /\ streamDone'[h] = generation_finished
        /\ \A g \in Handlers \ {h} : streamDone'[g] = streamDone[g]
        /\ UNCHANGED <<current_token, foreign>>
    BY <1>5 DEF PollFinished, StreamGoto
  <2>2. gen[h] \in Looping \cup {"done"}
    BY <2>1 DEF UnsentBefore
  <2>3. UnsentBefore'
    BY <1>1, <1>2, <2>1, <2>2 DEF UnsentBefore
  <2>4. OverWhenRead'
    BY <1>1, <1>2, <2>1, <2>2 DEF OverWhenRead, FlagDown, Looping
  <2>5. CursorInside'
    BY <1>1, <2>1 DEF CursorInside
  <2>6. StreamWhole'
    BY <1>1, <1>2, <2>1 DEF StreamWhole
  <2>7. StreamWaits'
    BY <1>1, <1>2, <2>1, <2>4 DEF StreamWaits, OverWhenRead
  <2>. QED
    BY <1>3, <2>3, <2>4, <2>5, <2>6, <2>7 DEF StreamParts
<1>6. CASE DrainTokens(h)
  <2>1. /\ sse[h] = "drain" /\ sse'[h] \in {"poll", "ended"}
        /\ sse'[h] = "ended" => streamDone[h]
        /\ UNCHANGED streamDone
    BY <1>6 DEF DrainTokens, StreamGoto
  <2>2. gen[h] \in Looping \cup {"done"}
    BY <2>1 DEF UnsentBefore
  <2>3. /\ \A g \in Handlers \ {h} : current_token'[g] = current_token[g]
        /\ current_token'[h] = IF ntokens > current_token[h] THEN ntokens ELSE current_token[h]
    BY <1>6 DEF DrainTokens
  <2>4. /\ foreign' \subseteq foreign \cup {h}
        /\ foreign \subseteq foreign'
        /\ h \in foreign' => h \in foreign \/ output.of # h
    BY <1>6 DEF DrainTokens
  <2>5. UnsentBefore'
    BY <1>1, <1>2, <2>1, <2>2, <2>3, <2>4 DEF UnsentBefore
  <2>6. OverWhenRead'
    BY <1>1, <1>2, <2>1 DEF OverWhenRead
  <2>7. CursorInside'
    BY <1>1, <2>3 DEF CursorInside
  <2>8. StreamWaits'
    <3>1. gen[h] \in Looping => output.of = h
      BY DEF OutputOwned
    <3>2. h \in foreign => gen[h] = "done" /\ output.of # h
      BY DEF StreamWaits
    <3>. QED
      BY <1>1, <1>2, <2>1, <2>2, <2>4, <2>6, <3>1, <3>2 DEF StreamWaits, OverWhenRead
  <2>9. StreamWhole'
    <3>1. output.of = h => current_token'[h] = ntokens
      BY <2>3 DEF CursorInside
    <3>. QED
      BY <1>1, <1>2, <2>3, <2>4, <3>1 DEF StreamWhole
  <2>. QED
    BY <1>3, <2>5, <2>6, <2>7, <2>8, <2>9 DEF StreamParts
<1>. QED
  BY <1>4, <1>5, <1>6 DEF Stream, HeadersFail

LEMMA StreamInductive ==
    ASSUME ~ClientLeaves, ~SlowPrep, StreamInv, [Next]_vars
    PROVE  StreamInv'
<1>1. OutputInv'
  BY OutputInductive DEF StreamInv
<1>2. StreamParts'
  <2>1. CASE Abort
    BY <2>1, QuietStream DEF Abort, AbortCall, AbortCheck, AbortLater, backendVars
  <2>2. CASE UNCHANGED vars
    BY <2>2, QuietStream DEF vars, backendVars
  <2>. QED
    BY <2>1, <2>2, ReceiveStream, ServeStream, GenerateStream, StreamStream DEF Next
<1>. QED
  BY <1>1, <1>2 DEF StreamInv, StreamParts

LEMMA StreamInit == Init => StreamInv
BY OutputInit, ServerAssumption
   DEF StreamInv, UnsentBefore, FlagDown, OverWhenRead, CursorInside, StreamWaits, StreamWhole, Init

\* A stream that ends has sent every token of its generation, whatever aborts,
\* failures and other requests came in between, if its client stayed and the
\* prompt was prepared within the delay of the first poll.
THEOREM StreamsWhole ==
    ASSUME ~ClientLeaves, ~SlowPrep
    PROVE  Spec => []StreamWhole
<1>1. StreamInv => StreamWhole
  BY DEF StreamInv
<1>. QED
  BY <1>1, StreamInit, StreamInductive, PTL DEF Spec

\* A stream does not overtake its generation: it reads the flag as set, and
\* ends, only after its own generation is over, although it may read the flag
\* while that generation is still being prepared by another thread.
THEOREM StreamsWait ==
    ASSUME ~ClientLeaves, ~SlowPrep
    PROVE  Spec => []StreamWaits
<1>1. StreamInv => StreamWaits
  BY DEF StreamInv
<1>. QED
  BY <1>1, StreamInit, StreamInductive, PTL DEF Spec
=============================================================================
