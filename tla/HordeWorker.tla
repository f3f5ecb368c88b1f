----------------------------- MODULE HordeWorker -----------------------------
(***************************************************************************)
(* run_horde_worker of koboldcpp.py: a thread that fetches jobs from a     *)
(* cluster of volunteers, has its own server generate them and submits the *)
(* answers, each from a thread of its own. It keeps off while local        *)
(* clients use the server, slows down on errors and ends on too many, when *)
(* the server closes, or by an exception.                                  *)
(*                                                                         *)
(* The server is what SerialService says of it, which KcppServer is proved *)
(* to implement: the worker is one client among others, and a request it   *)
(* no longer waits for stays in the server until it is served. The cluster *)
(* answers as it likes.                                                    *)
(***************************************************************************)
EXTENDS Naturals

CONSTANTS
    Jobs,         \* the jobs of the cluster
    Posts,        \* the places the worker's requests may take in the server
    Locals,       \* the local clients
    ExitLimit,    \* exitcounter of a worker that ends
    Closing,      \* exitcounter when the server closes: 999
    PunishLimit,  \* punishcounter of a worker that is paused
    RewardLimit,  \* rewardcounter that takes back a pause
    Tries,        \* currentjob_attempts that may fail without ending the job
    NoJob, NoPost, Nobody

ASSUME WorkerAssumption ==
    /\ ExitLimit \in Nat \ {0} /\ PunishLimit \in Nat \ {0}
    /\ RewardLimit \in Nat /\ Tries \in Nat
    /\ Closing \in Nat /\ Closing > ExitLimit
    /\ NoJob \notin Jobs /\ NoPost \notin Posts \cup Locals
    /\ Posts \cap Locals = {} /\ Nobody \notin Posts \cup Locals

VARIABLES
    holder,              \* the request that holds modelbusy, or Nobody
    phase,               \* where each request is in the server
    answered,            \* the requests that were answered and not yet let go
    asked,               \* the job each of the worker's requests is about
    recent,              \* whether a local client was served in the last 20 s
    cluster,             \* whether the cluster can be reached
    at,                  \* where the worker is
    current_id,          \* the job in hand, or NoJob
    current_generation,  \* the job that the text in hand answers, or NoJob
    pending,             \* the request whose reply the worker waits for
    currentjob_attempts,
    punishcounter,
    exitcounter,
    rewardcounter,
    submits,             \* answers on their way: <<job, job the text answers>>
    errors               \* ghost: failed fetches and submits, as far as needed

serverVars  == <<holder, phase>>
worldVars   == <<recent, cluster>>
jobVars     == <<current_id, current_generation, currentjob_attempts>>
requestVars == <<asked, answered, pending>>
countVars   == <<punishcounter, exitcounter, rewardcounter, errors>>
vars == <<serverVars, worldVars, jobVars, requestVars, countVars, at, submits>>

Server == INSTANCE SerialService WITH Clients <- Posts \cup Locals

Enough == ExitLimit * PunishLimit

Init ==
    /\ Server!Init
    /\ asked = [r \in Posts |-> NoJob]
    /\ answered = {}
    /\ recent = TRUE
    /\ cluster = "up"
    /\ at = "start"
    /\ current_id = NoJob
    /\ current_generation = NoJob
    /\ pending = NoPost
    /\ currentjob_attempts = 0
    /\ punishcounter = 0
    /\ exitcounter = 0
    /\ rewardcounter = 0
    /\ submits = {}
    /\ errors = 0

-----------------------------------------------------------------------------
(* The loop of the worker                                                  *)

\* The server answers at last.
Ready ==
    /\ at = "start"
    /\ at' = "head"
    /\ UNCHANGED <<serverVars, worldVars, jobVars, requestVars, countVars, submits>>

\* Variant: the text of the job before stays in hand.
BeginKeepingText ==
    /\ at = "head"
    /\ exitcounter < ExitLimit
    /\ currentjob_attempts' = 0
    /\ at' = IF punishcounter >= PunishLimit THEN "punished" ELSE "free"
    /\ UNCHANGED <<serverVars, worldVars, requestVars, countVars, submits,
                   current_id, current_generation>>

Begin ==
    /\ at = "head"
    /\ exitcounter < ExitLimit
    /\ currentjob_attempts' = 0
    /\ current_generation' = NoJob
    /\ at' = IF punishcounter >= PunishLimit THEN "punished" ELSE "free"
    /\ UNCHANGED <<serverVars, worldVars, requestVars, countVars, submits, current_id>>

\* One pause more. Nothing takes it from the value it closes with to below the
\* limit: 900 pauses would have to be taken back by submits on their way.
OnePauseMore == exitcounter' = IF exitcounter = Closing THEN Closing ELSE exitcounter + 1

\* Variant: the errors that led to a pause are counted again for the next.
PauseAgain ==
    /\ at = "punished"
    /\ OnePauseMore
    /\ at' = "free"
    /\ UNCHANGED <<serverVars, worldVars, jobVars, requestVars, submits,
                   punishcounter, rewardcounter, errors>>

\* The worker is paused, twice as long each time. At the limit it is not, and
\* goes on for another round.
Pause ==
    /\ at = "punished"
    /\ punishcounter' = 0
    /\ OnePauseMore
    /\ at' = "free"
    /\ UNCHANGED <<serverVars, worldVars, jobVars, requestVars, submits,
                   rewardcounter, errors>>

\* A job is fetched only if no local client was served recently and the model
\* is free, one tested after the other.
LookAround ==
    /\ \/ at = "free" /\ at' = IF recent THEN "head" ELSE "unused"
       \/ at = "unused" /\ at' = IF holder = Nobody THEN "pop" ELSE "head"
    /\ UNCHANGED <<serverVars, worldVars, jobVars, requestVars, countVars, submits>>

\* Another error.
CountError ==
    /\ punishcounter' = punishcounter + 1
    /\ errors' = IF errors < Enough THEN errors + 1 ELSE errors

\* Variant: it is not counted.
PopFailsUnpunished ==
    /\ at = "pop"
    /\ at' = "head"
    /\ UNCHANGED <<serverVars, worldVars, jobVars, requestVars, submits, countVars>>

PopFails ==
    /\ at = "pop"
    /\ CountError
    /\ at' = "head"
    /\ UNCHANGED <<serverVars, worldVars, jobVars, requestVars, submits,
                   exitcounter, rewardcounter>>

\* The cluster has no job, or hands out one that is not being worked on.
Pop ==
    /\ at = "pop"
    /\ cluster = "up"
    /\ \/ at' = "head" /\ UNCHANGED current_id
       \/ /\ \E j \in Jobs :
               /\ \A r \in Posts : asked[r] # j
               /\ \A s \in submits : s[1] # j
               /\ current_id' = j
          /\ at' = "try"
    /\ UNCHANGED <<serverVars, worldVars, requestVars, countVars, submits,
                   current_generation, currentjob_attempts>>

\* Its answer is not what the worker expects: the exception ends the worker.
PopRaises ==
    /\ at = "pop"
    /\ cluster = "up"
    /\ at' = "raised"
    /\ UNCHANGED <<serverVars, worldVars, jobVars, requestVars, countVars, submits>>

\* The test of the inner loop, where the worker waits for the model to be free.
Test ==
    /\ at = "try"
    /\ \/ exitcounter >= ExitLimit /\ at' = "submit"
       \/ exitcounter < ExitLimit /\ holder = Nobody /\ at' = "post"
    /\ UNCHANGED <<serverVars, worldVars, jobVars, requestVars, countVars, submits>>

Post ==
    /\ at = "post"
    /\ \E r \in Posts :
         /\ Server!Ask(r)
         /\ asked' = [asked EXCEPT ![r] = current_id]
         /\ pending' = r
    /\ at' = "reply"
    /\ UNCHANGED <<worldVars, jobVars, countVars, submits, answered>>

\* Variant: failed attempts are not counted.
FailAgain ==
    /\ pending' = NoPost
    /\ at' = "try"
    /\ UNCHANGED <<currentjob_attempts, current_id, current_generation>>

\* An attempt failed: the worker tries again, or gives the job up.
Fail ==
    /\ pending' = NoPost
    /\ currentjob_attempts' = currentjob_attempts + 1
    /\ at' = IF currentjob_attempts' > Tries THEN "submit" ELSE "try"
    /\ UNCHANGED <<current_id, current_generation>>

\* The server cannot be reached, no place in it is left, or it has not answered
\* in 300 s. The request, if there is one, stays where it is.
PostFails ==
    /\ at \in {"post", "reply"}
    /\ Fail
    /\ UNCHANGED <<serverVars, worldVars, countVars, submits, asked, answered>>

\* A thread of its own takes the answer to the cluster; a job without one is
\* abandoned.
Submit ==
    /\ at = "submit"
    /\ submits' = IF current_generation # NoJob
                  THEN submits \cup {<<current_id, current_generation>>}
                  ELSE submits
    /\ current_id' = NoJob
    /\ at' = "head"
    /\ UNCHANGED <<serverVars, worldVars, requestVars, countVars,
                   current_generation, currentjob_attempts>>

\* The server's answer holds no text where the worker looks for it.
SubmitRaises ==
    /\ at = "submit"
    /\ current_generation # NoJob
    /\ at' = "raised"
    /\ UNCHANGED <<serverVars, worldVars, jobVars, requestVars, countVars, submits>>

\* The worker ends on too many errors, or because the server closes.
Stop ==
    /\ at = "head"
    /\ exitcounter >= ExitLimit
    /\ at' = IF exitcounter = Closing THEN "closed" ELSE "stopped"
    /\ exitcounter' = Closing
    /\ UNCHANGED <<serverVars, worldVars, jobVars, requestVars, submits,
                   punishcounter, rewardcounter, errors>>

-----------------------------------------------------------------------------
(* The submitting threads                                                  *)

\* Variant: a success always takes back a pause.
CreditAlways ==
    /\ rewardcounter' = 0
    /\ exitcounter' = IF exitcounter = Closing THEN Closing ELSE exitcounter - 1

\* More than RewardLimit answers accepted take back one pause, but not the first.
Credit ==
    IF rewardcounter + 1 > RewardLimit
    THEN /\ rewardcounter' = 0
         /\ exitcounter' = IF exitcounter \notin {0, 1, Closing}
                           THEN exitcounter - 1 ELSE exitcounter
    ELSE /\ rewardcounter' = rewardcounter + 1
         /\ UNCHANGED exitcounter

\* The cluster takes the answer, or an error is counted. What else it replies
\* ends the thread by an exception that nobody counts.
SubmitEnds ==
    /\ \E s \in submits : submits' = submits \ {s}
    /\ \/ CountError /\ UNCHANGED <<exitcounter, rewardcounter>>
       \/ cluster = "up" /\ Credit /\ UNCHANGED <<punishcounter, errors>>
       \/ cluster = "up" /\ UNCHANGED countVars
    /\ UNCHANGED <<serverVars, worldVars, jobVars, requestVars, at>>

-----------------------------------------------------------------------------
(* The server                                                              *)

\* What becomes of request r concerns the worker only if it still waits for it.
Awaited(r) == at = "reply" /\ pending = r

\* Its place is free for another request.
Gone(r) == asked' = [p \in Posts |-> IF p = r THEN NoJob ELSE asked[p]]

Serve(r) ==
    /\ Server!Grant(r) \/ (r \notin answered /\ Server!Run(r))
    /\ recent' = (recent \/ (r \in Locals /\ phase[r] = "granted"))
    /\ UNCHANGED <<jobVars, requestVars, countVars, at, submits, cluster>>

\* The server is busy (503), or finds nothing it can generate in the request.
Refuse(r) ==
    /\ Server!Refuse(r) \/ (r \notin answered /\ Server!GiveUp(r))
    /\ Gone(r)
    /\ IF Awaited(r) THEN Fail ELSE UNCHANGED <<jobVars, pending, at>>
    /\ UNCHANGED <<worldVars, countVars, submits, answered>>

\* The answer is sent before the model is given up. It holds no text if the
\* request failed with an exception.
Answer(r) ==
    /\ Server!Return(r)
    /\ answered' = answered \cup {r}
    /\ recent' = (recent \/ r \in Locals)
    /\ IF Awaited(r)
       THEN \/ Fail
            \/ /\ current_generation' = asked[r]
               /\ pending' = NoPost
               /\ at' = "submit"
               /\ UNCHANGED <<current_id, currentjob_attempts>>
       ELSE UNCHANGED <<jobVars, pending, at>>
    /\ UNCHANGED <<countVars, submits, asked, cluster>>

Leave(r) ==
    /\ r \in answered
    /\ Server!GiveUp(r)
    /\ answered' = answered \ {r}
    /\ Gone(r)
    /\ UNCHANGED <<worldVars, jobVars, countVars, at, submits, pending>>

-----------------------------------------------------------------------------
(* Local clients, time and the cluster                                     *)

LocalAsk ==
    /\ \E c \in Locals : Server!Ask(c)
    /\ UNCHANGED <<worldVars, jobVars, requestVars, countVars, at, submits>>

\* Twenty seconds have passed.
Elapse ==
    /\ recent
    /\ recent' = FALSE
    /\ UNCHANGED <<serverVars, jobVars, requestVars, countVars, at, submits,
                   cluster>>

ClusterLost ==
    /\ cluster = "up"
    /\ cluster' = "down"
    /\ UNCHANGED <<serverVars, jobVars, requestVars, countVars, at, submits,
                   recent>>

\* A shutdown request or a signal ends the server. Its process may go on for a
\* while, for the threads that are still at work.
Close ==
    /\ exitcounter' = Closing
    /\ UNCHANGED <<serverVars, worldVars, jobVars, requestVars, at, submits,
                   punishcounter, rewardcounter, errors>>

WorkerStep ==
    \/ Ready \/ Begin \/ Pause \/ LookAround \/ PopFails \/ PopRaises
    \/ Pop \/ Test \/ Post \/ PostFails \/ Submit \/ SubmitRaises \/ Stop

ServerStep == \E r \in Posts \cup Locals : \/ Serve(r) \/ Refuse(r)
                                     \/ Answer(r) \/ Leave(r)

Next == \/ WorkerStep \/ SubmitEnds \/ ServerStep
        \/ LocalAsk \/ Elapse \/ ClusterLost \/ Close

Spec == Init /\ [][Next]_vars

\* Threads go on, the server serves somebody and time passes. Nothing is
\* assumed of local clients nor of the cluster.
FairSpec == Spec /\ WF_vars(WorkerStep) /\ WF_vars(SubmitEnds)
                 /\ WF_vars(ServerStep) /\ WF_vars(Elapse)
-----------------------------------------------------------------------------
(* Properties                                                              *)

\* The ends of the worker.
Ended == {"stopped", "closed", "raised"}

TypeOK ==
    /\ holder \in Posts \cup Locals \cup {Nobody}
    /\ phase \in [Posts \cup Locals -> Server!Phases]
    /\ asked \in [Posts -> Jobs \cup {NoJob}]
    /\ answered \subseteq Posts \cup Locals
    /\ recent \in BOOLEAN
    /\ cluster \in {"up", "down"}
    /\ at \in {"start", "head", "punished", "free", "unused", "pop", "try",
               "post", "reply", "submit"} \cup Ended
    /\ current_id \in Jobs \cup {NoJob}
    /\ current_generation \in Jobs \cup {NoJob}
    /\ pending \in Posts \cup {NoPost}
    /\ currentjob_attempts \in 0..Tries + 1
    /\ punishcounter \in Nat
    /\ exitcounter \in 0..ExitLimit \cup {Closing}
    /\ rewardcounter \in 0..RewardLimit
    /\ submits \subseteq Jobs \X Jobs
    /\ errors \in 0..Enough

\* A job is answered with the text generated for it, never with that of a job
\* before, whose requests may still be in the server: what run_horde_worker
\* submits under current_id.
AnswersItsJob == \A s \in submits : s[1] = s[2]

\* What the worker stops for as too many errors are as many: each pause has cost
\* it PunishLimit of them, and what submitting threads take back at the same
\* time, or a server that closes, is never counted as one.
StopsOnErrors == at = "stopped" => errors = Enough

\* Once local clients are quiet the worker gets rid of its job, submitted or
\* abandoned, however often the server refuses it, fails or is slow, unless an
\* exception ends the worker.
LocalsAway == \A c \in Locals : phase[c] = "away"
JobEnds == <>[]LocalsAway => []<>(current_id = NoJob \/ at = "raised")

\* A worker that no longer reaches the cluster ends, whatever it was doing,
\* unless local clients keep it from trying.
EndsWithoutCluster == <>[](LocalsAway /\ cluster = "down") => <>(at \in Ended)
=============================================================================
