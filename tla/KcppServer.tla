----------------------------- MODULE KcppServer -----------------------------
(***************************************************************************)
(* The HTTP server of koboldcpp.py: request handler threads that queue for *)
(* the one lock of the model (modelbusy), run a generation under it, and   *)
(* stream its tokens; and the endpoints that look at or stop a generation  *)
(* without taking the lock.                                                *)
(*                                                                         *)
(* A handler h has                                                         *)
(*   pc[h]   where do_POST is: queueing, in the locked section, or out,    *)
(*   gen[h]  where the generation it started is: in generate() of          *)
(*           koboldcpp.py or in gpttype_generate() of gpttype_adapter.cpp, *)
(*   sse[h]  where handle_sse_stream is, for a streamed request.           *)
(* A streamed generation runs in an executor thread of its own, so gen[h]  *)
(* and sse[h] move independently.                                          *)
(*                                                                         *)
(* The text of an answer is abstracted to the number of tokens in          *)
(* generated_tokens, which the streams read, and in                        *)
(* delayed_generated_tokens, where tokens wait while they may be the start *)
(* of a banned phrase, and a note of whose they are.                       *)
(***************************************************************************)
EXTENDS Naturals, FiniteSets

CONSTANTS
    Handlers,      \* the request handler threads (numThreads of them)
    Keys,          \* the genkeys clients choose
    NoKey,         \* the empty genkey
    Nobody,        \* stands for no handler, and for no abort call under way
    MultiUser,     \* args.multiuser: how many requests may wait
    OtherModels,   \* TRUE if an image, speech or embeddings model is loaded
    Kinds,         \* the kinds of request offered, out of AllKinds
    RequestKeys,   \* the keys requests may carry
    AbortKeys,     \* the keys abort requests may name
    MaxTokens,     \* bound: the most tokens one generation produces
    DelayLimit,    \* delayed_generated_tokens_limit of every generation: 0
                   \* where no phrase is banned
    SplitUpdates,  \* TRUE if the interpreter may switch threads inside the
                   \* update of requestsinqueue (CPython before 3.10)
    ClientLeaves,  \* TRUE if a client may be gone when the headers of its
                   \* event stream are written
    SlowPrep       \* TRUE if preparing a prompt may outlast the delay before
                   \* the first poll of handle_sse_stream

AllKinds == {"text", "stream", "model"}

ASSUME ServerAssumption ==
    /\ IsFiniteSet(Handlers)
    /\ Nobody \notin Handlers \cup Keys \cup {NoKey}
    /\ NoKey \notin Keys
    /\ MultiUser \in Nat
    /\ OtherModels \in BOOLEAN
    /\ Kinds \subseteq AllKinds
    /\ RequestKeys \subseteq Keys \cup {NoKey}
    /\ AbortKeys \subseteq Keys \cup {NoKey}
    /\ MaxTokens \in Nat
    /\ DelayLimit \in Nat
    /\ SplitUpdates \in BOOLEAN
    /\ ClientLeaves \in BOOLEAN
    /\ SlowPrep \in BOOLEAN

VARIABLES
    modelbusy,           \* the handler that holds the lock, or Nobody
    requestsinqueue,     \* the count of handlers blocked on the lock
    pc,                  \* the stage of do_POST of each handler
    req,                 \* the request each handler serves
    seen,                \* the value of requestsinqueue a handler has loaded
    currentusergenkey,   \* the genkey of the latest generation
    totalgens,           \* whether any generation was ever started (0 or 1)
    pendingabortkey,     \* the genkey to cancel when its turn comes
    abortcall,           \* the key of an abort past its check, or Nobody
    gen,                 \* the stage of each handler's generation
    generation_finished, \* set by gpttype_generate, polled by the streams
    early_abort,         \* set by gpttype_generate_abort, ends the loop
    remaining_tokens,    \* how many more tokens may be chosen
    delayed,             \* Len of delayed_generated_tokens
    ntokens,             \* Len of generated_tokens
    output,              \* ghost: the handler and key whose tokens they are
    sse,                 \* the stage of each handler's event stream
    current_token,       \* the next token each stream sends
    streamDone,          \* what each stream last read of generation_finished
    foreign              \* ghost: streams that sent a token of another request

lockVars    == <<modelbusy, requestsinqueue, pc, req, seen>>
keyVars     == <<currentusergenkey, totalgens, pendingabortkey, abortcall>>
loopVars    == <<remaining_tokens, delayed>>
backendVars == <<generation_finished, early_abort, loopVars, ntokens, output>>
streamVars  == <<sse, current_token, streamDone, foreign>>
vars == <<lockVars, keyVars, backendVars, streamVars, gen>>

AnyKey  == Keys \cup {NoKey}
Request == [kind: AllKinds, key: AnyKey]
NoRequest == [kind |-> "text", key |-> NoKey]

Stages == {"idle", "check", "load", "store", "wait", "try",
           "dequeue", "dstore", "serve", "release"}

\* The stages of do_POST between modelbusy.acquire and modelbusy.release.
Locked == {"dequeue", "dstore", "serve", "release"}

\* The stages in which a handler counts as queued: it is blocked on the lock,
\* or holds it and has not yet taken itself off the count.
Queued == {"wait", "dequeue", "dstore"}

\* The loop of gpttype_generate: at its head; evaluating; past the last test
\* of early_abort with a token to push; out of the loop and flushed.
Looping == {"running", "turn", "sampling", "flushed"}

\* A generation: not started; preparing in generate(); key published; inside
\* gpttype_generate before its first reset; flag reset; in the loop; running
\* another model; over.
GenStages == {"none", "prep", "keyed", "entered", "cleared", "busy", "done"}
             \cup Looping

\* The stages in which the native code of the loaded model is executing.
Native == {"entered", "cleared", "busy"} \cup Looping

StreamStages == {"off", "headers", "delay", "poll", "drain", "ended", "broken"}

-----------------------------------------------------------------------------
(* Admission: how many requests may block on the lock.                     *)

muint == IF MultiUser = 0 /\ OtherModels THEN 2 ELSE MultiUser

multiuserlimit == IF muint > 1 THEN muint - 1 ELSE 6

MayQueue == muint > 0 /\ requestsinqueue < multiuserlimit

OneLess == IF requestsinqueue > 0 THEN requestsinqueue - 1 ELSE 0

Goto(h, stage) == pc' = [pc EXCEPT ![h] = stage]
GenGoto(h, stage) == gen' = [gen EXCEPT ![h] = stage]
StreamGoto(h, stage) == sse' = [sse EXCEPT ![h] = stage]

Init ==
    /\ modelbusy = Nobody
    /\ requestsinqueue = 0
    /\ pc = [h \in Handlers |-> "idle"]
    /\ req = [h \in Handlers |-> NoRequest]
    /\ seen = [h \in Handlers |-> 0]
    /\ currentusergenkey = NoKey
    /\ totalgens = 0
    /\ pendingabortkey = NoKey
    /\ abortcall = Nobody
    /\ gen = [h \in Handlers |-> "none"]
    /\ generation_finished = FALSE
    /\ early_abort = FALSE
    /\ remaining_tokens = 0
    /\ delayed = 0
    /\ ntokens = 0
    /\ output = [of |-> Nobody, key |-> NoKey]
    /\ sse = [h \in Handlers |-> "off"]
    /\ current_token = [h \in Handlers |-> 0]
    /\ streamDone = [h \in Handlers |-> FALSE]
    /\ foreign = {}

\* A handler thread accepts a request that needs the lock. A handler whose
\* previous generation was left running in its executor thread takes no
\* request: the other handlers stand for it.
Receive(h) ==
    /\ pc[h] = "idle"
    /\ gen[h] \in {"none", "done"}
    /\ \E kind \in Kinds, key \in RequestKeys :
         req' = [req EXCEPT ![h] = [kind |-> kind, key |-> key]]
    /\ Goto(h, "check")
    /\ GenGoto(h, "none")
    /\ UNCHANGED <<modelbusy, requestsinqueue, seen, keyVars, backendVars,
                   streamVars>>

\* The test of the queue length and, when it may queue, the increment. The
\* two are one step only if the interpreter does not switch threads between.
CheckQueue(h) ==
    /\ pc[h] = "check"
    /\ \/ /\ MayQueue
          /\ IF SplitUpdates
             THEN Goto(h, "load") /\ UNCHANGED requestsinqueue
             ELSE Goto(h, "wait") /\ requestsinqueue' = requestsinqueue + 1
       \/ /\ ~MayQueue
          /\ Goto(h, "try")
          /\ UNCHANGED requestsinqueue
    /\ UNCHANGED <<modelbusy, req, seen, keyVars, backendVars, streamVars,
                   gen>>

LoadQueue(h) ==
    /\ pc[h] = "load"
    /\ seen' = [seen EXCEPT ![h] = requestsinqueue]
    /\ Goto(h, "store")
    /\ UNCHANGED <<modelbusy, requestsinqueue, req, keyVars, backendVars,
                   streamVars, gen>>

StoreQueue(h) ==
    /\ pc[h] = "store"
    /\ requestsinqueue' = seen[h] + 1
    /\ seen' = [seen EXCEPT ![h] = 0]
    /\ Goto(h, "wait")
    /\ UNCHANGED <<modelbusy, req, keyVars, backendVars, streamVars,
                   gen>>

\* modelbusy.acquire(blocking=True)
Acquire(h) ==
    /\ pc[h] = "wait"
    /\ modelbusy = Nobody
    /\ modelbusy' = h
    /\ Goto(h, "dequeue")
    /\ UNCHANGED <<requestsinqueue, req, seen, keyVars, backendVars,
                   streamVars, gen>>

\* Variant: the result of the non-blocking acquire is not looked at.
TryAcquireUnchecked(h) ==
    /\ pc[h] = "try"
    /\ modelbusy' = IF modelbusy = Nobody THEN h ELSE modelbusy
    /\ Goto(h, "serve")
    /\ UNCHANGED <<requestsinqueue, req, seen, keyVars, backendVars,
                   streamVars, gen>>

\* modelbusy.acquire(blocking=False): the lock, or a 503 answer.
TryAcquire(h) ==
    /\ pc[h] = "try"
    /\ IF modelbusy = Nobody
       THEN modelbusy' = h /\ Goto(h, "serve")
       ELSE Goto(h, "idle") /\ UNCHANGED modelbusy
    /\ UNCHANGED <<requestsinqueue, req, seen, keyVars, backendVars,
                   streamVars, gen>>

\* Variant: the count is not taken down.
DequeueForgets(h) ==
    /\ pc[h] = "dequeue"
    /\ Goto(h, "serve")
    /\ UNCHANGED <<modelbusy, requestsinqueue, req, seen, keyVars, backendVars,
                   streamVars, gen>>

\* A handler that had to block takes itself off the count. The comparison and
\* the subtraction load the count twice, but only the holder of the lock
\* decrements, so a count once seen above 0 stays above 0 and the two loads
\* tell no more than one.
Dequeue(h) ==
    /\ pc[h] = "dequeue"
    /\ IF SplitUpdates
       THEN /\ seen' = [seen EXCEPT ![h] = OneLess]
            /\ Goto(h, "dstore")
            /\ UNCHANGED requestsinqueue
       ELSE /\ requestsinqueue' = OneLess
            /\ Goto(h, "serve")
            /\ UNCHANGED seen
    /\ UNCHANGED <<modelbusy, req, keyVars, backendVars, streamVars, gen>>

StoreDequeue(h) ==
    /\ pc[h] = "dstore"
    /\ requestsinqueue' = seen[h]
    /\ seen' = [seen EXCEPT ![h] = 0]
    /\ Goto(h, "serve")
    /\ UNCHANGED <<modelbusy, req, keyVars, backendVars, streamVars,
                   gen>>

-----------------------------------------------------------------------------
(* The locked section: dispatch, reply, release.                           *)

\* A body that does not parse, or a path nothing handles, leaves at once.
RejectBody(h) ==
    /\ pc[h] = "serve"
    /\ gen[h] = "none"
    /\ Goto(h, "release")
    /\ UNCHANGED <<modelbusy, requestsinqueue, req, seen, keyVars, backendVars,
                   streamVars, gen>>

\* Image, speech, transcription, embeddings and saved-state requests call
\* their native function in the handler thread.
StartModel(h) ==
    /\ pc[h] = "serve"
    /\ gen[h] = "none"
    /\ req[h].kind = "model"
    /\ GenGoto(h, "busy")
    /\ UNCHANGED <<lockVars, keyVars, backendVars, streamVars>>

FinishModel(h) ==
    /\ gen[h] = "busy"
    /\ GenGoto(h, "done")
    /\ UNCHANGED <<lockVars, keyVars, backendVars, streamVars>>

\* handle_request: the generation goes to its thread, then a streamed request
\* starts handle_sse_stream.
StartText(h) ==
    /\ pc[h] = "serve"
    /\ gen[h] = "none"
    /\ req[h].kind \in {"text", "stream"}
    /\ GenGoto(h, "prep")
    /\ StreamGoto(h, IF req[h].kind = "stream" THEN "headers" ELSE "off")
    /\ UNCHANGED <<lockVars, keyVars, backendVars, current_token, streamDone,
                   foreign>>

\* Variant: the handler does not wait for its generation to return.
ReplyEarly(h) ==
    /\ pc[h] = "serve"
    /\ gen[h] # "none"
    /\ sse[h] \in {"off", "ended", "broken"}
    /\ Goto(h, "release")
    /\ UNCHANGED <<modelbusy, requestsinqueue, req, seen, keyVars, streamVars,
                   backendVars, gen>>

\* The generation and the stream are over; a plain request writes its answer,
\* and aborts the (finished) generation if the client is gone.
Reply(h) ==
    /\ pc[h] = "serve"
    /\ gen[h] = "done"
    /\ sse[h] \in {"off", "ended", "broken"}
    /\ Goto(h, "release")
    /\ \/ UNCHANGED early_abort
       \/ req[h].kind = "text" /\ early_abort' = TRUE
    /\ UNCHANGED <<modelbusy, requestsinqueue, req, seen, keyVars, streamVars,
                   generation_finished, loopVars, ntokens, output, gen>>

\* The finally clause. What the handler kept of its request and its stream is
\* gone, but for a generation left running, and tokens left in the buffers are
\* no longer those of a request it serves.
Release(h) ==
    /\ pc[h] = "release"
    /\ modelbusy' = Nobody
    /\ Goto(h, "idle")
    /\ StreamGoto(h, "off")
    /\ current_token' = [current_token EXCEPT ![h] = 0]
    /\ streamDone' = [streamDone EXCEPT ![h] = FALSE]
    /\ foreign' = foreign \ {h}
    /\ IF gen[h] \in {"none", "done"}
       THEN /\ req' = [req EXCEPT ![h] = NoRequest]
            /\ GenGoto(h, "none")
            /\ output' = IF output.of = h
                         THEN [output EXCEPT !.of = Nobody]
                         ELSE output
       ELSE UNCHANGED <<req, gen, output>>
    /\ UNCHANGED <<requestsinqueue, seen, keyVars, generation_finished,
                   early_abort, loopVars, ntokens>>

-----------------------------------------------------------------------------
(* generate() of koboldcpp.py and gpttype_generate() of gpttype_adapter.cpp *)

\* A parameter of the wrong type raises: gather() passes the exception on,
\* handle_request prints it and the stream is cancelled with its event loop.
PrepRaises(h) ==
    /\ gen[h] = "prep"
    /\ GenGoto(h, "done")
    /\ StreamGoto(h, IF sse[h] = "off" THEN "off" ELSE "broken")
    /\ UNCHANGED <<lockVars, keyVars, backendVars, current_token, streamDone,
                   foreign>>

\* Variant: the key of the previous generation is kept.
PublishKeyStale(h) ==
    /\ gen[h] = "prep"
    /\ totalgens' = 1
    /\ GenGoto(h, "keyed")
    /\ UNCHANGED <<lockVars, currentusergenkey, pendingabortkey, abortcall,
                   backendVars, streamVars>>

PublishKey(h) ==
    /\ gen[h] = "prep"
    /\ currentusergenkey' = req[h].key
    /\ totalgens' = 1
    /\ GenGoto(h, "keyed")
    /\ UNCHANGED <<lockVars, pendingabortkey, abortcall, backendVars,
                   streamVars>>

\* A remembered abort cancels the request here: the native code never runs.
DeferredAbort(h) ==
    /\ gen[h] = "keyed"
    /\ pendingabortkey # NoKey
    /\ pendingabortkey = req[h].key
    /\ pendingabortkey' = NoKey
    /\ GenGoto(h, "done")
    /\ UNCHANGED <<lockVars, currentusergenkey, totalgens, abortcall,
                   backendVars, streamVars>>

EnterBackend(h) ==
    /\ gen[h] = "keyed"
    /\ pendingabortkey = NoKey \/ pendingabortkey # req[h].key
    /\ GenGoto(h, "entered")
    /\ UNCHANGED <<lockVars, keyVars, backendVars, streamVars>>

ResetStatus(h) ==
    /\ gen[h] = "entered"
    /\ generation_finished' = FALSE
    /\ GenGoto(h, "cleared")
    /\ UNCHANGED <<lockVars, keyVars, early_abort, loopVars, ntokens, output,
                   streamVars>>

\* Variant: one token too many may be chosen.
ResetOutputOneMore(h) ==
    /\ gen[h] = "cleared"
    /\ ntokens' = 0
    /\ delayed' = 0
    /\ remaining_tokens' = MaxTokens + 1
    /\ output' = [of |-> h, key |-> req[h].key]
    /\ early_abort' = FALSE
    /\ GenGoto(h, "running")
    /\ UNCHANGED <<lockVars, keyVars, generation_finished, streamVars>>

ResetOutput(h) ==
    /\ gen[h] = "cleared"
    /\ ntokens' = 0
    /\ delayed' = 0
    /\ remaining_tokens' = MaxTokens
    /\ output' = [of |-> h, key |-> req[h].key]
    /\ early_abort' = FALSE
    /\ GenGoto(h, "running")
    /\ UNCHANGED <<lockVars, keyVars, generation_finished, streamVars>>

\* The loop is entered again; a prompt counts as evaluated in one turn.
StartTurn(h) ==
    /\ gen[h] = "running"
    /\ remaining_tokens > 0
    /\ ~early_abort
    /\ GenGoto(h, "turn")
    /\ UNCHANGED <<lockVars, keyVars, backendVars, streamVars>>

\* An evaluation fails: status 0, with the flag set for the stream. What is
\* delayed is not flushed.
EvalFails(h) ==
    /\ gen[h] = "turn"
    /\ generation_finished' = TRUE
    /\ GenGoto(h, "done")
    /\ UNCHANGED <<lockVars, keyVars, early_abort, loopVars, ntokens, output,
                   streamVars>>

\* The abort came while the model evaluated: no sampling.
SkipSampling(h) ==
    /\ gen[h] = "turn"
    /\ early_abort \/ remaining_tokens = 0
    /\ GenGoto(h, "running")
    /\ UNCHANGED <<lockVars, keyVars, backendVars, streamVars>>

\* Variant: the flag is not tested again after the evaluation.
ChooseTokenHeedless(h) ==
    /\ gen[h] = "turn"
    /\ remaining_tokens > 0
    /\ remaining_tokens' = remaining_tokens - 1
    /\ GenGoto(h, "sampling")
    /\ UNCHANGED <<lockVars, keyVars, generation_finished, early_abort, delayed,
                   ntokens, output, streamVars>>

\* The last tests before a token: from here on it will be pushed.
ChooseToken(h) ==
    /\ gen[h] = "turn"
    /\ ~early_abort
    /\ remaining_tokens > 0
    /\ remaining_tokens' = remaining_tokens - 1
    /\ GenGoto(h, "sampling")
    /\ UNCHANGED <<lockVars, keyVars, generation_finished, early_abort, delayed,
                   ntokens, output, streamVars>>

\* The token joins the delayed ones, of which the oldest move on to where the
\* streams see them, and of the others a banned phrase is cut; then an
\* end-of-text token or a stop string ends the loop.
PushToken(h) ==
    /\ gen[h] = "sampling"
    /\ LET held == delayed + 1
           out  == IF held > DelayLimit THEN held - DelayLimit ELSE 0
       IN  /\ ntokens' = ntokens + out
           /\ \E kept \in 0..(held - out) : delayed' = kept
    /\ \/ early_abort' = TRUE
       \/ UNCHANGED early_abort
    /\ GenGoto(h, "running")
    /\ UNCHANGED <<lockVars, keyVars, generation_finished, remaining_tokens,
                   output, streamVars>>

\* The loop ends, aborted, stopped or with no tokens left: what is delayed is
\* flushed to where the streams see it, also after an abort.
FlushTokens(h) ==
    /\ gen[h] = "running"
    /\ early_abort \/ remaining_tokens = 0
    /\ ntokens' = ntokens + delayed
    /\ delayed' = 0
    /\ GenGoto(h, "flushed")
    /\ UNCHANGED <<lockVars, keyVars, generation_finished, early_abort,
                   remaining_tokens, output, streamVars>>

\* Variant: the generation returns without setting its flag.
FinishGenerationQuietly(h) ==
    /\ gen[h] = "flushed"
    /\ GenGoto(h, "done")
    /\ UNCHANGED <<lockVars, keyVars, backendVars, streamVars>>

FinishGeneration(h) ==
    /\ gen[h] = "flushed"
    /\ generation_finished' = TRUE
    /\ GenGoto(h, "done")
    /\ UNCHANGED <<lockVars, keyVars, early_abort, loopVars, ntokens, output,
                   streamVars>>

-----------------------------------------------------------------------------
(* handle_sse_stream                                                       *)

SendHeaders(h) ==
    /\ sse[h] = "headers"
    /\ StreamGoto(h, "delay")
    /\ UNCHANGED <<lockVars, keyVars, backendVars, current_token, streamDone,
                   foreign, gen>>

\* Variant: the exception also skips the finally clause.
HeadersFailKeepLock(h) ==
    /\ ClientLeaves
    /\ sse[h] = "headers"
    /\ StreamGoto(h, "broken")
    /\ Goto(h, "idle")
    /\ UNCHANGED <<modelbusy, requestsinqueue, req, seen, keyVars, backendVars,
                   current_token, streamDone, foreign, gen>>

\* The headers are written outside the try of handle_sse_stream: the exception
\* reaches gather(), handle_request asks for an abort (for a broken pipe) or
\* only prints, and do_POST leaves while the executor thread goes on.
HeadersFail(h) ==
    /\ ClientLeaves
    /\ sse[h] = "headers"
    /\ \/ early_abort' = TRUE
       \/ UNCHANGED early_abort
    /\ StreamGoto(h, "broken")
    /\ Goto(h, "release")
    /\ UNCHANGED <<modelbusy, requestsinqueue, req, seen, keyVars,
                   generation_finished, loopVars, ntokens, output,
                   current_token, streamDone, foreign, gen>>

\* Variant: there is no delay.
WakeStreamAtOnce(h) ==
    /\ sse[h] = "delay"
    /\ StreamGoto(h, "poll")
    /\ UNCHANGED <<lockVars, keyVars, backendVars, current_token, streamDone,
                   foreign, gen>>

\* The delay of 0.35 s is over. Unless prompts are slow to prepare, the
\* generation has passed its resets (or returned) by then.
WakeStream(h) ==
    /\ sse[h] = "delay"
    /\ SlowPrep \/ gen[h] \in Looping \cup {"done"}
    /\ StreamGoto(h, "poll")
    /\ UNCHANGED <<lockVars, keyVars, backendVars, current_token, streamDone,
                   foreign, gen>>

\* has_finished() is asked before the tokens are read.
PollFinished(h) ==
    /\ sse[h] = "poll"
    /\ streamDone' = [streamDone EXCEPT ![h] = generation_finished]
    /\ StreamGoto(h, "drain")
    /\ UNCHANGED <<lockVars, keyVars, backendVars, current_token, foreign,
                   gen>>

\* Variant: one token is sent at each turn.
DrainOneToken(h) ==
    /\ sse[h] = "drain"
    /\ IF ntokens > current_token[h]
       THEN /\ current_token' = [current_token EXCEPT ![h] = @ + 1]
            /\ foreign' = IF output.of = h THEN foreign ELSE foreign \cup {h}
       ELSE UNCHANGED <<current_token, foreign>>
    /\ StreamGoto(h, IF streamDone[h] THEN "ended" ELSE "poll")
    /\ UNCHANGED <<lockVars, keyVars, backendVars, streamDone, gen>>

\* Every token that is ready is sent; the stream ends if it was done.
DrainTokens(h) ==
    /\ sse[h] = "drain"
    /\ IF ntokens > current_token[h]
       THEN /\ current_token' = [current_token EXCEPT ![h] = ntokens]
            /\ foreign' = IF output.of = h THEN foreign ELSE foreign \cup {h}
       ELSE UNCHANGED <<current_token, foreign>>
    /\ StreamGoto(h, IF streamDone[h] THEN "ended" ELSE "poll")
    /\ UNCHANGED <<lockVars, keyVars, backendVars, streamDone, gen>>

\* Writing an event fails: the generation is aborted and the stream is over.
DrainFails(h) ==
    /\ sse[h] = "drain"
    /\ ntokens > current_token[h] \/ streamDone[h]
    /\ early_abort' = TRUE
    /\ StreamGoto(h, "broken")
    /\ UNCHANGED <<lockVars, keyVars, generation_finished, loopVars, ntokens,
                   output, current_token, streamDone, foreign, gen>>

-----------------------------------------------------------------------------
(* /api/extra/abort, which takes no lock                                   *)

AbortsCurrent(key) ==
    \/ key = NoKey /\ requestsinqueue = 0
    \/ key # NoKey /\ key = currentusergenkey

\* The key is found current; the call of abort_generate comes later.
AbortCheck(key) ==
    /\ abortcall = Nobody
    /\ AbortsCurrent(key)
    /\ abortcall' = key
    /\ UNCHANGED <<lockVars, currentusergenkey, totalgens, pendingabortkey,
                   backendVars, streamVars, gen>>

\* The key is not current: remember it if there are requests waiting.
AbortLater(key) ==
    /\ ~AbortsCurrent(key)
    /\ key # NoKey
    /\ requestsinqueue > 0
    /\ pendingabortkey' = key
    /\ UNCHANGED <<lockVars, currentusergenkey, totalgens, abortcall,
                   backendVars, streamVars, gen>>

\* abort_generate, answered with success and done, whichever generation runs
\* by now.
AbortCall ==
    /\ abortcall # Nobody
    /\ early_abort' = TRUE
    /\ abortcall' = Nobody
    /\ UNCHANGED <<lockVars, currentusergenkey, totalgens, pendingabortkey,
                   generation_finished, loopVars, ntokens, output, streamVars,
                   gen>>

\* What /api/extra/generate/check answers: the pending output, or nothing.
CheckAnswers(key) ==
    /\ totalgens > 0
    /\ key = currentusergenkey
    /\ key # NoKey \/ requestsinqueue = 0

-----------------------------------------------------------------------------
Admit(h) ==
    \/ CheckQueue(h) \/ LoadQueue(h) \/ StoreQueue(h)
    \/ Acquire(h) \/ TryAcquire(h) \/ Dequeue(h) \/ StoreDequeue(h)

Serve(h) ==
    \/ RejectBody(h) \/ StartModel(h) \/ FinishModel(h) \/ StartText(h)
    \/ Reply(h) \/ Release(h)

Generate(h) ==
    \/ PrepRaises(h) \/ PublishKey(h) \/ DeferredAbort(h) \/ EnterBackend(h)
    \/ ResetStatus(h) \/ ResetOutput(h) \/ StartTurn(h) \/ EvalFails(h)
    \/ SkipSampling(h) \/ ChooseToken(h) \/ PushToken(h)
    \/ FlushTokens(h) \/ FinishGeneration(h)

Stream(h) ==
    \/ SendHeaders(h) \/ HeadersFail(h) \/ WakeStream(h)
    \/ PollFinished(h) \/ DrainTokens(h) \/ DrainFails(h)

Abort == AbortCall \/ \E key \in AbortKeys : AbortCheck(key) \/ AbortLater(key)

Next ==
    \/ \E h \in Handlers : Receive(h) \/ Admit(h) \/ Serve(h)
                           \/ Generate(h) \/ Stream(h)
    \/ Abort

Spec == Init /\ [][Next]_vars

\* Every started thread keeps running. Clients need not send requests or
\* aborts, and a lock that is free goes to any thread that asks for it, so
\* nothing is assumed of Receive, AbortCheck and AbortLater, nor of which
\* blocked handler acquires.
Fairness ==
    /\ \A h \in Handlers : /\ WF_vars(Admit(h))
                           /\ WF_vars(Serve(h))
                           /\ WF_vars(Generate(h))
                           /\ WF_vars(Stream(h))
    /\ WF_vars(AbortCall)

FairSpec == Spec /\ Fairness
-----------------------------------------------------------------------------
(* Properties                                                              *)

TypeOK ==
    /\ modelbusy \in Handlers \cup {Nobody}
    /\ requestsinqueue \in Nat
    /\ pc \in [Handlers -> Stages]
    /\ req \in [Handlers -> Request]
    /\ seen \in [Handlers -> Nat]
    /\ currentusergenkey \in AnyKey
    /\ totalgens \in 0..1
    /\ pendingabortkey \in AnyKey
    /\ abortcall \in AnyKey \cup {Nobody}
    /\ gen \in [Handlers -> GenStages]
    /\ generation_finished \in BOOLEAN
    /\ early_abort \in BOOLEAN
    /\ remaining_tokens \in 0..MaxTokens
    /\ delayed \in Nat
    /\ ntokens \in Nat
    /\ output \in [of: Handlers \cup {Nobody}, key: AnyKey]
    /\ sse \in [Handlers -> StreamStages]
    /\ current_token \in [Handlers -> Nat]
    /\ streamDone \in [Handlers -> BOOLEAN]
    /\ foreign \subseteq Handlers

\* A handler is in the locked section of do_POST exactly while it holds
\* modelbusy: no path out of the section forgets the lock or gives up the
\* lock of another handler.
LockHeld == \A h \in Handlers : pc[h] \in Locked <=> modelbusy = h

\* The native code of the model, which keeps its state in globals, is run by
\* one request at a time, although streamed generations run in executor
\* threads that are not the thread holding the lock.
OneInNative ==
    \A g, h \in Handlers : gen[g] \in Native /\ gen[h] \in Native => g = h

\* requestsinqueue, read without the lock by the abort and check endpoints and
\* shown to clients as the length of the queue, counts exactly the handlers
\* that are queued, and no more of them than the configured limit.
QueueExact ==
    /\ requestsinqueue = Cardinality({h \in Handlers : pc[h] \in Queued})
    /\ requestsinqueue <= multiuserlimit

\* A stream that ends has sent every token of its request's generation: none
\* is added after the last look at the token list.
StreamWhole ==
    \A h \in Handlers \ foreign :
        sse[h] = "ended" /\ output.of = h => current_token[h] = ntokens

\* A stream sends only tokens of its own request, never those an earlier
\* generation left in generated_tokens.
StreamOwn == foreign = {}

\* A stream does not overtake its own generation: it takes the flag for set,
\* and ends, only when that generation is over (or was cancelled), although the
\* flag it reads may be the one an earlier generation left; and only then can
\* it have sent tokens of another request.
StreamWaits ==
    \A h \in Handlers :
        /\ streamDone[h] \/ sse[h] = "ended" => gen[h] = "done"
        /\ h \in foreign => gen[h] = "done" /\ output.of # h

\* While a generation produces tokens, the lock and the output buffers belong
\* to its request, and the check endpoint, which takes no lock, shows its text
\* only to those who ask with the key of that request.
RunningOwnsOutput ==
    \A h \in Handlers : gen[h] \in Looping =>
        /\ modelbusy = h
        /\ output = [of |-> h, key |-> req[h].key]
        /\ \A key \in AnyKey : CheckAnswers(key) => output.key = key

\* Once set during a generation, early_abort stays set until it ends, whatever
\* other threads do, and no further token is chosen: all that can still come
\* is the one past the last test of the flag and those that were delayed.
AbortSticks ==
    [][\A h \in Handlers :
         gen[h] \in Looping /\ gen'[h] \in Looping /\ early_abort =>
           /\ early_abort'
           /\ remaining_tokens' = remaining_tokens
           /\ ntokens' + delayed' > ntokens + delayed
                => gen[h] = "sampling" /\ ntokens' + delayed' = ntokens + delayed + 1]_vars

\* The stream of h polls for a flag nobody will set: its generation was
\* cancelled by a remembered abort before it ran, none was ever finished
\* before it, and none is under way.
PollsInVain(h) ==
    /\ sse[h] \in {"delay", "poll", "drain"}
    /\ gen[h] = "done" /\ output.of # h
    /\ ~generation_finished
    /\ \A g \in Handlers : gen[g] \in {"none", "done"}

\* The lock is given back, whatever a request's stream, its client and the
\* aborts of others do, but for the one case of PollsInVain.
LockReleased ==
    \A h \in Handlers : modelbusy = h ~> modelbusy # h \/ PollsInVain(h)

\* The server is a serial service: a handler holds the model from acquire to
\* release, and its native code runs only in between.
ServicePhase(h) ==
    CASE gen[h] \in Native -> "running"
      [] gen[h] \notin Native /\ pc[h] \in Locked -> "granted"
      [] /\ gen[h] \notin Native
         /\ pc[h] \in {"check", "load", "store", "wait", "try"} -> "waiting"
      [] OTHER -> "away"

Service == INSTANCE SerialService
             WITH Clients <- Handlers,
                  holder <- modelbusy,
                  phase <- [h \in Handlers |-> ServicePhase(h)]

ImplementsService == Service!Spec
=============================================================================
