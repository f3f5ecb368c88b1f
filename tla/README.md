# KoboldCpp / kobocog in TLA+

This directory specifies the parts of kobocog that decide what happens when
several things go on at once or one after the other: the HTTP server
(`src/koboldcpp.py`), its text generation backend (`src/gpttype_adapter.cpp`,
`src/model_adapter.cpp`, `src/expose.cpp`), the KV cache under it
(`src/src/llama-kv-cache-unified.cpp`, `llama-kv-cells.h`), the supervisor that
restarts the server and the stories it keeps, the worker that serves a cluster,
and the reasoning library `src/opencog`. TLC checks the modules on small
instances; TLAPS proves, for all values of their constants, every invariant that
a passing run checks but one, and that the server implements its abstract service.

## The system

| component | state | operations | talks to |
|---|---|---|---|
| HTTP server (`do_POST`) | `modelbusy`, `requestsinqueue` | admit, block or refuse, dispatch, reply, release | 24 handler threads share the globals and the native library |
| event streams (`handle_sse_stream`) | `current_token`, `streamDone` | poll `has_finished`, read tokens, write events | polls globals of the backend while an executor thread generates |
| abort and check endpoints | `currentusergenkey`, `pendingabortkey`, `totalgens` | abort now, remember an abort, read the pending text | take no lock |
| generation backend (`gpttype_generate`) | `generation_finished`, `early_abort`, `generated_tokens`, `current_context_tokens`, `smartcontext`, the KV caches | reuse the old context, take in the prompt, evaluate, draft, sample, rewind, finish | called under the lock, aborted without it |
| saved states | three `savestates` | save, load, clear | under the lock, between generations |
| KV cache (`llama_kv_cache_unified`) | cells, two indexes, pending shifts | remove, copy, keep, shift, divide, find a slot, update, decode, save, restore | called by the backend, one call at a time |
| admin supervisor | `restart_target`, its override, `load_complete`, `fault_recovery_mode` | restart on a new configuration, recover, exit | a parent process, over a shared dictionary |
| saved stories | `savedata_obj` and its file | save, load | handlers, without a lock; killed with the server |
| Horde worker | `exitcounter`, `punishcounter`, `rewardcounter` | fetch a job, post it to the server, submit, pause | a thread, over HTTP and `modelbusy.locked()` |
| OpenCog (`src/opencog`) | atoms, links, attention | add, infer, stimulate, spread, forget | a library, called one operation at a time |
| ggml, image, speech and embeddings adapters, GUI, web clients | | | vendored, numeric or I/O |

What makes each correct, and what is hard about it:

* **Server.** One request at a time is in the native code, which keeps its
  state in globals; the lock is always given back; the queue count is right.
  Hard: a streamed generation runs in an executor thread that does not own the
  lock, clients leave in the middle, the count is updated without a lock.
* **Streams.** A stream sends every token of its own generation and no other.
  Hard: it learns of the generation only by polling globals, and is held back
  from reading the previous generation's by a delay of 0.35 s.
* **Abort and check.** An abort that arrives while a generation runs stops it,
  but for the token in the making and those that are delayed; a poll with a key
  shows the text of the request with that key. Hard: neither takes the lock.
* **Backend.** Every token is sampled from logits computed over exactly the
  context the program believes in. Hard: the context is kept across requests
  and shortened, shifted, cut down, rewound, drafted ahead and restored, in the
  token record and in two caches, and a request may be aborted or fail in
  between.
* **KV cache.** Whatever calls came before, it holds the tokens its caller put
  at the positions the caller thinks of, each key rotated for its position, and
  refuses a batch only when it is full. Hard: two indexes kept by hand, shifts
  that wait for the next update, compaction, batches that fail halfway.
* **Supervisor.** A reload that was accepted happens or is recovered from, and
  stories survive it. Hard: a crash may come at any step, commands are cleared
  while new ones arrive, a save may be cut by the kill.
* **Horde worker.** A job that was fetched gets its own answer or is given up;
  errors slow the worker down and end it, and so does a server that closes.
  Hard: requests it no longer waits for stay in the server, and submitting
  threads change its counters.
* **OpenCog.** Index and lists agree with the atoms, conclusions follow from
  what was given, importance follows the links. Hard: chains of inference that
  change the space they read.

`PROJECT.json` lists every component with what is left out, and the hazards
with the property that covers each or the reason why none does.

## Modules

| module | what it is |
|---|---|
| `SerialService` | abstract: clients wait for a service one of them holds; only the holder runs it, and does not give it up while running |
| `KcppServer` | the server: handlers, queue, lock, generation status, streams, aborts |
| `HordeWorker` | the worker, its submitting threads and the cluster, over `SerialService` |
| `GenContext`, `GenContextMC` | the backend: context record and caches from request to request; prompts and the view for checking it |
| `KvStore` | abstract: sequences as sets of tokens at positions |
| `KvCells`, `KvCache`, `KvCacheMC` | the methods of `llama_kv_cells_unified`, one operator each; the cache over them, one action per call; the calls explored |
| `NetworkSaves` | `savedata_obj` and its file |
| `AdminSupervisor`, `AdminSupervisorMC` | the manager loop, the server process and the reload endpoint, with `NetworkSaves`; the clients explored |
| `AtomSpace`, `PlnRules`, `Mind`, `MindMC` | the atoms, the rules and their formulas, the calls on both; the links and names explored |
| `KcppServer_proofs`, `AdminSupervisor_proofs`, `HordeWorker_proofs` | the theorems |
| `GenContext_proofs` | those of the backend: what a run without faults keeps; what it keeps always, banned phrases among it |
| `Folding` | what a fold keeps, by induction on the set that is folded; for the proofs below |
| `KvCells_proofs`, `KvCache_proofs` | those of the cache: lemmas on each method of the cells; the theorems |
| `Mind_proofs` | those of the atoms, of inference and of attention |

Three abstract contracts tie them together: `KcppServer` implements
`SerialService`, of which `HordeWorker` is a client, so that what is shown of
the worker does not depend on how the server keeps its promise; `KvCache`
implements `KvStore`, which is what `GenContext` takes a cache for (positions
and tokens; `Below`, `Excise`, `Store` are `seq_rm`, `seq_add` and a batch).

### KcppServer

A handler `h` has three program counters: `pc[h]` is its place in `do_POST`
(from the admission test, lines 3681 to 3699, to the `finally` clause at 3977),
`gen[h]` that of the generation it started (in `generate()`, then in
`gpttype_generate`), `sse[h]` that of `handle_sse_stream`. A streamed
generation runs in an executor thread, so `gen[h]` and `sse[h]` interleave; a
plain one runs in the handler's thread, which waits for it (`Reply` needs
`gen[h] = "done"`). A streamed request with tools writes nothing while it is
generated and is a plain one here.

| actions | code |
|---|---|
| `CheckQueue`, `LoadQueue`, `StoreQueue`, `Acquire`, `TryAcquire`, `Dequeue`, `StoreDequeue` | the queue and `modelbusy.acquire`; the `Load`/`Store` steps exist only under `SplitUpdates`, see below |
| `StartText`, `StartModel`, `FinishModel`, `RejectBody`, `Reply`, `Release` | the locked section |
| `PrepRaises`, `PublishKey`, `DeferredAbort`, `EnterBackend` | `generate()` |
| `ResetStatus`, `ResetOutput`, `StartTurn`, `EvalFails`, `SkipSampling`, `ChooseToken`, `PushToken`, `FlushTokens`, `FinishGeneration` | `gpttype_generate`, seen from other threads |
| `SendHeaders`, `HeadersFail`, `WakeStream`, `PollFinished`, `DrainTokens`, `DrainFails` | `handle_sse_stream` |
| `AbortCheck`, `AbortCall`, `AbortLater` | `/api/extra/abort` |

A turn of the generation loop is four steps, since the flag an abort sets is
tested at its head (3692), after the evaluation (3828) and before the token is
taken (3869), but the token is pushed later (3991): `StartTurn`, `ChooseToken`
or `SkipSampling`, `PushToken`. What is pushed first waits in
`delayed_generated_tokens`, up to `DelayLimit` tokens, of which a rewind may
drop some; `FlushTokens` moves the rest to where streams read it, also after an
abort (4271), but not after a failed evaluation.

Text is abstracted to a number of tokens, with two ghosts: `output` records
whose tokens are in the buffers and `foreign` the streams that sent tokens of
another request. The constants `SplitUpdates`, `ClientLeaves` and `SlowPrep`
switch on three kinds of trouble: an interpreter that may switch threads between
the load and the store of a global (CPython before 3.10; the later ones switch
only at calls and jumps back), a client that is gone when the headers of its
stream are written, and a prompt that takes longer to prepare than the delay of
0.35 s.

### GenContext

A token is a number; a cache is a function from the positions it holds to their
tokens; a row of logits is represented by the cells it was computed from. One
request is `Request` (trim, context shift, fast-forward, smart context), then
turns of the loop: `EvalNothing`, `Eval`, `EvalDraft` or `EvalFails` (of the
model or of the draft model, before or after the other), followed
by `Ingest` of a batch of the prompt or `Choose`, once per row of logits, and at
last `Finish`. `Abort` comes from another thread. `SaveState`, `LoadState` and
`ClearState` happen between requests. `goal` is a ghost, the prompt as trimmed.
Model and draft model accept a batch only where their cache ends (`Fits`, from
`llama-batch.cpp`).

`TakenIn` is smart context, `ContextFastForward` from line 515 on: a prompt that
fills the window is cut to its latter half, which is remembered (`smartcontext`);
as long as prompts still contain it, all before it is left out of them
(`StillUsable`, `FromMarker`) and fast-forwarded over once more (`Reused`).

Two faults are switched on by `Faults`: an evaluation that fails, and an abort
in the few instructions between taking in a batch of the prompt and the test of
the loop. Either leaves tokens in the record that are in no cache.
Not modelled: recurrent models, images, guidance, grammars, and the server's
choice among sampler settings (any allowed token may be sampled).

### KvCells, KvCache

`kv.cells` is `llama_kv_cells_unified` field by field (`pos`, `seq`, `shift` and
the hand-kept indexes `used`, `seq_pos`); `kv.data` is the tensor data, the name
of the token each cell's key was computed for and the position it is rotated
for. Each public call is one action; `Decode` is all of `llama_context::decode`:
`Positioned` and `Split` make the parts of the batch, `Planned` updates, finds
slots and compacts once if there are none, `Computed` stores part by part and
`Dropped` removes what a failing part left behind. The mapping to `KvStore`
forgets cells and keeps, for each sequence, which token is at which position.
`Modes` are the ways callers use a cache: the server's own (one sequence that is
shifted and saved), one that divides positions, and two sequences that share
cells under an attention window.

A saved state does not hold the shifts that are pending. The server can save
one: a request that is aborted between the reset of the flag
(`gpttype_adapter.cpp` 3073) and the loop (3692) evaluates nothing, so that the
shift it made (3580) is still pending when `save_state_kv` comes next. The ghost
`lost` keeps what is left out, and `RotationTracked` says that this, and nothing
else, is what a key is wrong by.

### NetworkSaves, AdminSupervisor

Saving a story is a walk through `PutStory` (into the dictionary), `OpenFile`,
which truncates the file, or `FileMissing`, `EndWalk` or `DumpRaises` of
`json.dump`, and `CloseFile`, which writes what is still in the buffer; two
handlers may be anywhere in it. A story that is put while another handler walks
is in that one's text or is not, as its slot was passed (`missed`); once it has
ended its walk it is not (`Overtaken`). Of two handlers with the file open, the
one that closes last decides: the file holds its text, which may be older than
what was acknowledged meanwhile (the ghost `stale` names those slots), that of
the other one, or a mixture (`Torn`). The test that the file is there (3537) and
its opening are one step. `acked` is a ghost, what clients were told is saved.

In `AdminSupervisor` every access of manager or handler to the shared
dictionary is a step: the manager goes through `CheckAlive`, `Recover` or
`Exit`, `CheckFlag`, `ReadTarget`, `ReadOverride`, `DropTarget`, `DropOverride`,
`FindFiles`, `Terminate`, `Launch` or `LaunchRaises`; a reload request through
`AcceptReload`, `ResetOverride`, `SetOverride`, `SetTarget`, `ForgetOverride`.
The server loads (`ServerLoads`), fails to (`LoadFails`), or ends at any time
(`ServerDies`), saves included. `accepted` is a ghost, the reload as the
handler takes it, or that requests overtook each other: an override that it does
not find, or beside a `.kcpps`, is dropped and the request still answered with
success (`Taken`, lines 3642 to 3647). An override that is itself a model is
left out.

### HordeWorker

The worker's place in its loop is `at`; a request of its own is one of `Posts`,
with the job it is about (`asked`), and moves by the actions of `SerialService`
like those of local clients. `Post` asks; the worker then waits (`reply`) for
`Answer` or `Refuse`, or gives up after 300 s (`PostFails`), which leaves the
request where it is. `LookAround` and `Test` read the lock, and anybody may take
it before the next step. `SubmitEnds` is a submitting thread. A text is
represented by the job it was generated for, so empty and cut texts are not told
from whole ones. Each line that updates a counter is one step. The worker ends in
three ways: `Stop` on too many errors, `Stop` when the server closes (`Close`
sets the counter to 999), or an exception it does not catch (`PopRaises`,
`SubmitRaises`). That 900 submits take back pauses while a server closes is left
out.

### AtomSpace, PlnRules, Mind

`AtomSpace` has one operator per method of `TensorAtomSpace`, `PlnRules` the four
rules with their formulas in percents. `Mind` calls them: `NewConcept`,
`NewLink`, `FocusOn`, `Spread`, `RunCycle` of ECAN, `BackwardChain`, and a
forward chain as one step per turn of its loop: `Tried` folds its two loops over
the working set and `TriedOn` the rules on one pair; nothing more is tried once
an attempt `Concludes`. The ghost `trail` of its result is everything it
concluded. Orders that the code leaves to a hash table or an
unstable sort are nondeterministic. What follows from what is stated by sets of
atoms: `ConclusionsFollow` says that a set whose border no given link crosses is
crossed by no conclusion, `AttentionFollowsLinks` that importance stays in every
set that contains the stimulated atoms and is closed under links.

## Runs

All runs but the last four pass.

| run | question | bounds |
|---|---|---|
| `stream` | is one request at a time in native code, the queue exact, and are streams whole, in time and served in sequence, whatever aborts do? | 2 handlers, queue of 1, text, stream and model requests, with 1 key or none, remembered and immediate aborts, 2 tokens of which 1 is delayed |
| `rough` | is the lock given back if clients leave anywhere and aborts are remembered? | 2 handlers, streams with 1 key, clients that leave, threads that switch inside the count, 1 token |
| `context` | do context and caches agree? | 3 prompts in a window of 11 with answers of up to 5 tokens, batches of 3, drafts of 2, with and without a draft model; a banned phrase of twice the same token; saved states without a draft model |
| `upset` | does every request end, after faults too? | a blank prompt and two of 8 tokens in a window of 12, answers of up to 4, all faults, smart context on and off, with and without a draft model |
| `kv` | does the cache implement the store? | 4 cells, 2 sequences, batches of up to 3 tokens in parts of 2, positions to 4, windows "standard" and "chunked" of 2 |
| `manager` | is a reload done or recovered from, and do stories survive? | 2 handlers, 1 story, 2 slots, 1 model, 1 configuration that does not parse, with and without tunnel; two reloaders, or one and a file that vanishes, or two savers one of whom reloads, or two of two slots, or one or two whose save file vanishes |
| `mind` | do index, conclusions and importance follow from what was given? | 3 names, 7 atoms, up to 3 links with strong and weak truths, 2 calls of attention, 2 of inference with 2 premises or 1 with 4, 2 steps |
| `horde` | does a job end with its own answer or none, and is what the worker stops for as errors as many? | 2 jobs, 2 places in the server, 1 local client, 2 tries, a pause after 1 error, the end after 2 pauses, credit for each success |
| `native_overlap` | a client leaves before the headers of its stream | finding |
| `stale_stream` | a remembered abort, then a stream | finding |
| `draft_load` | a saved state is restored under a draft model | finding |
| `false_recovery` | a server without a tunnel is reloaded and ends later | finding |

**Bounds.** Two handlers suffice for what one request can do to the next, and
with a queue of one place all outcomes of admission occur between them: a
handler counts as queued from `CheckQueue` to `Dequeue`, and meanwhile another
is refused or takes the lock without queueing; `OneInNative` and `QueueExact`
are proved for any number. Two tokens, one of them delayed, are enough for an
abort between the last test of the flag and the push, and for a flush after it.
`context` drafts: with answers of 5 tokens and drafts of 2 a draft begins in the
middle of an answer, may be wrong at either row, aborted between them or ended
by a rewind, and stops being made at the end of the budget. The premises of
`mind` are any two of 7 atoms, or any four of the first 5 in any order, so that
pairs of weak links are revised after a conclusion of another pair. The save
file needs two slots to be whole and stale. In `GenContext` one request can harm
another only through the record, the caches, the remembered half and the saved
state, all of which carry over between any number of requests in the run.
Thresholds of the code (`ShortfallThreshold`, the 32 tokens of `SCTokThreshold`,
the delay buffer) are constants, small here so that a shift or a cut happens in
a short window. Four cells hold two sequences that share, fill up, leave holes
and are compacted. `manager` and `mind` explore their `Clients` and `Plans` side
by side rather than multiplied. The limits of the worker (10, 5, 50, 5) are
proved about for all values. `mind` and `horde` check no deadlock: calls on the
atoms are bounded, and a worker without a cluster stops.

The views `Essence` merge states that differ only in variables assigned before
they are next read. Prompts of the begin token alone are left out of `context`:
fast-forward may reuse a context of one token although it was never evaluated
(after a rewind to the start, or an abort), which `CacheMatches` and
`SamplesItsContext` do not survive. `PROJECT.json` lists this as a hazard.

**Fairness.** `FairSpec` of `KcppServer` assumes that each started thread keeps
running, separately for each handler's admission, locked section, generation and
stream, and for an abort call under way: they are threads of the operating
system, and the generation loop and the polling loop of the stream do not wait
for each other. `LockReleased` has one exception, stated in it (`PollsInVain`):
the stream of the process's first generation, if a remembered abort cancels
that, polls for a flag that nobody sets. Nothing is assumed of clients, nor of
who acquires a free lock. `FairSpec` of `GenContext` assumes that a generation
that has started goes on. `Spec` of `AdminSupervisor` assumes that the manager's
loop goes on, that a load ends, one way or the other, and that a handler that
has begun to write a reload request finishes; not that servers die or clients
call. `FairSpec` of `HordeWorker` assumes that the worker and some submitting
thread go on, that the server serves somebody (its own liveness is
`LockReleased`) and that 20 s pass; who is served is left open, and the cluster
may refuse for ever. `KvCache` and `Mind` are called functions: safety only.

## What the runs found

* `native_overlap`: headers are written before the `try` of
  `handle_sse_stream`; if that fails, the lock is released while the executor
  thread generates.
* `stale_stream`: a remembered abort returns from `generate()` without touching
  the backend's status, so the stream reads the flag and the tokens of the
  generation before, or, if there was none, polls for ever.
* `draft_load`: restoring a state leaves the draft model's cache as it was, and
  the next request fails.
* `false_recovery`: only a server with a tunnel sets `load_complete`, so without
  one the manager stays in recovery after a reload, and the later end of a
  server that had loaded brings the original back instead of ending the program.

Each is quoted against the code and its documents in `PROJECT.json`. Other
observations, which no run states:

* Smart context without context shift: the second loop of fast-forward
  (`model_adapter.cpp` 543 to 561) lacks the guard of the first (508) that
  keeps the context's last token, which was never evaluated, from being reused.
  If the next prompt repeats the answer, the batch leaves a hole in the cache
  and the request fails; TLC finds `EvalFits` violated once such prompts are
  among those of an instance with smart context.
* A banned phrase of different tokens can be shown. Each rewind shortens the
  delay buffer (`gpttype_adapter.cpp` 4052 to 4057, released at 3989) and bans
  only the first token of the phrase at its place; what comes instead may be
  followed by the phrase again, until the buffer is empty and the phrase begins
  in what is shown. With `Phrase = <<6, 7>>`, `DelayLimit = 5` (its length and
  the 3 of line 3128), `Sampled = {6, 7}`, `NPredict = 11`, `NCtx = 16`, no
  drafts and the prompt `<<0, 1>>`, TLC shows six 6s and then the phrase, while
  `kcpp_docs.embd` 216 has it "prevented from being generated, either modifying
  model vocab or by backtracking and regenerating". A phrase of one token, or
  of one token repeated, is always hidden: this is what `PhraseHidden` states
  and `RepeatedPhraseHidden` proves.
* `requestsinqueue` drifts where threads may switch inside an update (CPython
  before 3.10); `rough` shows that the lock does not suffer.
* KV cache: `pos_div` adds its shift with the wrong sign (the server never
  divides positions); `state_write` ignores a pending shift, which the server
  has after an aborted request (see `KvCache` above); a K-shift or compaction
  that fails is swallowed. A batch that is refused may have purged tokens that
  the window hides from its own (`prepare`, 412, restores only the slots),
  although `include/llama.h` 952 says that the state is restored.
* Abort: a generation that is told to stop still puts out the token past its
  last test and the delayed ones.
* Supervisor: a reload accepted while the manager restarts is lost; target and
  override of overlapping requests mix; an override that is not found, or beside
  a `.kcpps`, is dropped and answered with success; a configuration file that
  vanishes ends the manager.
* Saved stories: a torn file loses all of them; of two handlers that save at
  once the one with the older text may close the file last, so that a story that
  was acknowledged is gone after the next restart; a story that was refused
  because the file is missing stays in memory.
* Horde worker: at its exit limit it still fetches a job and drops it untried;
  abandoned jobs count as no error, so a server that always fails never pauses
  it; an answer without results, or of the cluster without an id, ends it by an
  exception; an abort without a key by a local client cuts a job whose text is then
  submitted as "ok", as is the empty text of a failed generation.
* OpenCog: the attention bank is never copied to or from the atoms;
  `update_statistics` divides by zero in the first cycle; `set_parameters`
  assigns its parameters to themselves; `forward_chain` uses the first
  productive pair at every step; `backward_chain` leaves links behind and does
  not build its target.

## Proofs

`KcppServer_proofs`, from `ServerAssumption`:

1. `TypeCorrect`: `Spec => []TypeOK`.
2. `LockDiscipline`: `Spec => []LockHeld`. `LockHeld` is not inductive:
   `HeadersFail` sends a handler to `"release"` from wherever its `pc` is. The
   invariant `LockInv` adds `HeadersInside`: a stream that still has to write
   its headers belongs to a handler in the locked section.
3. `OneAtATime` and `Serial`, under `~ClientLeaves`: at most one handler is in
   native code, and `KcppServer` implements `SerialService` (the map is
   `ServicePhase`). `ServiceInv` adds `GenLocked`: a generation that is not over
   keeps its handler in the locked section. `LockHeld` then makes that handler
   unique. The assumption is needed: run `native_overlap`.
4. `QueueCounted`, under `~SplitUpdates`: `requestsinqueue` is the number of
   handlers in the queue. Each action changes the set of queued handlers by at
   most one, and `FiniteSetTheorems` gives its cardinality; the guard of
   `OneLess` is never needed.
5. `OutputIsOwn` and `AbortIsFinal`, under `~ClientLeaves`: `OutputInv` adds to
   `ServiceInv` that the published key is that of the generation past
   `PublishKey` and that the buffers are its own past `ResetOutput`. Since no
   second generation can reset the flag, an abort sticks: no turn is started and
   no token chosen after it. What is still put out is the token of a generation
   that is past `ChooseToken`, and what was delayed.
6. `StreamsWhole` and `StreamsWait`, under `~ClientLeaves` and `~SlowPrep`: a
   stream that has not sent tokens of another request has sent all of its own
   when it ends, and it ends, or takes the flag for set, only when its own
   generation is over or was cancelled (then it may have sent those of another).
   `StreamInv` adds to `OutputInv` that a stream has looked at nothing before its
   generation is past the resets (`UnsentBefore`; this is what the delay before
   the first poll is for), that the flag is down from the reset to the end
   (`FlagDown`), that a stream which has read the flag as set belongs to a
   generation that is over (`OverWhenRead`, which rests on the flag being read
   before the tokens), and that no more tokens are sent than there are.

`AdminSupervisor_proofs`, from `SavesAssumption` and `AdminAssumption`:

1. `TypeCorrect`, with an invariant `Typed` that also says where each handler
   may be and what the manager has chosen.
2. `ReloadNeverEndsProgram`: the program ends only with a server that had loaded
   or was the original one. `Covered` says that after `Terminate` and until the
   new server has loaded, recovery is on.
3. `StoriesSurvive`: an acknowledged story is in memory, and in the file unless
   that was removed, torn, or closed last by a handler that had passed it by.
   `Agreed` says that memory holds what was acknowledged and what is on its way
   (`MemoryAgrees`), that the text of each open handler is memory but for the
   slots it missed (`TextAgrees`), that the file is memory but for `stale` slots
   and those on their way (`FileIsMemory`, `FileAgrees`), and when it is whole
   (`FileWhole`).
4. `ReloadsAsAccepted`: what the manager is about to load is target and override
   of what one request was taken for, unless requests overtook each other.
   `AskedInv` follows that request through its handler (`PassesOn`: the override
   is written before the target), the shared dictionary (`Announced`) and the
   manager's two reads.

`GenContext_proofs`, from `ContextAssumption`:

1. `WindowAlwaysKept` and `GenerationTypes`, with all faults, aborts, kinds of
   saved state and smart context. `WindowInv`: the context, what is left of the
   prompt and what may still be generated fit the window together
   (`WindowRequest`); what is to be evaluated is the end of the context
   (`WindowTest`); while tokens are chosen the rows, the drafts and `n_past`
   belong together (`WindowChoice`).
2. `SamplesWhatItBelieves`, `CacheMatchesContext` and `NothingMisfits`, under
   `Plain`: no faults, no saved states while a draft model is loaded, no smart
   context where context shift is off, and prompts that keep two tokens at least
   when they are trimmed. Each clause is needed: without any one of them TLC
   finds a counterexample (a fault breaks `CacheMatches`, a restore under a
   draft model `EvalFits`, the others `SamplesItsContext`). `ContextInv` says that
   between requests nothing but the last token of the record may be missing in
   the cache (`Kept`), that in a request the record and the rest of the prompt
   begin with the prompt (`Begun`), that the cache holds what precedes the batch
   (`AtTheTest`), and that while tokens are chosen it holds the context, then the
   drafts not yet judged, and each row of logits was computed from the cells up
   to its place (`Choosing`). The lemmas before it say what the operations on
   records and caches do to any of them; of the piece that context shift finds it
   is used that it occurs in both, not that it is a longest one.
3. `RepeatedPhraseHidden`, always. `PhraseInv`: the phrase is nowhere in what is
   shown followed by what is delayed, and none can begin in what is shown any
   more (`Guarded`). The second part is what fails for a phrase of different
   tokens.

`GenContext` takes greatest and least numbers of sets; `GreatestExists` derives
them from the well-founded order of finite sets in the library, in place of
induction.

`HordeWorker_proofs`, from `WorkerAssumption`:

1. `TypeCorrect` and `OwnAnswers`. `HordeInv` adds `InHand` (from the beginning
   of a round to the reply no text is in hand) and `AwaitsOwn` (the reply the
   worker waits for is to a request about its job, not answered before), which
   keeps the requests of earlier jobs and attempts apart.
2. `StoppedByErrors`. `Owed`: while the server does not close, the pauses in
   force, times what each costs, and the errors since do not exceed the errors
   counted.

`KvCells_proofs` and `KvCache_proofs`, from `CellsAssumption` and
`CacheAssumption`, for any number of cells and sequences and any batches:

1. `IndexesStayExact`: after any call the index of used cells and the count of
   each position in each sequence are those of the cells. `CellsInv` says it of
   cells alone, with what the methods need besides (an empty cell is in no
   sequence). `KvCells_proofs` shows that every method keeps it under the
   condition its callers must meet: `SeqAdd` only for a sequence the token is not
   in, `PosSet` only on an empty cell. `Sound` is `CellsInv` with a head in its
   range, a key for each cell in use, no shift where there is no token or none is
   announced (`Calm`, which is what lets `PosSet` leave the shift of a cell
   alone), and the same of a saved state.
2. `KeysRotated`: each key, the shift pending in its cell and the shift that a
   saved state has lost make up the token's position. `SoundlyRotated` adds to
   `Sound` the same of the cells that are saved. No assumption is needed.
   The argument is one notion for each kind of call: cells only lose tokens
   (`Shrinks`), tokens move with their shift (`Tracks`), tokens change cells with
   their keys (`Follows`), or come with a key for their position (`Computing`).
3. `CacheTypes`, if no batch is longer than the cache (`llama_context` bounds
   `n_batch` by `n_ctx`); else the model would have no names for its tokens.

A batch is the long part of both. `ApplyUbatchIs` says what placing a ubatch
does to each cell; `TriedIs` keeps the chain of states that a plan goes through,
and `RestoredIs` walks it back: once the slots are undone in the opposite order
the cells are those before the plan, which `Within` bounds in between. `PlanIs`
shows that compaction fills each hole from a cell beyond the last used place,
and no two from the same (`LaterDiffers` counts the holes filled before), so that
`Mv` always finds its source in use and its target empty.

The methods are folded over sets of cells, and the provers cannot instantiate
an induction theorem with an operator parameter. `Folding` states induction over
a fold with the step and what it keeps as CONSTANT operators; each fold is an
INSTANCE of it (`RmFold`, `PutFold`, `UndoFold`, ...), whose theorems are then
about that fold.

`Mind_proofs`, from `MindAssumption`, with an inductive invariant `Inv` for any
links, names, premises, steps and numbers of calls:

1. `MindTypes` and `AtomsAlwaysAgree`. `Sound` is `AtomsAgree` with the types of
   atoms and index; the formulas keep to percents (`TogetherIs`, `WeighedIs`,
   `FormulaIs`).
2. `ConclusionsAlwaysFollow` and `AttentionAlwaysFollows`. Each operation is one
   of two relations of the space to what it was: `Derives` (new links cross no
   border that the old ones do not, and nothing gains importance) or `Stirs`
   (importance goes only where links lead). Both are kept by the folds over
   pairs, links and the focus, which are instances of `Folding`. A link that a
   client gives may join sets that were apart, and then the invariant is about
   fewer sets: `Carried` relates a set of the atoms now to one of those before.
3. `ResultAlwaysStored`. A revision changes its first premise even when its
   result is too weak to conclude, so that a later turn could change what the
   chain has concluded. It cannot, because `Together(c1, c2) >= c1` unless `c1` is
   certain: revising what reached the threshold reaches it too, concludes, and
   becomes the result; and so every link on the trail stays confident. What is
   certain drops to 99 by revision, hence the clause
   `NotRevised`: a conclusion that is certain is the last of the working set, where
   it is never the first of a pair.

Each inductive invariant was checked by TLC before it was proved. Only
model-checked: `GoesOn` of `Mind`, the action properties of `KvCache` and that
it implements `KvStore`, and all liveness, which is beyond the prover.
`RefusedOnlyIfFull` is a fact about few cells (with more holes than `MaxMoves`
runs to fill, compaction need not make room: with six cells and one move TLC
finds a batch of two refused though two are free), so it has no theorem.

## Not modelled

* The turn counters of shared stories: nothing in the server reads them.
* Recurrent models, images, guidance, grammars; states of one sequence, the pair
  of caches for sliding windows, compute graphs of updates that fail.
* MOSES: one loop whose every decision is random, scored by floating-point
  fitness. The cognitive API does not compile (it includes one JSON library and
  uses another) and has no caller; the tensor operations are numeric kernels.
* Model loading (sequential retries by format), the launcher and GUI, the web
  clients, ggml and the vendored adapters: numeric, I/O or dialogs.

## Plan

1. Done: the modules and proofs above.
2. Proofs: that `KvCache` implements `KvStore`, call by call; `NoNewHoles`;
   `GoesOn`.
3. Modelling: texts in `HordeWorker` (whole, cut, empty) with aborts, so that
   what is submitted as "ok" can be stated; a restore that fails in
   `GenContext`; the pair of caches for sliding windows.
