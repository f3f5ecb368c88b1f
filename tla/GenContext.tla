----------------------------- MODULE GenContext -----------------------------
(***************************************************************************)
(* How gpttype_generate of gpttype_adapter.cpp keeps its record of the     *)
(* context (current_context_tokens) in step with the KV cache of the model *)
(* from one request to the next: what is reused of the previous request,   *)
(* erased from the middle of it, rewound, drafted, saved and restored.     *)
(*                                                                         *)
(* Requests come one at a time (the server's lock); an abort may come from *)
(* another thread during one. A token is a number; a cache is a function   *)
(* from the positions it holds, counted from 0, to their tokens.           *)
(***************************************************************************)
EXTENDS Integers, Sequences, FiniteSets

CONSTANTS
    Prompts,     \* the tokenized prompts clients send
    Bos,         \* the begin-of-text token
    Eos,         \* the end-of-text token
    Sampled,     \* the tokens the model may produce
    NCtx,        \* kcpp_data->n_ctx
    NPredict,    \* kcpp_data->n_predict
    NBatch,      \* kcpp_data->n_batch
    Shift,       \* kcpp_data->use_contextshift
    Shortfall,   \* ShortfallThreshold of PurgeMissingTokens
    Slack,       \* SlackAllowance of PurgeMissingTokens
    Drafts,      \* whether there is a draft model: the cases considered
    Smart,       \* the cases in which smart context (use_smartcontext) may be on
    Common,      \* the constant part of SCTokThreshold
    Chunk,       \* speculative_chunk_amt
    Phrase,      \* the banned phrase, as tokens; empty if there is none
    DelayLimit,  \* delayed_generated_tokens_limit
    Saves,       \* the cases in which clients save and restore the context
    Faults,      \* the faults that may happen, out of AllFaults
    NoState      \* an empty save slot

\* An evaluation that fails, and an abort that comes after a batch of the
\* prompt was recorded in the context and before it is evaluated.
AllFaults == {"decode", "abort"}

ASSUME ContextAssumption ==
    /\ Prompts \subseteq Seq(Nat) \ {<<>>}
    /\ Bos \in Nat /\ Eos \in Nat
    /\ Sampled \subseteq Nat /\ Sampled # {}
    /\ NCtx \in Nat /\ NPredict \in 1..NCtx-1 /\ NBatch \in Nat \ {0}
    /\ Shortfall \in Nat /\ Slack \in Nat
    /\ Shift \in BOOLEAN /\ Drafts \subseteq BOOLEAN
    /\ Saves \subseteq Drafts /\ Smart \subseteq Drafts /\ Common \in Nat
    /\ Chunk \in Nat \ {0}
    /\ Phrase \in Seq(Nat) /\ DelayLimit \in Nat
    /\ Phrase # <<>> => Len(Phrase) <= DelayLimit
    /\ Faults \subseteq AllFaults

VARIABLES
    current_context_tokens, \* the tokens the program believes are in context
    draft_ctx,              \* whether the draft model is loaded
    use_smartcontext,       \* whether smart context is on
    smartcontext,           \* what a prompt was cut down to, to know it again
    kv,                     \* the KV cache of the model
    dkv,                    \* the KV cache of the draft model
    logits,                 \* the cells each row of logits was computed from
    n_past,                 \* how many positions are evaluated
    embd,                   \* the tokens to evaluate next
    embd_inp,               \* what is left of the prompt to take in
    remaining_tokens,
    early_abort,
    draftids,               \* the tokens drafted in this turn, if any
    logits_sampled,         \* the rows of logits sampled in this turn
    delayed,                \* delayed_generated_tokens
    shown,                  \* generated_tokens
    bans,                   \* antislop_banned_token_ids: <<position, token>>
    savestate,              \* the saved context, or NoState
    stage,                  \* where the generation is
    goal                    \* ghost: the prompt of this request, as trimmed

contextVars == <<current_context_tokens, kv, dkv, n_past>>
outputVars  == <<delayed, shown, bans>>
draftVars   == <<draftids, logits_sampled>>
turnVars    == <<embd, embd_inp, remaining_tokens, stage>>
requestVars == <<goal, smartcontext, draft_ctx, use_smartcontext>>
vars == <<contextVars, outputVars, draftVars, turnVars, logits, early_abort,
          savestate, requestVars>>

Token == Nat

IsCache(cache) ==
    /\ cache = [i \in DOMAIN cache |-> cache[i]]
    /\ DOMAIN cache \subseteq 0..NCtx
    /\ \A i \in DOMAIN cache : cache[i] \in Token

-----------------------------------------------------------------------------
(* Sequences and caches                                                    *)

Least(S) == CHOOSE m \in S : \A n \in S : m <= n
Greatest(S) == CHOOSE m \in S : \A n \in S : n <= m
Smaller(m, n) == IF m < n THEN m ELSE n
Larger(m, n) == IF m < n THEN n ELSE m

Take(s, n) == SubSeq(s, 1, n)
Drop(s, n) == SubSeq(s, n + 1, Len(s))

StartsWith(s, t) == Len(t) <= Len(s) /\ Take(s, Len(t)) = t

\* The places, counted from 0, where t occurs in s.
Places(s, t) == {i \in 0..Len(s) - Len(t) : Take(Drop(s, i), Len(t)) = t}

\* How many leading tokens s and t share.
Agreement(s, t) ==
    Greatest({n \in 0..Smaller(Len(s), Len(t)) : Take(s, n) = Take(t, n)})

\* The longest run of tokens that occurs in both, the first such run of s.
LongestCommonSubseq(s, t) ==
    LET runs == {r \in (0..Len(s)) \X (0..Len(s)) :
                   r[1] + r[2] <= Len(s) /\ Places(t, Take(Drop(s, r[1]), r[2])) # {}}
        most == Greatest({r[2] : r \in runs})
        from == Least({r[1] : r \in {q \in runs : q[2] = most}})
    IN  Take(Drop(s, from), most)

Cells(s) == [i \in 0..Len(s) - 1 |-> s[i + 1]]

\* Variant: one cell too many stays.
BelowOrAt(cache, n) == [i \in {j \in DOMAIN cache : j <= n} |-> cache[i]]

\* llama_memory_seq_rm(mem, 0, n, -1)
Below(cache, n) == [i \in {j \in DOMAIN cache : j < n} |-> cache[i]]

\* Variant: only the tokens are erased.
ExciseNothing(cache, from, to) == cache

\* llama_memory_seq_rm of [from, to) and seq_add of what follows.
Excise(cache, from, to) ==
    LET left == {i \in DOMAIN cache : i < from}
        moved == {i - (to - from) : i \in {j \in DOMAIN cache : j >= to}}
    IN  [i \in left \cup moved |->
            IF i < from THEN cache[i] ELSE cache[i + (to - from)]]

\* llama_decode takes a batch only where the cache ends, or into an empty one.
Fits(cache, start) ==
    DOMAIN cache # {} => start = Greatest(DOMAIN cache) + 1

Store(cache, start, batch) ==
    [i \in DOMAIN cache \cup start..start + Len(batch) - 1 |->
        IF i < start THEN cache[i] ELSE batch[i - start + 1]]

-----------------------------------------------------------------------------
(* What a new request keeps of the old context                             *)

\* Variant: no room is left for the answer.
TrimmedToWindow(prompt) ==
    IF Len(prompt) <= NCtx
    THEN prompt
    ELSE <<Bos>> \o Drop(prompt, Len(prompt) - NCtx + 1)

\* A prompt too long for the window loses its front, not the begin token.
Trimmed(prompt) ==
    IF Len(prompt) + NPredict <= NCtx
    THEN prompt
    ELSE <<Bos>> \o Drop(prompt, Len(prompt) + NPredict - NCtx + 1)

IsBlank(prompt) == prompt = <<Bos>>

\* PurgeMissingTokens: if the prompt is the old context with a piece erased
\* after their common start, the piece is erased from context and cache.
\* p0 is where they part, p1 where the old context goes on as the prompt does.
LCSTokThreshold(size) ==
    Larger(Smaller(size - (NPredict + Slack), (NCtx * 45) \div 100),
           Shortfall - Slack)

Erasure(context, prompt) ==
    LET p0 == Agreement(context, prompt)
        shared == LongestCommonSubseq(Drop(context, p0), Drop(prompt, p0))
        p1 == Least(Places(context, shared))
    IN  IF /\ p0 < Len(prompt) - 1
           /\ Len(prompt) >= 6 /\ Len(context) >= 6
           /\ Len(prompt) - p0 >= Shortfall
           /\ Len(shared) > LCSTokThreshold(Len(prompt) - p0)
           /\ StartsWith(Drop(prompt, p0), shared)
           /\ p1 > p0
        THEN [from |-> p0, to |-> p1]
        ELSE [from |-> p0, to |-> p0]

\* The copy loop stops before the last token: the place that becomes the last
\* one keeps what stood there.
EraseTokens(context, from, to) ==
    IF from = to
    THEN context
    ELSE Take(context, from) \o SubSeq(context, to + 1, Len(context) - 1)
            \o <<context[Len(context) - (to - from)]>>

\* Variant: the last token of the context may be reused.
FastForwardToEnd(context, prompt) ==
    Smaller(Agreement(context, prompt), Larger(1, Len(prompt) - 1))

\* ContextFastForward: the leading tokens both share, but neither the last
\* token of the prompt nor that of the context unless it is the only one.
FastForward(context, prompt) ==
    Smaller(Agreement(context, prompt),
            Larger(1, Smaller(Len(context), Len(prompt)) - 1))

-----------------------------------------------------------------------------
(* Smart context: a prompt that fills the window is cut down to its latter *)
(* half, which is remembered; as long as prompts still contain it, all     *)
(* before it is left out of them, so that the old context can be reused.   *)

SCCtxLenThreshold  == (NCtx * 8) \div 10
SCInpLenThreshold  == (NCtx * 6) \div 10
SCPastLenThreshold == NCtx \div 2
SCTokThreshold     == Common + NCtx \div 20

\* Whether rest, what follows the reused past of a prompt, still contains the
\* beginning of the remembered half.
StillUsable(marker, rest) ==
    LET shared == LongestCommonSubseq(marker, rest)
    IN  /\ marker # <<>>
        /\ Len(rest) >= SCInpLenThreshold
        /\ Len(shared) > SCTokThreshold
        /\ StartsWith(marker, shared)

FromMarker(marker, rest) ==
    Drop(rest, Least(Places(rest, LongestCommonSubseq(marker, rest))))

\* How many more tokens of the old context, from past on, count as reused. If
\* the first is not that of the trimmed prompt, places are compared that do
\* not correspond, and the first may lie behind its end: any value is read.
Reused(old, past, trimmed) ==
    LET after == Drop(old, past)
    IN  IF past < Len(old) /\ after[1] = trimmed[1]
        THEN {Smaller(Agreement(after, trimmed), Larger(1, Len(trimmed) - 1))}
        ELSE IF past < Len(trimmed)
        THEN {Smaller(Agreement(after, Drop(trimmed, past)),
                      Larger(1, Len(trimmed) - 1 - past))}
        ELSE {0, Smaller(1, Len(after))}

\* What ContextFastForward may make of a prompt: how much of the old context
\* is past, what is left to take in, the half to remember; and what the prompt
\* is cut down to.
TakenIn(old, prompt) ==
    LET past == FastForward(old, prompt)
        rest == Drop(prompt, past)
        half == Drop(rest, Len(rest) \div 2)
        cut(marker, from) ==
            [past |-> past, rest |-> from, marker |-> marker,
             goal |-> Take(prompt, past) \o from]
        trimmed == FromMarker(smartcontext, rest)
        smart == use_smartcontext /\ ~Shift
    IN  IF smart /\ StillUsable(smartcontext, rest)
        THEN {[cut(smartcontext, trimmed) EXCEPT !.past = past + n, !.rest = Drop(trimmed, n)] :
                n \in Reused(old, past, trimmed)}
        ELSE IF /\ smart
                /\ Len(old) >= SCCtxLenThreshold
                /\ Len(rest) >= SCInpLenThreshold
                /\ Len(old) - past > SCPastLenThreshold
        THEN {cut(half, half)}
        ELSE {cut(<<>>, rest)}

Init ==
    /\ current_context_tokens = <<>>
    /\ draft_ctx \in Drafts
    /\ use_smartcontext \in BOOLEAN
    /\ use_smartcontext => draft_ctx \in Smart
    /\ smartcontext = <<>>
    /\ kv = Cells(<<>>)
    /\ dkv = Cells(<<>>)
    /\ logits = <<>>
    /\ n_past = 0
    /\ embd = <<>>
    /\ embd_inp = <<>>
    /\ remaining_tokens = 0
    /\ early_abort = FALSE
    /\ draftids = <<>>
    /\ logits_sampled = 0
    /\ delayed = <<>>
    /\ shown = <<>>
    /\ bans = {}
    /\ savestate = NoState
    /\ stage = "idle"
    /\ goal = <<>>

\* A request starts: everything up to the sampling loop. A blank prompt reuses
\* nothing. Where context shift is on, smart context is not used.
Request ==
    /\ stage = "idle"
    /\ \E sent \in Prompts :
         LET prompt == Trimmed(sent)
             erase  == IF Shift /\ ~IsBlank(sent)
                       THEN Erasure(current_context_tokens, prompt)
                       ELSE [from |-> 0, to |-> 0]
             old    == EraseTokens(current_context_tokens,
                                   erase.from, erase.to)
             blank  == [past |-> 0, rest |-> prompt, marker |-> smartcontext,
                        goal |-> prompt]
         IN  \E taken \in IF IsBlank(sent) THEN {blank} ELSE TakenIn(old, prompt) :
               /\ goal' = taken.goal
               /\ n_past' = taken.past
               /\ current_context_tokens' = Take(old, taken.past)
               /\ embd_inp' = taken.rest
               /\ smartcontext' = taken.marker
               /\ kv' = Below(Excise(kv, erase.from, erase.to), taken.past)
               /\ dkv' = Below(Excise(dkv, erase.from, erase.to), taken.past)
    /\ embd' = <<>>
    /\ remaining_tokens' = NPredict
    /\ early_abort' = FALSE
    /\ draftids' = <<>>
    /\ logits_sampled' = 0
    /\ delayed' = <<>>
    /\ shown' = <<>>
    /\ bans' = {}
    /\ stage' = "loop"
    /\ UNCHANGED <<logits, savestate, draft_ctx, use_smartcontext>>

-----------------------------------------------------------------------------
(* The sampling loop: evaluate, then sample or take in more of the prompt. *)

\* Variant: the loop does not test for an abort.
LoopingHeedless == stage = "loop" /\ remaining_tokens > 0

\* Variant: the loop does not count tokens.
LoopingOn == stage = "loop" /\ ~early_abort

\* The test of the loop.
Looping == stage = "loop" /\ remaining_tokens > 0 /\ ~early_abort

\* Drafting needs one pending token that was itself sampled.
Speculates ==
    /\ draft_ctx
    /\ Len(embd) = 1
    /\ remaining_tokens > Chunk
    /\ remaining_tokens < NPredict

\* The first turn has nothing to evaluate.
EvalNothing ==
    /\ Looping
    /\ embd = <<>>
    /\ logits_sampled' = 0
    /\ stage' = "choose"
    /\ UNCHANGED <<contextVars, outputVars, draftids, embd, embd_inp,
                   remaining_tokens, logits, early_abort, savestate, requestVars>>

\* Both models evaluate the pending tokens, after which these are past.
Eval ==
    /\ Looping
    /\ embd # <<>>
    /\ ~Speculates
    /\ Fits(kv, n_past)
    /\ draft_ctx => Fits(dkv, n_past)
    /\ kv' = Store(kv, n_past, embd)
    /\ dkv' = IF draft_ctx THEN Store(dkv, n_past, embd) ELSE dkv
    /\ logits' = <<kv'>>
    /\ draftids' = <<>>
    /\ logits_sampled' = 0
    /\ n_past' = n_past + Len(embd)
    /\ embd' = <<>>
    /\ stage' = "choose"
    /\ UNCHANGED <<current_context_tokens, outputVars, embd_inp,
                   remaining_tokens, early_abort, savestate, requestVars>>

\* The draft model proposes Chunk tokens, one at a time; the model evaluates
\* the pending token and all proposals but the last, keeping every logits row.
EvalDraft ==
    /\ Looping
    /\ Speculates
    /\ Fits(kv, n_past)
    /\ Fits(dkv, n_past)
    /\ \E ids \in [1..Chunk -> Sampled] :
         LET batch == embd \o Take(ids, Chunk - 1)
         IN  /\ draftids' = ids
             /\ kv' = Store(kv, n_past, batch)
             /\ dkv' = Store(dkv, n_past, batch)
    /\ logits' = [row \in 1..Chunk |-> Below(kv', n_past + row)]
    /\ logits_sampled' = 0
    /\ n_past' = n_past + 1
    /\ embd' = <<>>
    /\ stage' = "choose"
    /\ UNCHANGED <<current_context_tokens, outputVars, embd_inp,
                   remaining_tokens, early_abort, savestate, requestVars>>

\* The draft model evaluates the pending token and n tokens of its own.
DraftOnly(n) ==
    \E ids \in [1..n -> Sampled] : dkv' = Store(dkv, n_past, embd \o ids)

\* The model refuses the batch, or fails: when a draft is made the draft model
\* has evaluated all of it by then.
ModelFails ==
    /\ ~Fits(kv, n_past) \/ "decode" \in Faults
    /\ IF Speculates
       THEN Fits(dkv, n_past) /\ DraftOnly(Chunk - 1)
       ELSE UNCHANGED dkv
    /\ UNCHANGED <<kv, logits>>

\* The draft model does: at any token of a draft, before the model has started,
\* or else after the model has evaluated the batch.
DraftModelFails ==
    /\ draft_ctx
    /\ ~Fits(dkv, n_past) \/ "decode" \in Faults
    /\ IF Speculates
       THEN /\ \/ UNCHANGED dkv
               \/ Fits(dkv, n_past) /\ \E n \in 0..Chunk - 2 : DraftOnly(n)
            /\ UNCHANGED <<kv, logits>>
       ELSE /\ Fits(kv, n_past)
            /\ kv' = Store(kv, n_past, embd)
            /\ logits' = <<kv'>>
            /\ UNCHANGED dkv

\* An evaluation fails, and with it the request. What was evaluated before stays
\* in the caches, and the tokens of the batch stay in the context.
EvalFails ==
    /\ Looping
    /\ embd # <<>>
    /\ ModelFails \/ DraftModelFails
    /\ stage' = "idle"
    /\ UNCHANGED <<current_context_tokens, n_past, outputVars, draftVars,
                   embd, embd_inp, remaining_tokens, early_abort,
                   savestate, requestVars>>

\* A batch of the prompt goes into the context and waits to be evaluated.
Ingest ==
    /\ stage = "choose"
    /\ ~early_abort
    /\ embd_inp # <<>>
    /\ LET n == Smaller(NBatch, Len(embd_inp))
       IN  /\ embd' = Take(embd_inp, n)
           /\ embd_inp' = Drop(embd_inp, n)
           /\ current_context_tokens' = current_context_tokens \o embd'
    /\ stage' = "loop"
    /\ UNCHANGED <<kv, dkv, n_past, outputVars, draftVars, remaining_tokens,
                   logits, early_abort, savestate, requestVars>>

\* The position the next token is sampled at.
Here == IF logits_sampled > 0 THEN n_past + 1 ELSE n_past

Allowed ==
    LET free == {t \in Sampled : <<Here, t>> \notin bans}
    IN  IF free = {} THEN Sampled ELSE free

\* How many of the delayed tokens, the last ones, hold the banned phrase.
RewindAmount(tokens) ==
    IF Phrase = <<>> \/ Places(tokens, Phrase) = {}
    THEN 0
    ELSE Len(tokens) - Greatest(Places(tokens, Phrase))

\* Variant: a token leaves one too early.
ReleasedEarly(tokens) == Larger(0, Len(tokens) - DelayLimit + 1)

\* Tokens beyond the limit leave the delay buffer.
Released(tokens) == Larger(0, Len(tokens) - DelayLimit)

\* One token is sampled from the next row of logits. If it completes the
\* banned phrase, context and caches are rewound to before it and its first
\* token is banned at that place. Rows after a wrong draft are dropped.
Sample(token) ==
    LET context == Append(current_context_tokens, token)
        queue   == Append(delayed, token)
        out     == Released(queue)
        back    == RewindAmount(Drop(queue, out))
        rewound == back > 0 /\ Len(context) > back
        past    == IF rewound THEN Larger(0, Here - back) ELSE Here
        row     == logits_sampled + 1
        more    == /\ row < Len(draftids)
                   /\ draftids[row] = token
                   /\ ~rewound
                   /\ remaining_tokens > 1
                   /\ token # Eos
    IN  /\ current_context_tokens' =
             IF rewound THEN Take(context, Len(context) - back) ELSE context
        /\ embd' = <<current_context_tokens'[Len(current_context_tokens')]>>
        /\ n_past' = past
        /\ shown' = shown \o Take(queue, out)
        /\ delayed' = IF rewound THEN SubSeq(queue, out + 1, Len(queue) - back)
                      ELSE Drop(queue, out)
        /\ bans' = IF rewound
                   THEN bans \cup
                          {<<past + 1, context[Len(context) - back + 1]>>}
                   ELSE bans
        /\ remaining_tokens' = remaining_tokens - 1
        /\ early_abort' = (token = Eos)
        /\ logits_sampled' = row
        /\ stage' = IF more THEN "choose" ELSE "loop"
        /\ IF rewound \/ (draftids # <<>> /\ ~more)
           THEN kv' = Below(kv, past) /\ dkv' = Below(dkv, past)
           ELSE UNCHANGED <<kv, dkv>>

Choose ==
    /\ stage = "choose"
    /\ ~early_abort
    /\ embd_inp = <<>>
    /\ \E token \in Allowed : Sample(token)
    /\ UNCHANGED <<draftids, embd_inp, logits, savestate, requestVars>>

\* An abort is seen before anything is sampled or taken in. If it comes after
\* the test that leads to sampling, the drafted tokens are still purged.
StopChoosing ==
    /\ stage = "choose"
    /\ early_abort
    /\ \/ logits_sampled = 0 /\ UNCHANGED <<kv, dkv>>
       \/ /\ embd_inp = <<>>
          /\ draftids # <<>>
          /\ kv' = Below(kv, n_past)
          /\ dkv' = Below(dkv, n_past)
    /\ stage' = "loop"
    /\ UNCHANGED <<current_context_tokens, n_past, outputVars, draftVars, embd,
                   embd_inp, remaining_tokens, logits, early_abort, savestate,
                   requestVars>>

\* No tokens remain, or the request is aborted: delayed tokens are shown.
Finish ==
    /\ stage = "loop"
    /\ remaining_tokens = 0 \/ early_abort
    /\ shown' = shown \o delayed
    /\ delayed' = <<>>
    /\ stage' = "idle"
    /\ UNCHANGED <<contextVars, bans, draftVars, embd, embd_inp,
                   remaining_tokens, logits, early_abort, savestate, requestVars>>

\* gpttype_generate_abort, from another thread. Between taking in a batch of
\* the prompt and the test of the loop it comes only as a fault.
Abort ==
    /\ stage # "idle"
    /\ ~early_abort
    /\ \/ "abort" \in Faults
       \/ stage = "choose"
       \/ embd = <<>>
       \/ remaining_tokens < NPredict
    /\ early_abort' = TRUE
    /\ UNCHANGED <<contextVars, outputVars, draftVars, turnVars, logits,
                   savestate, requestVars>>

-----------------------------------------------------------------------------
(* Saved states                                                            *)

\* The slot is freed before memory for the new state is asked for.
SaveState ==
    /\ draft_ctx \in Saves
    /\ stage = "idle"
    /\ savestate' \in {NoState,
                       [tokens |-> current_context_tokens, cells |-> kv,
                        rows |-> logits]}
    /\ UNCHANGED <<contextVars, outputVars, draftVars, turnVars, logits,
                   early_abort, requestVars>>

\* Only the cache of the model is restored, not that of the draft model.
LoadState ==
    /\ draft_ctx \in Saves
    /\ stage = "idle"
    /\ savestate # NoState
    /\ current_context_tokens' = savestate.tokens
    /\ kv' = savestate.cells
    /\ logits' = savestate.rows
    /\ UNCHANGED <<dkv, n_past, outputVars, draftVars, turnVars, early_abort,
                   savestate, requestVars>>

\* gpttype_clear_state_kv
ClearState ==
    /\ draft_ctx \in Saves
    /\ stage = "idle"
    /\ savestate' = NoState
    /\ UNCHANGED <<contextVars, outputVars, draftVars, turnVars, logits,
                   early_abort, requestVars>>

Turn == \/ EvalNothing \/ Eval \/ EvalDraft \/ EvalFails
        \/ Ingest \/ Choose \/ StopChoosing \/ Finish

Next == Request \/ Turn \/ Abort \/ SaveState \/ LoadState \/ ClearState

Spec == Init /\ [][Next]_vars

\* A generation that has started goes on. Nothing makes clients send one.
FairSpec == Spec /\ WF_vars(Turn)
-----------------------------------------------------------------------------
(* Properties                                                              *)

TypeOK ==
    /\ current_context_tokens \in Seq(Token)
    /\ {draft_ctx, use_smartcontext} \subseteq BOOLEAN
    /\ smartcontext \in Seq(Token)
    /\ IsCache(kv) /\ IsCache(dkv)
    /\ \A row \in DOMAIN logits : IsCache(logits[row])
    /\ n_past \in 0..NCtx
    /\ embd \in Seq(Token) /\ embd_inp \in Seq(Token)
    /\ remaining_tokens \in 0..NPredict
    /\ early_abort \in BOOLEAN
    /\ draftids \in Seq(Sampled) /\ logits_sampled \in 0..Chunk
    /\ delayed \in Seq(Sampled) /\ shown \in Seq(Sampled)
    /\ bans \subseteq (0..NCtx) \X Sampled
    /\ stage \in {"idle", "loop", "choose"}
    /\ goal \in Seq(Token)

\* Every token is sampled from logits computed over exactly the context the
\* program believes in: the prompt of this request and what it has answered
\* so far, whatever was reused, erased, rewound, drafted or restored.
SamplesItsContext ==
    stage = "choose" /\ ~early_abort /\ embd_inp = <<>> =>
        /\ StartsWith(current_context_tokens, goal)
        /\ logits[logits_sampled + 1] = Cells(current_context_tokens)

\* Between requests the cache holds every token of the context but the last,
\* each at its place: what the next fast-forward takes for granted.
CacheMatches ==
    stage = "idle" =>
        /\ 0..Len(current_context_tokens) - 2 \subseteq DOMAIN kv
        /\ \A i \in DOMAIN kv : i < Len(current_context_tokens) =>
             kv[i] = current_context_tokens[i + 1]

\* What is to be evaluated starts where each cache ends: no request fails
\* unless an evaluation fails of itself.
EvalFits ==
    Looping /\ embd # <<>> =>
        /\ Fits(kv, n_past)
        /\ draft_ctx => Fits(dkv, n_past)

\* The context and the tokens still to be produced stay within the window,
\* and so does what is drafted ahead.
WindowKept ==
    /\ stage # "idle" =>
         Len(current_context_tokens) + Len(embd_inp) + remaining_tokens <= NCtx
    /\ DOMAIN kv \subseteq 0..NCtx - 1

\* A banned phrase is never shown, also when it is cut by the delay buffer,
\* sampled again after a rewind, or drafted, if it is one token or the same
\* token several times. One of different tokens can be shown: each rewind
\* shortens the delay buffer, and may leave the beginning of the phrase just
\* shown before an empty one, where nothing finds the rest of it.
OneToken == Phrase # <<>> /\ \A i \in 1..Len(Phrase) : Phrase[i] = Phrase[1]

PhraseHidden == OneToken => Places(shown, Phrase) = {}

\* A request ends: rewinds cost tokens of its budget.
RequestEnds == stage # "idle" ~> stage = "idle"
=============================================================================
