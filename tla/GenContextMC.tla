---------------------------- MODULE GenContextMC ----------------------------
(***************************************************************************)
(* Prompts for checking GenContext: token 0 begins every prompt, 8 ends    *)
(* an answer, and two 7 in a row are the banned phrase.                    *)
(***************************************************************************)
EXTENDS GenContext

\* A prompt, and one that continues an answer to it, beyond the window: trimmed,
\* it is the context before it with a piece of the middle erased. It also goes
\* on where an answer to the shorter third one may have ended.
ManyPrompts ==
    {<<0, 1, 2, 3, 4, 5>>, <<0, 1, 2, 3, 4, 5, 6, 7, 1>>, <<0, 4, 5, 6>>}

RestorePrompts == {<<0, 1, 2>>, <<0, 1, 2, 7, 3>>, <<0, 3, 2>>}

\* A blank one (the begin token only), a story that fills the window, and what
\* it is cut down to with a little more.
StoryPrompts == {<<0>>, <<0, 1, 2, 3, 4, 5, 1, 2>>, <<0, 4, 5, 1, 2, 3, 1, 3>>}

\* Between requests only this is read before it is next assigned, or by a
\* property: the rest of the last request's state need not tell states apart.
Essence ==
    IF stage = "idle"
    THEN <<current_context_tokens, kv, dkv, savestate, draft_ctx,
           IF draft_ctx \in Saves THEN logits ELSE <<>>,
           use_smartcontext, smartcontext, Places(shown, Phrase)>>
    ELSE vars

TwoSevens == <<7, 7>>
=============================================================================
