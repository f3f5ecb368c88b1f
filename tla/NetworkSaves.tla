----------------------------- MODULE NetworkSaves -----------------------------
(***************************************************************************)
(* The stories that clients save on the server: savedata_obj of            *)
(* koboldcpp.py and its file. A handler changes the dictionary in memory,  *)
(* truncates the file, walks over the dictionary as it is at each step and *)
(* writes the rest of its text when it closes the file; no lock is held.   *)
(* The process may be killed at any time; the next one reads the file.     *)
(***************************************************************************)
EXTENDS FiniteSets

CONSTANTS
    Savers,   \* the handler threads that save stories
    Slots,    \* net_save_slots
    Stories,  \* what clients save
    Nothing,  \* no dictionary, or no story
    Torn,     \* the content of a file that is not a whole dictionary
    Missing,  \* there is no file
    Unsure    \* ghost: a slot whose last save was not acknowledged, or a
              \* story that another handler has replaced since

VARIABLES
    savedata_obj, \* the dictionary: a function on the slots with a story
    file,         \* the content of the save file
    saver,        \* each handler: [pc, slot, story, keys, text, missed, crossed]
    acked,        \* ghost: what clients were told is saved, by slot
    disturbed,    \* ghost: the file was left torn by a kill or by two writers
    stale         \* ghost: slots whose save the last writer of the file had
                  \* passed by when it was made

savesVars == <<savedata_obj, file, saver, acked, disturbed, stale>>

\* The dictionaries there can be, in memory and in the file.
Saves == UNION {[stored -> Stories] : stored \in SUBSET Slots}

ASSUME SavesAssumption ==
    /\ Nothing \notin Saves \cup Stories \cup Slots
    /\ Torn # Missing /\ {Torn, Missing} \cap Saves = {}
    /\ Unsure \notin Stories \cup {Nothing}

Idle == [pc |-> "idle", slot |-> Nothing, story |-> Nothing, keys |-> {}, text |-> <<>>,
         missed |-> {}, crossed |-> FALSE]

Lookup(saves, s) == IF s \in DOMAIN saves THEN saves[s] ELSE Nothing

\* The dictionary with a story stored, or the one there is erased.
Put(saves, s, story) ==
    [t \in IF story = Nothing THEN DOMAIN saves \ {s} ELSE DOMAIN saves \cup {s} |->
        IF t = s THEN story ELSE saves[t]]

SavesInit ==
    /\ savedata_obj = Nothing
    /\ file = <<>>
    /\ saver = [h \in Savers |-> Idle]
    /\ acked = [s \in Slots |-> Nothing]
    /\ disturbed = FALSE
    /\ stale = {}

\* They have the file open: still in the walk, or after it.
Writers == {h \in Savers : saver[h].pc \in {"dump", "close"}}

\* Read the file at the start, or create it; without a whole one there are no
\* saves at all. What the file does not hold is lost.
LoadSaves ==
    /\ savedata_obj' = IF file = Torn THEN Nothing ELSE IF file = Missing THEN <<>> ELSE file
    /\ file' = IF file = Missing THEN <<>> ELSE file
    /\ acked' = [s \in Slots |-> IF file = Missing \/ s \in stale THEN Unsure ELSE acked[s]]
    /\ stale' = {}
    /\ UNCHANGED <<saver, disturbed>>

\* The process is gone, with its memory and its threads.
LoseSaves ==
    /\ savedata_obj' = Nothing
    /\ saver' = [h \in Savers |-> Idle]
    /\ disturbed' = (disturbed \/ (file = Torn /\ Writers # {}))
    /\ acked' = [s \in Slots |-> IF \E h \in Savers : saver[h].slot = s THEN Unsure ELSE acked[s]]
    /\ UNCHANGED <<file, stale>>

\* The user removes the file.
LoseFile ==
    /\ file # Missing
    /\ file' = Missing
    /\ UNCHANGED <<savedata_obj, saver, acked, disturbed, stale>>

\* Mutant: an erased story needs no save.
PutStoryErasing(h, s, story) ==
    /\ savedata_obj # Nothing
    /\ saver[h].pc = "idle"
    /\ story # Nothing \/ s \in DOMAIN savedata_obj
    /\ savedata_obj' = Put(savedata_obj, s, story)
    /\ IF story = Nothing
       THEN acked' = [acked EXCEPT ![s] = Nothing] /\ UNCHANGED saver
       ELSE /\ saver' = [saver EXCEPT ![h] = [Idle EXCEPT !.pc = "open", !.slot = s, !.story = story]]
            /\ UNCHANGED acked
    /\ UNCHANGED <<file, disturbed, stale>>

\* A story that is put while others write: one that has passed its slot, or has
\* ended its walk, does not write it.
Overtaken(w, s, late) ==
    \/ saver[w].pc = "close"
    \/ saver[w].pc = "dump" /\ (w \in late \/ s \in saver[w].missed)

\* Store a story in the dictionary, or erase the one there is.
PutStory(h, s, story) ==
    /\ savedata_obj # Nothing
    /\ saver[h].pc = "idle"
    /\ story # Nothing \/ s \in DOMAIN savedata_obj
    /\ savedata_obj' = Put(savedata_obj, s, story)
    /\ \E late \in SUBSET {w \in Savers : saver[w].pc = "dump"} :
         saver' = [w \in Savers |->
           IF w = h THEN [Idle EXCEPT !.pc = "open", !.slot = s, !.story = story]
           ELSE [saver[w] EXCEPT
                   !.story = IF saver[w].slot = s THEN Unsure ELSE @,
                   !.missed = IF Overtaken(w, s, late) THEN @ \cup {s} ELSE @,
                   !.text = IF saver[w].pc = "dump" /\ ~Overtaken(w, s, late)
                            THEN Put(@, s, story) ELSE @]]
    /\ UNCHANGED <<file, acked, disturbed, stale>>

\* open(..., 'w+') truncates the file, also under another writer.
OpenFile(h) ==
    /\ saver[h].pc = "open"
    /\ file # Missing
    /\ file' = Torn
    /\ saver' = [w \in Savers |->
           IF w = h THEN [saver[w] EXCEPT !.pc = "dump", !.keys = DOMAIN savedata_obj,
                                          !.text = savedata_obj, !.crossed = Writers # {}]
           ELSE [saver[w] EXCEPT !.crossed = @ \/ w \in Writers]]
    /\ UNCHANGED <<savedata_obj, acked, disturbed, stale>>

\* The handler answers that the story is not saved, though it is in memory.
Refuse(h) ==
    /\ acked' = [acked EXCEPT ![saver[h].slot] = IF saver[h].story = Unsure THEN @ ELSE Unsure]
    /\ saver' = [saver EXCEPT ![h] = Idle]

\* "SaveDataFile is missing!"
FileMissing(h) ==
    /\ saver[h].pc = "open"
    /\ file = Missing
    /\ Refuse(h)
    /\ UNCHANGED <<savedata_obj, file, disturbed, stale>>

\* A buffer is full. What it goes over, or leaves behind it, may be the text of
\* another writer.
FlushSome(h) ==
    /\ h \in Writers /\ saver[h].crossed
    /\ file \notin {Torn, Missing}
    /\ file' = Torn
    /\ UNCHANGED <<savedata_obj, saver, acked, disturbed, stale>>

\* json.dump has walked over the dictionary, as it was at each step.
EndWalk(h) ==
    /\ saver[h].pc = "dump"
    /\ Cardinality(saver[h].keys) = Cardinality(DOMAIN savedata_obj)
    /\ saver' = [saver EXCEPT ![h].pc = "close"]
    /\ UNCHANGED <<savedata_obj, file, acked, disturbed, stale>>

\* The rest of the text is written. Two writers may leave the text of the one
\* that closes last, the one before, or a mixture.
CloseFile(h) ==
    /\ saver[h].pc = "close"
    /\ \/ file' = saver[h].text /\ file # Missing /\ stale' = saver[h].missed
       \/ file' = Torn /\ file # Missing /\ saver[h].crossed /\ UNCHANGED stale
       \/ UNCHANGED <<file, stale>> /\ (saver[h].crossed \/ file = Missing)
    /\ disturbed' = (file' = Torn)
    /\ acked' = [acked EXCEPT ![saver[h].slot] = IF saver[h].story = Unsure THEN @ ELSE saver[h].story]
    /\ saver' = [saver EXCEPT ![h] = Idle]
    /\ UNCHANGED savedata_obj

\* A dictionary that changes while it is walked over ends the dump.
DumpRaises(h) ==
    /\ saver[h].pc = "dump"
    /\ saver[h].keys # DOMAIN savedata_obj
    /\ file' = IF file = Missing THEN Missing ELSE Torn
    /\ disturbed' = TRUE
    /\ Refuse(h)
    /\ UNCHANGED <<savedata_obj, stale>>

SaveStep(h) ==
    \/ OpenFile(h) \/ FileMissing(h)
    \/ FlushSome(h) \/ EndWalk(h) \/ DumpRaises(h) \/ CloseFile(h)

SavesType ==
    /\ saver \in [Savers -> [pc : {"idle", "open", "dump", "close"}, slot : Slots \cup {Nothing},
                             story : Stories \cup {Nothing, Unsure}, keys : SUBSET Slots,
                             text : Saves, missed : SUBSET Slots, crossed : BOOLEAN]]
    /\ acked \in [Slots -> Stories \cup {Nothing, Unsure}]
    /\ disturbed \in BOOLEAN
    /\ stale \subseteq Slots
    /\ savedata_obj \in Saves \cup {Nothing}
    /\ file \in Saves \cup {Torn, Missing}

\* The slots whose last save was acknowledged, with none on its way.
Sure == {s \in Slots : acked[s] # Unsure /\ \A h \in Savers : saver[h].slot # s}

\* A story that was acknowledged is in the server's memory, and it is in the
\* file once no handler writes there, unless the user removed the file, it was
\* torn (by a kill between the truncation and the end of a write, by two
\* handlers writing at once, or by a walk that raised), or a handler that began
\* before the story was put closed the file after the one that saved it.
SavesSurvive ==
    /\ savedata_obj # Nothing => \A s \in Sure : Lookup(savedata_obj, s) = acked[s]
    /\ Writers = {} /\ file # Missing /\ ~disturbed =>
          file # Torn /\ \A s \in Sure \ stale : Lookup(file, s) = acked[s]
=============================================================================
