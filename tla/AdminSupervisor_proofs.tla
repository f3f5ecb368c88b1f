------------------------ MODULE AdminSupervisor_proofs -------------------------
(***************************************************************************)
(* Theorems of AdminSupervisor, for every set of handlers, stories and     *)
(* files.                                                                  *)
(***************************************************************************)
EXTENDS AdminSupervisor, TLAPS

-----------------------------------------------------------------------------
(* Saved stories *)

SaverRecord == [pc : {"idle", "open", "dump", "close"}, slot : Slots \cup {Nothing},
                story : Stories \cup {Nothing, Unsure}, keys : SUBSET Slots, text : Saves,
                missed : SUBSET Slots, crossed : BOOLEAN]

\* A handler in the middle of a save has a dictionary to save.
SaversHold ==
    \A h \in Savers :
        \/ saver[h] = Idle
        \/ saver[h].pc # "idle" /\ saver[h].slot \in Slots /\ savedata_obj # Nothing

SavesTyped == SavesType /\ SaversHold

LEMMA EmptyIsSaves == <<>> \in Saves
<1>1. <<>> \in [{} -> Stories]
  OBVIOUS
<1>2. {} \in SUBSET Slots
  OBVIOUS
<1> QED BY <1>1, <1>2 DEF Saves

LEMMA IdleIsSaver == Idle \in SaverRecord
BY EmptyIsSaves DEF Idle, SaverRecord

LEMMA IdleFields ==
    /\ Idle.pc = "idle" /\ Idle.slot = Nothing /\ Idle.crossed = FALSE
    /\ [Idle EXCEPT !.crossed = FALSE] = Idle
<1>1. Idle.pc = "idle" /\ Idle.slot = Nothing /\ Idle.crossed = FALSE
  BY DEF Idle
<1>2. ASSUME NEW r \in SaverRecord, r.crossed = FALSE
      PROVE  [r EXCEPT !.crossed = FALSE] = r
  BY <1>2 DEF SaverRecord
<1> QED BY <1>1, <1>2, IdleIsSaver

\* The special values are none of the dictionaries.
LEMMA SavesAreWhole ==
    ASSUME NEW saves \in Saves
    PROVE  saves # Nothing /\ saves # Torn /\ saves # Missing
BY SavesAssumption

\* The dictionary after a change is a dictionary, with the story where it was put.
LEMMA PutIsSaves ==
    ASSUME NEW saves \in Saves, NEW s \in Slots, NEW story \in Stories \cup {Nothing}
    PROVE  /\ Put(saves, s, story) \in Saves
           /\ Lookup(Put(saves, s, story), s) = story
           /\ \A t \in Slots \ {s} : Lookup(Put(saves, s, story), t) = Lookup(saves, t)
<1>1. PICK stored \in SUBSET Slots : saves \in [stored -> Stories]
  BY DEF Saves
<1> DEFINE D == IF story = Nothing THEN stored \ {s} ELSE stored \cup {s}
           new == [t \in D |-> IF t = s THEN story ELSE saves[t]]
<1>2. D \in SUBSET Slots
  BY <1>1
<1>3. new \in [D -> Stories]
  BY <1>1
<1>4. Put(saves, s, story) = new
  BY <1>1 DEF Put
<1>5. Lookup(new, s) = story
  BY DEF Lookup
<1>6. \A t \in Slots \ {s} : Lookup(new, t) = Lookup(saves, t)
  BY <1>1 DEF Lookup
<1> HIDE DEF D, new
<1>7. new \in Saves
  BY <1>2, <1>3 DEF Saves
<1> QED BY <1>4, <1>5, <1>6, <1>7

LEMMA SavesTypedInit == SavesInit => SavesTyped
<1> SUFFICES ASSUME SavesInit PROVE SavesTyped
  OBVIOUS
<1>1. <<>> \in Saves
  BY EmptyIsSaves
<1>2. saver \in [Savers -> SaverRecord]
  BY IdleIsSaver DEF SavesInit
<1>3. acked \in [Slots -> Stories \cup {Nothing, Unsure}]
  BY DEF SavesInit
<1>4. SaversHold
  BY DEF SavesInit, SaversHold
<1> QED BY <1>1, <1>2, <1>3, <1>4 DEF SavesInit, SavesType, SavesTyped, SaverRecord

LEMMA SavesTypedKept == SavesTyped /\ UNCHANGED savesVars => SavesTyped'
BY DEF SavesTyped, SavesType, SaversHold, savesVars

LEMMA SavesTypedLoad ==
    ASSUME SavesTyped, LoadSaves, \A h \in Savers : saver[h] = Idle
    PROVE  SavesTyped'
<1>1. savedata_obj' \in Saves \cup {Nothing} /\ file' \in Saves \cup {Torn, Missing}
  BY EmptyIsSaves DEF LoadSaves, SavesTyped, SavesType
<1>2. acked' \in [Slots -> Stories \cup {Nothing, Unsure}]
  BY DEF LoadSaves, SavesTyped, SavesType
<1> QED BY <1>1, <1>2 DEF SavesTyped, SavesType, LoadSaves, SaversHold

LEMMA SavesTypedLose == SavesTyped /\ LoseSaves => SavesTyped'
<1> SUFFICES ASSUME SavesTyped, LoseSaves PROVE SavesTyped'
  OBVIOUS
<1>1. saver' \in [Savers -> SaverRecord]
  BY IdleIsSaver DEF LoseSaves
<1>2. acked' \in [Slots -> Stories \cup {Nothing, Unsure}]
  BY DEF LoseSaves, SavesTyped, SavesType
<1>3. disturbed' \in BOOLEAN
  BY DEF LoseSaves, SavesTyped, SavesType
<1>4. SaversHold'
  BY DEF SaversHold, LoseSaves
<1> QED BY <1>1, <1>2, <1>3, <1>4 DEF LoseSaves, SavesTyped, SavesType, SaverRecord

LEMMA SavesTypedRemoved == SavesTyped /\ LoseFile => SavesTyped'
BY DEF SavesTyped, SavesType, SaversHold, LoseFile

\* What a new story does to the other handlers.
LEMMA PutFields ==
    ASSUME SavesTyped, NEW h \in Savers, NEW s \in Slots, NEW story \in Stories \cup {Nothing},
           PutStory(h, s, story)
    PROVE  /\ saver' = [w \in Savers |-> saver'[w]]
           /\ saver'[h] \in SaverRecord
           /\ saver'[h].pc = "open" /\ saver'[h].slot = s /\ saver'[h].story = story
           /\ \A w \in Savers \ {h} :
                 /\ saver'[w] \in SaverRecord
                 /\ saver[w] = Idle => saver'[w] = Idle
                 /\ saver'[w].pc = saver[w].pc /\ saver'[w].slot = saver[w].slot
                 /\ saver'[w].story = IF saver[w].slot = s THEN Unsure ELSE saver[w].story
                 /\ \/ saver'[w].missed = saver[w].missed \cup {s} /\ saver'[w].text = saver[w].text
                    \/ saver'[w].missed = saver[w].missed /\ saver[w].pc \notin {"dump", "close"}
                    \/ saver'[w].missed = saver[w].missed /\ saver'[w].text = Put(saver[w].text, s, story)
<1>1. PICK late \in SUBSET {w \in Savers : saver[w].pc = "dump"} :
        saver' = [w \in Savers |->
           IF w = h THEN [Idle EXCEPT !.pc = "open", !.slot = s, !.story = story]
           ELSE [saver[w] EXCEPT
                   !.story = IF saver[w].slot = s THEN Unsure ELSE @,
                   !.missed = IF Overtaken(w, s, late) THEN @ \cup {s} ELSE @,
                   !.text = IF saver[w].pc = "dump" /\ ~Overtaken(w, s, late)
                            THEN Put(@, s, story) ELSE @]]
  BY DEF PutStory
<1>2. saver'[h] = [pc |-> "open", slot |-> s, story |-> story, keys |-> {}, text |-> <<>>,
                   missed |-> {}, crossed |-> FALSE]
  BY <1>1 DEF Idle
<1>3. saver'[h] \in SaverRecord /\ saver'[h].pc = "open" /\ saver'[h].slot = s /\ saver'[h].story = story
  BY <1>2, EmptyIsSaves DEF SaverRecord
<1>4. ASSUME NEW w \in Savers, w # h
      PROVE  /\ saver'[w] \in SaverRecord
             /\ saver[w] = Idle => saver'[w] = Idle
             /\ saver'[w].pc = saver[w].pc /\ saver'[w].slot = saver[w].slot
             /\ saver'[w].story = IF saver[w].slot = s THEN Unsure ELSE saver[w].story
             /\ \/ saver'[w].missed = saver[w].missed \cup {s} /\ saver'[w].text = saver[w].text
                \/ saver'[w].missed = saver[w].missed /\ saver[w].pc \notin {"dump", "close"}
                \/ saver'[w].missed = saver[w].missed /\ saver'[w].text = Put(saver[w].text, s, story)
  <2>1. saver[w] \in SaverRecord
    BY DEF SavesTyped, SavesType, SaverRecord
  <2> DEFINE c1 == IF saver[w].slot = s THEN Unsure ELSE saver[w].story
             c2 == IF Overtaken(w, s, late) THEN saver[w].missed \cup {s} ELSE saver[w].missed
             c3 == IF saver[w].pc = "dump" /\ ~Overtaken(w, s, late)
                   THEN Put(saver[w].text, s, story) ELSE saver[w].text
  <2>2. saver'[w] = [[[saver[w] EXCEPT !.story = c1] EXCEPT !.missed = c2] EXCEPT !.text = c3]
    <3>1. w # h
      BY <1>4
    <3> QED BY <1>1, <3>1
  <2>3. c1 \in Stories \cup {Nothing, Unsure} /\ c2 \in SUBSET Slots
    BY <2>1 DEF SaverRecord
  <2>4. c3 \in Saves
    <3>1. saver[w].text \in Saves
      BY <2>1 DEF SaverRecord
    <3> QED BY <3>1, PutIsSaves
  <2>5. \/ c2 = saver[w].missed \cup {s} /\ c3 = saver[w].text
        \/ c2 = saver[w].missed /\ saver[w].pc \notin {"dump", "close"}
        \/ c2 = saver[w].missed /\ c3 = Put(saver[w].text, s, story)
    BY DEF Overtaken
  <2>6. c1 = IF saver[w].slot = s THEN Unsure ELSE saver[w].story
    OBVIOUS
  <2>7. ASSUME saver[w] = Idle
        PROVE  c1 = saver[w].story /\ c2 = saver[w].missed /\ c3 = saver[w].text
    <3>1. saver[w].pc = "idle" /\ saver[w].slot # s
      BY <2>7, IdleFields, SavesAssumption
    <3> QED BY <3>1 DEF Overtaken
  <2> HIDE DEF c1, c2, c3
  <2>8. ASSUME saver[w] = Idle PROVE saver'[w] = Idle
    <3>1. c1 = saver[w].story /\ c2 = saver[w].missed /\ c3 = saver[w].text
      BY <2>7, <2>8
    <3>2. saver'[w] = [[[saver[w] EXCEPT !.story = saver[w].story] EXCEPT !.missed = saver[w].missed]
                          EXCEPT !.text = saver[w].text]
      BY <2>2, <3>1
    <3>3. ASSUME NEW r \in SaverRecord
          PROVE  [[[r EXCEPT !.story = r.story] EXCEPT !.missed = r.missed] EXCEPT !.text = r.text] = r
      BY DEF SaverRecord
    <3>4. saver'[w] = saver[w]
      BY <2>1, <3>2, <3>3
    <3> QED BY <2>8, <3>4
  <2>9. /\ saver'[w] \in SaverRecord
        /\ saver'[w].pc = saver[w].pc /\ saver'[w].slot = saver[w].slot
        /\ saver'[w].story = c1 /\ saver'[w].missed = c2 /\ saver'[w].text = c3
    BY <2>1, <2>2, <2>3, <2>4 DEF SaverRecord
  <2> QED BY <2>5, <2>6, <2>8, <2>9
<1>5. saver' = [w \in Savers |-> saver'[w]]
  BY <1>1
<1> QED BY <1>3, <1>4, <1>5

LEMMA SavesTypedPut ==
    ASSUME SavesTyped, NEW h \in Savers, NEW s \in Slots, NEW story \in Stories \cup {Nothing},
           PutStory(h, s, story)
    PROVE  SavesTyped'
<1>1. savedata_obj \in Saves
  BY DEF SavesTyped, SavesType, PutStory
<1>2. savedata_obj' \in Saves /\ savedata_obj' # Nothing
  BY <1>1, PutIsSaves, SavesAreWhole DEF PutStory
<1>3. ASSUME NEW w \in Savers
      PROVE  /\ saver'[w] \in SaverRecord
             /\ saver'[w] = Idle \/ (saver'[w].pc # "idle" /\ saver'[w].slot \in Slots)
  <2>1. saver[w] = Idle \/ (saver[w].pc # "idle" /\ saver[w].slot \in Slots)
    BY DEF SavesTyped, SaversHold
  <2>2. CASE w = h
    BY <2>2, PutFields
  <2>3. CASE w # h /\ saver[w] # Idle
    BY <2>1, <2>3, PutFields
  <2>4. CASE w # h /\ saver[w] = Idle
    BY <2>4, PutFields
  <2> QED BY <2>2, <2>3, <2>4
<1>4. saver' \in [Savers -> SaverRecord]
  BY <1>3, PutFields
<1>5. SaversHold'
  BY <1>2, <1>3 DEF SaversHold
<1> QED BY <1>2, <1>4, <1>5 DEF SavesTyped, SavesType, SaverRecord, PutStory

\* What opening the file does to the handlers.
LEMMA OpenFields ==
    ASSUME SavesTyped, NEW h \in Savers, OpenFile(h)
    PROVE  /\ saver[h] # Idle /\ savedata_obj \in Saves
           /\ saver'[h] \in SaverRecord
           /\ saver'[h].pc = "dump" /\ saver'[h].slot = saver[h].slot /\ saver'[h].story = saver[h].story
           /\ saver'[h].text = savedata_obj
           /\ \A w \in Savers \ {h} :
                 /\ saver'[w] \in SaverRecord
                 /\ saver[w] = Idle => saver'[w] = Idle
                 /\ saver'[w].pc = saver[w].pc /\ saver'[w].slot = saver[w].slot
                 /\ saver'[w].story = saver[w].story
                 /\ saver'[w].missed = saver[w].missed /\ saver'[w].text = saver[w].text
<1>0. saver[h] # Idle
  <2>1. saver[h].pc = "open"
    BY DEF OpenFile
  <2> QED BY <2>1, IdleFields
<1>1. savedata_obj \in Saves /\ savedata_obj # Nothing
  BY <1>0 DEF SavesTyped, SavesType, SaversHold
<1>2. DOMAIN savedata_obj \in SUBSET Slots
  BY <1>1 DEF Saves
<1>3. /\ saver'[h] \in SaverRecord
      /\ saver'[h].pc = "dump" /\ saver'[h].slot = saver[h].slot /\ saver'[h].story = saver[h].story
      /\ saver'[h].text = savedata_obj
  <2> DEFINE c == Writers # {}
  <2>1. c \in BOOLEAN
    OBVIOUS
  <2>2. saver[h] \in SaverRecord
    BY DEF SavesTyped, SavesType, SaverRecord
  <2>3. saver'[h] = [[[[saver[h] EXCEPT !.pc = "dump"] EXCEPT !.keys = DOMAIN savedata_obj]
                         EXCEPT !.text = savedata_obj] EXCEPT !.crossed = c]
    BY DEF OpenFile
  <2> HIDE DEF c
  <2> QED BY <1>1, <1>2, <2>1, <2>2, <2>3 DEF SaverRecord
<1>4. ASSUME NEW w \in Savers, w # h
      PROVE  /\ saver'[w] \in SaverRecord
             /\ saver[w] = Idle => saver'[w] = Idle
             /\ saver'[w].pc = saver[w].pc /\ saver'[w].slot = saver[w].slot
             /\ saver'[w].story = saver[w].story
             /\ saver'[w].missed = saver[w].missed /\ saver'[w].text = saver[w].text
  <2> DEFINE c == saver[w].crossed \/ w \in Writers
  <2>1. c \in BOOLEAN
    OBVIOUS
  <2>2. saver[w] \in SaverRecord
    BY DEF SavesTyped, SavesType, SaverRecord
  <2>3. saver'[w] = [saver[w] EXCEPT !.crossed = c]
    BY <1>4 DEF OpenFile
  <2>4. saver[w] = Idle => c = FALSE
    BY IdleFields DEF Writers
  <2> HIDE DEF c
  <2>5. saver[w] = Idle => saver'[w] = Idle
    BY <2>3, <2>4, IdleFields
  <2> QED BY <2>1, <2>2, <2>3, <2>5 DEF SaverRecord
<1> QED BY <1>0, <1>1, <1>3, <1>4

LEMMA SavesTypedOpen ==
    ASSUME SavesTyped, NEW h \in Savers, OpenFile(h)
    PROVE  SavesTyped'
<1>1. savedata_obj \in Saves /\ savedata_obj # Nothing
  BY OpenFields, SavesAreWhole
<1>2. ASSUME NEW w \in Savers
      PROVE  /\ saver'[w] \in SaverRecord
             /\ saver'[w] = Idle \/ (saver'[w].pc # "idle" /\ saver'[w].slot \in Slots)
  <2>1. saver[w] = Idle \/ (saver[w].pc # "idle" /\ saver[w].slot \in Slots)
    BY DEF SavesTyped, SaversHold
  <2>2. CASE w = h
    BY <2>1, <2>2, OpenFields
  <2>3. CASE w # h
    BY <2>1, <2>3, OpenFields
  <2> QED BY <2>2, <2>3
<1>3. saver' \in [Savers -> SaverRecord]
  <2>1. saver' = [w \in Savers |-> saver'[w]]
    BY DEF OpenFile
  <2> QED BY <1>2, <2>1
<1>4. SaversHold'
  BY <1>1, <1>2 DEF SaversHold, OpenFile
<1> QED BY <1>3, <1>4 DEF SavesTyped, SavesType, SaverRecord, OpenFile

\* The handler has done with its save, whatever it answers.
LEMMA EndFields ==
    ASSUME SavesTyped, NEW h \in Savers, FileMissing(h) \/ DumpRaises(h) \/ CloseFile(h)
    PROVE  /\ savedata_obj \in Saves /\ savedata_obj' = savedata_obj
           /\ saver[h].pc # "idle" /\ saver[h].slot \in Slots
           /\ saver' = [saver EXCEPT ![h] = Idle]
           /\ saver'[h] = Idle /\ \A w \in Savers \ {h} : saver'[w] = saver[w]
           /\ acked' \in [Slots -> Stories \cup {Nothing, Unsure}]
           /\ \A t \in Slots \ {saver[h].slot} : acked'[t] = acked[t]
           /\ saver[h].story = Unsure => acked' = acked
           /\ saver[h].story # Unsure => acked'[saver[h].slot] \in {Unsure, saver[h].story}
<1>1. saver[h].pc # "idle" /\ savedata_obj' = savedata_obj
  BY DEF FileMissing, DumpRaises, CloseFile
<1>2. saver[h].slot \in Slots /\ savedata_obj \in Saves
  BY <1>1, IdleFields DEF SavesTyped, SavesType, SaversHold
<1>3. saver' = [saver EXCEPT ![h] = Idle]
  BY DEF FileMissing, DumpRaises, CloseFile, Refuse
<1>4. saver'[h] = Idle /\ \A w \in Savers \ {h} : saver'[w] = saver[w]
  BY <1>3 DEF SavesTyped, SavesType
<1>5. saver[h].story \in Stories \cup {Nothing, Unsure} /\ acked \in [Slots -> Stories \cup {Nothing, Unsure}]
  BY DEF SavesTyped, SavesType
<1>6. PICK answer \in {Unsure, saver[h].story} :
        acked' = [acked EXCEPT ![saver[h].slot] = IF saver[h].story = Unsure THEN acked[saver[h].slot] ELSE answer]
  BY <1>5, <1>2 DEF FileMissing, DumpRaises, CloseFile, Refuse
<1> QED BY <1>1, <1>2, <1>3, <1>4, <1>5, <1>6

LEMMA SavesTypedEnd ==
    ASSUME SavesTyped, NEW h \in Savers, FileMissing(h) \/ DumpRaises(h) \/ CloseFile(h)
    PROVE  SavesTyped'
<1>1. saver' \in [Savers -> SaverRecord]
  BY EndFields, IdleIsSaver DEF SavesTyped, SavesType, SaverRecord
<1>2. saver[h].text \in Saves /\ saver[h].missed \subseteq Slots
  BY DEF SavesTyped, SavesType
<1>3. /\ file' \in Saves \cup {Torn, Missing} /\ disturbed' \in BOOLEAN /\ stale' \subseteq Slots
  BY <1>2 DEF FileMissing, DumpRaises, CloseFile, SavesTyped, SavesType
<1>4. SaversHold'
  BY EndFields DEF SavesTyped, SavesType, SaversHold
<1> QED BY <1>1, <1>3, <1>4, EndFields DEF SavesTyped, SavesType, SaverRecord

\* The walk ends: only the stage of the handler changes.
LEMMA WalkFields ==
    ASSUME SavesTyped, NEW h \in Savers, EndWalk(h)
    PROVE  /\ saver[h].pc = "dump"
           /\ saver' \in [Savers -> SaverRecord]
           /\ saver'[h].pc = "close"
           /\ \A w \in Savers :
                 /\ w # h => saver'[w] = saver[w]
                 /\ saver'[w].slot = saver[w].slot /\ saver'[w].story = saver[w].story
                 /\ saver'[w].missed = saver[w].missed /\ saver'[w].text = saver[w].text
<1>1. saver \in [Savers -> SaverRecord]
  BY DEF SavesTyped, SavesType, SaverRecord
<1>2. saver' = [saver EXCEPT ![h] = [saver[h] EXCEPT !.pc = "close"]] /\ saver[h].pc = "dump"
  BY DEF EndWalk
<1>3. /\ [saver[h] EXCEPT !.pc = "close"] \in SaverRecord
      /\ [saver[h] EXCEPT !.pc = "close"].pc = "close"
      /\ [saver[h] EXCEPT !.pc = "close"].slot = saver[h].slot
      /\ [saver[h] EXCEPT !.pc = "close"].story = saver[h].story
      /\ [saver[h] EXCEPT !.pc = "close"].missed = saver[h].missed
      /\ [saver[h] EXCEPT !.pc = "close"].text = saver[h].text
  BY <1>1 DEF SaverRecord
<1>4. /\ saver'[h] = [saver[h] EXCEPT !.pc = "close"]
      /\ \A w \in Savers : w # h => saver'[w] = saver[w]
  BY <1>1, <1>2
<1>5. saver' \in [Savers -> SaverRecord]
  BY <1>1, <1>2, <1>3
<1> QED BY <1>2, <1>3, <1>4, <1>5

LEMMA SavesTypedWalk ==
    ASSUME SavesTyped, NEW h \in Savers, EndWalk(h) \/ FlushSome(h)
    PROVE  SavesTyped'
<1>1. CASE FlushSome(h)
  BY <1>1 DEF FlushSome, SavesTyped, SavesType, SaversHold
<1>2. CASE EndWalk(h)
  <2>1. savedata_obj' = savedata_obj /\ UNCHANGED <<file, acked, disturbed, stale>>
    BY <1>2 DEF EndWalk
  <2>2. SaversHold'
    <3>1. saver[h] # Idle
      BY <1>2, WalkFields, IdleFields
    <3>2. saver'[h].pc # "idle" /\ saver'[h].slot \in Slots /\ savedata_obj' # Nothing
      BY <1>2, <2>1, <3>1, WalkFields DEF SavesTyped, SaversHold
    <3>3. \A w \in Savers : w # h => saver'[w] = saver[w]
      BY <1>2, WalkFields
    <3> QED BY <2>1, <3>2, <3>3 DEF SavesTyped, SaversHold
  <2>3. saver' \in [Savers -> SaverRecord]
    BY <1>2, WalkFields
  <2> QED BY <2>1, <2>2, <2>3 DEF SavesTyped, SavesType, SaverRecord
<1> QED BY <1>1, <1>2

LEMMA SavesTypedStep ==
    ASSUME SavesTyped, NEW h \in Savers, SaveStep(h)
    PROVE  SavesTyped'
BY SavesTypedOpen, SavesTypedEnd, SavesTypedWalk DEF SaveStep

-----------------------------------------------------------------------------
(* Type correctness *)

\* Handlers run in a server that serves.
ServedOnly ==
    kcpp_instance.state # "serving" => \A h \in Savers : admin[h] = NoRequest /\ saver[h] = Idle

\* A reload that the manager carries out has a target.
Restarting == {"clear target", "clear override", "restart", "kill", "launch"}

Chosen == manager.pc \in Restarting => manager.target # None

\* The manager launches a server only when it has killed the last one.
Gone == manager.pc = "launch" => kcpp_instance.state = "dead"

Typed == TypeOK /\ SaversHold /\ ServedOnly /\ Chosen /\ Gone

AdminRecord == [pc : {"idle", "reset", "override", "target", "forget"}, target : Targets, override : Overrides]

LEMMA NoRequestIsAdmin == NoRequest \in AdminRecord
BY DEF NoRequest, AdminRecord, Targets, Overrides

LEMMA RequestFields ==
    ASSUME NEW r \in Requests
    PROVE  /\ r.target \in Targets \ {None} /\ r.override \in Overrides
           /\ Taken(r) \in Requests /\ Taken(r).target = r.target
           /\ Taken(r).target = Unload => Taken(r).override = None
<1>1. r.target \in Models \cup Configs \cup {Unload} /\ r.override \in Configs \cup {None}
  BY DEF Requests
<1>2. r.target \in Targets \ {None} /\ r.override \in Overrides
  BY <1>1, AdminAssumption DEF Targets, Overrides
<1> DEFINE o == IF r.target \in Models /\ r.override \in files THEN r.override ELSE None
<1>3. o \in Configs \cup {None}
  BY <1>1
<1>4. Taken(r) = [r EXCEPT !.override = o]
  BY DEF Taken
<1>5. r.target = Unload => o = None
  BY AdminAssumption
<1> HIDE DEF o
<1>6. Taken(r) \in Requests /\ Taken(r).target = r.target /\ Taken(r).override = o
  BY <1>3, <1>4 DEF Requests
<1> QED BY <1>2, <1>5, <1>6

LEMMA NewArgsIsArgs ==
    ASSUME NEW old \in Args, NEW t \in Targets \ {None}, NEW o \in Overrides
    PROVE  NewArgs(old, [target |-> t, override |-> o]) \in Args
<1> DEFINE r == [target |-> t, override |-> o]
<1>1. CASE t = Unload
  BY <1>1, AdminAssumption DEF NewArgs, Args
<1>2. CASE t \in Models
  <2>1. t # Unload /\ t \notin Configs
    BY <1>2, AdminAssumption
  <2>2. CASE o = None
    BY <1>2, <2>1, <2>2 DEF NewArgs, Args
  <2>3. CASE o # None
    <3>1. NewArgs(old, r) = [model |-> t, settings |-> IF o \in Broken THEN old.settings ELSE o]
      BY <1>2, <2>1, <2>3 DEF NewArgs
    <3> QED BY <1>2, <2>3, <3>1 DEF Args, Overrides
  <2> QED BY <2>2, <2>3
<1>3. CASE t \in Configs
  <2>1. t # Unload /\ t \notin Models
    BY <1>3, AdminAssumption
  <2>2. NewArgs(old, r) = IF t \in Broken THEN old ELSE [model |-> t, settings |-> t]
    BY <1>3, <2>1 DEF NewArgs
  <2> QED BY <1>3, <2>2 DEF Args
<1> QED BY <1>1, <1>2, <1>3 DEF Targets

LEMMA TypedInit == Init => Typed
<1> SUFFICES ASSUME Init PROVE Typed
  OBVIOUS
<1>1. SavesTyped
  BY SavesTypedInit DEF Init
<1>2. admin \in [Savers -> AdminRecord]
  BY NoRequestIsAdmin DEF Init
<1>3. kcpp_instance \in [state : {"loading", "serving", "dead"}, args : Args, loaded : BOOLEAN]
  BY DEF Init, OriginalArgs, Args
<1>4. manager.pc = "check" /\ manager.target = None /\ manager.override = None /\ manager.recovery = FALSE
  BY DEF Init
<1>5. ServedOnly
  BY DEF Init, ServedOnly, SavesInit
<1>6. remotetunnel \in BOOLEAN
  <2>1. clients.tunnels \subseteq BOOLEAN
    BY AdminAssumption DEF Init
  <2> QED BY <2>1 DEF Init
<1>7. restart_target \in Targets /\ restart_override_config_target \in Overrides
  BY DEF Init, Targets, Overrides
<1>8. manager \in [pc : {"check"}, target : {None}, override : {None}, recovery : {FALSE}]
  BY DEF Init
<1> QED BY <1>1, <1>2, <1>3, <1>4, <1>5, <1>6, <1>7, <1>8
        DEF Init, Typed, TypeOK, SavesTyped, AdminRecord, Chosen, Gone, Restarting, Targets, Overrides

\* The steps of the server process and of its files.
LEMMA TypedServer ==
    ASSUME Typed, ServerLoads \/ LoadFails \/ ServerDies \/ RemoveSaveFile \/ \E f \in files : RemoveFile(f)
    PROVE  Typed'
<1> USE DEF AdminRecord
<1>1. SavesTyped
  BY DEF Typed, TypeOK, SavesTyped
<1>2. CASE ServerLoads
  <2>1. \A h \in Savers : saver[h] = Idle
    BY <1>2 DEF ServerLoads, Typed, ServedOnly
  <2>2. SavesTyped'
    BY <1>1, <1>2, <2>1, SavesTypedLoad DEF ServerLoads
  <2>3. load_complete' \in BOOLEAN
    BY <1>2 DEF ServerLoads
  <2>4. kcpp_instance' \in [state : {"loading", "serving", "dead"}, args : Args, loaded : BOOLEAN]
    BY <1>2 DEF ServerLoads, Typed, TypeOK
  <2>5. ServedOnly'
    BY <1>2 DEF ServerLoads, ServedOnly, Typed, TypeOK
  <2> QED BY <1>2, <2>2, <2>3, <2>4, <2>5 DEF ServerLoads, Typed, TypeOK, SavesTyped, Chosen, Gone, setting
<1>3. CASE LoadFails
  <2>1. kcpp_instance' \in [state : {"loading", "serving", "dead"}, args : Args, loaded : BOOLEAN]
    BY <1>3 DEF LoadFails, Typed, TypeOK
  <2>2. ServedOnly'
    BY <1>3 DEF LoadFails, ServedOnly, Typed, TypeOK, savesVars
  <2>3. SavesTyped'
    BY <1>1, <1>3, SavesTypedKept DEF LoadFails
  <2> QED BY <1>3, <2>1, <2>2, <2>3
          DEF LoadFails, Typed, TypeOK, SavesTyped, Chosen, Gone, setting, sharedVars
<1>4. CASE ServerDies
  <2>1. SavesTyped'
    BY <1>1, <1>4, SavesTypedLose DEF ServerDies
  <2>2. kcpp_instance' \in [state : {"loading", "serving", "dead"}, args : Args, loaded : BOOLEAN]
    BY <1>4 DEF ServerDies, Typed, TypeOK
  <2>3. ServedOnly'
    BY <1>4 DEF ServerDies, ServedOnly, LoseSaves
  <2>4. admin' \in [Savers -> AdminRecord]
    BY <1>4, NoRequestIsAdmin DEF ServerDies
  <2> QED BY <1>4, <2>1, <2>2, <2>3, <2>4 DEF ServerDies, Typed, TypeOK, SavesTyped, Chosen, Gone, setting, sharedVars
<1>5. CASE \E f \in files : RemoveFile(f)
  <2>1. PICK f \in files : RemoveFile(f)
    BY <1>5
  <2>2. saver' = saver /\ SavesTyped'
    BY <1>1, <2>1, SavesTypedKept DEF RemoveFile, savesVars
  <2>3. files' \subseteq files
    BY <2>1 DEF RemoveFile
  <2>4. UNCHANGED <<restart_target, restart_override_config_target, load_complete, remotetunnel, clients,
                    kcpp_instance, manager, admin, accepted>>
    BY <2>1 DEF RemoveFile, sharedVars, setting
  <2>5. ServedOnly' /\ Chosen' /\ Gone'
    BY <2>2, <2>4 DEF Typed, ServedOnly, Chosen, Gone
  <2>6. files' \subseteq Models \cup Configs
    BY <2>3 DEF Typed, TypeOK
  <2>7. SavesType' /\ SaversHold'
    BY <2>2 DEF SavesTyped
  <2> HIDE DEF AdminRecord
  <2>8. TypeOK'
    BY <2>4, <2>6, <2>7 DEF Typed, TypeOK
  <2> QED BY <2>5, <2>7, <2>8 DEF Typed
<1>6. CASE RemoveSaveFile
  <2>1. saver' = saver /\ SavesTyped'
    BY <1>1, <1>6, SavesTypedRemoved DEF RemoveSaveFile, LoseFile
  <2>2. UNCHANGED <<restart_target, restart_override_config_target, load_complete, remotetunnel, clients,
                    files, kcpp_instance, manager, admin, accepted>>
    BY <1>6 DEF RemoveSaveFile, sharedVars, setting
  <2>3. ServedOnly' /\ Chosen' /\ Gone'
    BY <2>1, <2>2 DEF Typed, ServedOnly, Chosen, Gone
  <2>4. SavesType' /\ SaversHold'
    BY <2>1 DEF SavesTyped
  <2> HIDE DEF AdminRecord
  <2>5. TypeOK'
    BY <2>2, <2>4 DEF Typed, TypeOK
  <2> QED BY <2>3, <2>4, <2>5 DEF Typed
<1> QED BY <1>2, <1>3, <1>4, <1>5, <1>6

\* The steps of the handlers.
LEMMA TypedHandlers ==
    ASSUME Typed, NEW h \in Savers,
           AdminStep(h) \/ SaveStory(h) \/ \E r \in Requests : AcceptReload(h, r)
    PROVE  Typed'
<1> USE DEF AdminRecord
<1>0. admin \in [Savers -> AdminRecord] /\ NoRequest \in AdminRecord
  BY NoRequestIsAdmin DEF Typed, TypeOK
<1>1. CASE SaveStory(h)
  <2>1. SavesTyped'
    <3>1. SavesTyped /\ clients.slots \subseteq Slots
      BY AdminAssumption DEF Typed, TypeOK, SavesTyped
    <3>2. ASSUME NEW s \in clients.slots, NEW story \in Stories \cup {Nothing}, PutStory(h, s, story)
          PROVE  SavesTyped'
      BY <3>1, <3>2, SavesTypedPut
    <3> QED BY <1>1, <3>1, <3>2, SavesTypedStep DEF SaveStory
  <2> QED BY <1>1, <2>1
          DEF SaveStory, Typed, TypeOK, SavesTyped, ServedOnly, Chosen, Gone, setting, sharedVars
<1>2. ASSUME NEW r \in Requests, AcceptReload(h, r) PROVE Typed'
  <2>1. r.target \in Targets /\ Taken(r).override \in Overrides /\ Taken(r) \in Requests
    BY RequestFields DEF Requests, Overrides
  <2> DEFINE new == [pc |-> IF r.target = Unload THEN "target" ELSE "reset",
                     target |-> r.target, override |-> Taken(r).override]
  <2>2. new \in AdminRecord
    BY <2>1
  <2>3. admin' = [admin EXCEPT ![h] = new]
    BY <1>2 DEF AcceptReload
  <2> HIDE DEF new
  <2>4. admin' \in [Savers -> AdminRecord]
    BY <1>0, <2>2, <2>3
  <2>5. accepted' \in Requests \cup {NoReload, Mixed}
    BY <1>2, <2>1 DEF AcceptReload
  <2>6. ServedOnly'
    BY <1>2 DEF AcceptReload, ServedOnly
  <2>7. SavesTyped'
    BY <1>2, SavesTypedKept DEF AcceptReload, Typed, TypeOK, SavesTyped
  <2> QED BY <1>2, <2>4, <2>5, <2>6, <2>7
          DEF AcceptReload, Typed, TypeOK, SavesTyped, Chosen, Gone, setting, sharedVars
<1>3. CASE AdminStep(h)
  <2>0. admin[h] \in AdminRecord /\ admin[h].pc # "idle"
    BY <1>0, <1>3 DEF AdminStep, ResetOverride, SetOverride, SetTarget, ForgetOverride
  <2>1. admin' \in [Savers -> AdminRecord]
    BY <1>0, <1>3, <2>0 DEF AdminStep, ResetOverride, SetOverride, SetTarget, ForgetOverride
  <2>2. restart_target' \in Targets
    BY <1>3, <2>0 DEF AdminStep, ResetOverride, SetOverride, SetTarget, ForgetOverride, Typed, TypeOK
  <2>3. restart_override_config_target' \in Overrides
    BY <1>3, <2>0
       DEF AdminStep, ResetOverride, SetOverride, SetTarget, ForgetOverride, Typed, TypeOK, Overrides
  <2>4. kcpp_instance.state = "serving"
    BY <2>0 DEF Typed, ServedOnly, NoRequest
  <2>5. UNCHANGED <<load_complete, savesVars, setting, files, kcpp_instance, manager, accepted>>
    BY <1>3 DEF AdminStep, ResetOverride, SetOverride, SetTarget, ForgetOverride
  <2>6. SavesTyped'
    BY <2>5, SavesTypedKept DEF Typed, TypeOK, SavesTyped
  <2> QED BY <2>1, <2>2, <2>3, <2>4, <2>5, <2>6
          DEF Typed, TypeOK, SavesTyped, ServedOnly, Chosen, Gone, setting
<1> QED BY <1>1, <1>2, <1>3

Pcs == {"check", "flag", "target", "override", "clear target", "clear override", "restart",
        "kill", "launch", "drop target again", "drop override again",
        "drop target", "drop override", "exited", "raised"}

ManagerRecord == [pc : Pcs, target : Targets, override : Overrides, recovery : BOOLEAN]

\* The steps of the manager.
LEMMA TypedManager ==
    ASSUME Typed, ManagerStep
    PROVE  Typed'
<1> USE DEF ManagerRecord, Pcs
<1>0. manager \in ManagerRecord /\ manager.target \in Targets /\ manager.override \in Overrides
  BY DEF Typed, TypeOK
<1>s. UNCHANGED savesVars => SavesTyped' /\ saver' = saver
  <2>1. UNCHANGED savesVars => saver' = saver
    BY DEF savesVars
  <2> QED BY <2>1, SavesTypedKept DEF Typed, TypeOK, SavesTyped
<1>1. None \in Targets /\ None \in Overrides
  BY DEF Targets, Overrides
<1>2. CASE CheckAlive
  <2>1. manager' \in ManagerRecord /\ manager'.pc = "flag"
    BY <1>0, <1>1, <1>2 DEF CheckAlive
  <2> QED BY <1>s, <1>2, <2>1
          DEF CheckAlive, Typed, TypeOK, SavesTyped, Gone, ServedOnly, Chosen, Restarting,
              setting, sharedVars
<1>3. CASE Recover
  <2>1. manager' \in ManagerRecord /\ manager'.pc = "drop target"
    BY <1>0, <1>1, <1>3 DEF Recover
  <2>2. kcpp_instance' \in [state : {"loading", "serving", "dead"}, args : Args, loaded : BOOLEAN]
    BY <1>3 DEF Recover, OriginalArgs, Args
  <2>3. ServedOnly'
    BY <1>3 DEF Recover, ServedOnly, Typed, savesVars
  <2> QED BY <1>s, <1>3, <2>1, <2>2, <2>3
          DEF Recover, Typed, TypeOK, SavesTyped, Gone, Chosen, Restarting, setting, sharedVars
<1>4. CASE Exit
  <2>1. manager' \in ManagerRecord /\ manager'.pc = "exited"
    BY <1>0, <1>4 DEF Exit
  <2> QED BY <1>s, <1>4, <2>1
          DEF Exit, Typed, TypeOK, SavesTyped, Gone, ServedOnly, Chosen, Restarting,
              setting, sharedVars
<1>5. ASSUME manager' \in ManagerRecord, manager'.target = manager.target,
             manager'.pc \in Restarting => manager.pc \in Restarting, manager'.pc # "launch",
             restart_target' \in Targets, restart_override_config_target' \in Overrides,
             accepted' \in Requests \cup {NoReload, Mixed},
             UNCHANGED <<load_complete, savesVars, setting, files, kcpp_instance, admin>>
      PROVE  Typed'
  <2>1. Chosen' /\ Gone'
    BY <1>5 DEF Typed, Chosen, Gone
  <2> QED BY <1>s, <1>5, <2>1 DEF Typed, TypeOK, SavesTyped, ServedOnly, setting
<1>7. CASE CheckFlag
  <2>1. manager' \in ManagerRecord /\ manager'.pc = "target"
    BY <1>0, <1>7 DEF CheckFlag, Typed, TypeOK
  <2> QED BY <1>s, <1>7, <2>1
          DEF CheckFlag, Typed, TypeOK, SavesTyped, Gone, ServedOnly, Chosen, Restarting,
              setting, sharedVars
<1>8. CASE ReadTarget
  <2>1. manager' \in ManagerRecord /\ manager'.pc = "override"
    BY <1>0, <1>8 DEF ReadTarget, Typed, TypeOK
  <2> QED BY <1>s, <1>8, <2>1
          DEF ReadTarget, Typed, TypeOK, SavesTyped, Gone, ServedOnly, Chosen, Restarting,
              setting, sharedVars
<1>9. CASE ReadOverride
  <2>1. manager' \in ManagerRecord /\ manager'.target = manager.target
    BY <1>0, <1>9 DEF ReadOverride, Typed, TypeOK
  <2>2. Chosen'
    BY <1>0, <1>9, <2>1 DEF ReadOverride, Chosen, Restarting
  <2> QED BY <1>s, <1>9, <2>1, <2>2
          DEF ReadOverride, Typed, TypeOK, SavesTyped, Gone, ServedOnly, setting, sharedVars
<1>10. CASE FindFiles
  <2>1. manager' \in ManagerRecord /\ manager'.target = manager.target
    BY <1>0, <1>10 DEF FindFiles
  <2>2. Chosen'
    BY <1>10, <2>1 DEF FindFiles, Typed, Chosen, Restarting
  <2>3. accepted' \in Requests \cup {NoReload, Mixed}
    BY <1>10 DEF FindFiles, Settle, Typed, TypeOK
  <2>4. load_complete' \in BOOLEAN /\ UNCHANGED <<restart_target, restart_override_config_target>>
    BY <1>10 DEF FindFiles, sharedVars, Typed, TypeOK
  <2> QED BY <1>s, <1>10, <2>1, <2>2, <2>3, <2>4
          DEF FindFiles, Typed, TypeOK, SavesTyped, Gone, ServedOnly, setting
<1>11. CASE Terminate
  <2>1. manager' \in ManagerRecord /\ manager'.target = manager.target
    BY <1>0, <1>11 DEF Terminate
  <2>2. Chosen'
    BY <1>11, <2>1 DEF Terminate, Typed, Chosen, Restarting
  <2>3. SavesTyped'
    BY <1>11, SavesTypedLose DEF Terminate, Typed, TypeOK, SavesTyped
  <2>4. kcpp_instance' \in [state : {"loading", "serving", "dead"}, args : Args, loaded : BOOLEAN]
    BY <1>11 DEF Terminate, Typed, TypeOK
  <2>5. ServedOnly'
    BY <1>11 DEF Terminate, ServedOnly, LoseSaves
  <2>6. admin' \in [Savers -> AdminRecord]
    BY <1>11, NoRequestIsAdmin DEF Terminate
  <2> QED BY <1>11, <2>1, <2>2, <2>3, <2>4, <2>5, <2>6
          DEF Terminate, Typed, TypeOK, SavesTyped, Gone, AdminRecord, setting, sharedVars
<1>12. CASE Launch
  <2>1. manager' \in ManagerRecord /\ manager'.pc = "drop target again"
    BY <1>0, <1>12 DEF Launch
  <2>2. kcpp_instance' \in [state : {"loading", "serving", "dead"}, args : Args, loaded : BOOLEAN]
    <3>1. manager.target \in Targets \ {None}
      BY <1>0, <1>12 DEF Launch, Typed, Chosen, Restarting
    <3>2. kcpp_instance.args \in Args
      BY DEF Typed, TypeOK
    <3>3. NewArgs(kcpp_instance.args, [target |-> manager.target, override |-> manager.override]) \in Args
      BY <1>0, <3>1, <3>2, NewArgsIsArgs
    <3> QED BY <1>12, <3>3 DEF Launch
  <2>3. ServedOnly'
    <3>1. kcpp_instance.state = "dead" /\ admin' = admin /\ saver' = saver
      BY <1>s, <1>12 DEF Launch, Typed, Gone
    <3> QED BY <3>1 DEF ServedOnly, Typed
  <2> QED BY <1>s, <1>12, <2>1, <2>2, <2>3
          DEF Launch, Typed, TypeOK, SavesTyped, Gone, Chosen, Restarting, setting, sharedVars
<1>13. CASE LaunchRaises
  <2>1. manager' \in ManagerRecord /\ manager'.pc = "raised"
    <3>1. manager' = [manager EXCEPT !.pc = "raised"]
      BY <1>13 DEF LaunchRaises
    <3> QED BY <1>0, <3>1
  <2> QED BY <1>s, <1>13, <2>1
          DEF LaunchRaises, Typed, TypeOK, SavesTyped, Gone, ServedOnly, Chosen, Restarting,
              setting, sharedVars
<1>14. ASSUME \/ DropTarget("drop target", "drop override")
              \/ DropTarget("clear target", "clear override")
              \/ DropTarget("drop target again", "drop override again")
       PROVE  Typed'
  <2>1. manager' = [manager EXCEPT !.pc = manager'.pc] /\ manager'.pc \in Pcs
    BY <1>0, <1>14 DEF DropTarget
  <2>2. manager' \in ManagerRecord /\ manager'.target = manager.target
    BY <1>0, <2>1
  <2>3. manager'.pc \in Restarting => manager.pc \in Restarting
    BY <1>0, <1>14 DEF DropTarget, Restarting
  <2>4. manager'.pc # "launch" /\ restart_target' = None
    BY <1>0, <1>14 DEF DropTarget
  <2>5. UNCHANGED <<restart_override_config_target, load_complete, savesVars, setting, files,
                    kcpp_instance, admin, accepted>>
    BY <1>14 DEF DropTarget
  <2>6. restart_override_config_target' \in Overrides /\ accepted' \in Requests \cup {NoReload, Mixed}
    BY <2>5 DEF Typed, TypeOK
  <2> QED BY <1>1, <1>5, <2>2, <2>3, <2>4, <2>5, <2>6
<1>15. ASSUME \/ DropOverride("drop override", "flag")
              \/ DropOverride("clear override", "restart")
              \/ DropOverride("drop override again", "check")
       PROVE  Typed'
  <2>1. manager' = [manager EXCEPT !.pc = manager'.pc] /\ manager'.pc \in Pcs
    BY <1>0, <1>15 DEF DropOverride
  <2>2. manager' \in ManagerRecord /\ manager'.target = manager.target
    BY <1>0, <2>1
  <2>3. manager'.pc \in Restarting => manager.pc \in Restarting
    BY <1>0, <1>15 DEF DropOverride, Restarting
  <2>4. manager'.pc # "launch" /\ restart_override_config_target' = None
    BY <1>0, <1>15 DEF DropOverride
  <2>5. UNCHANGED <<restart_target, load_complete, savesVars, setting, files, kcpp_instance, admin>>
    BY <1>15 DEF DropOverride
  <2>6. accepted' \in Requests \cup {NoReload, Mixed}
    BY <1>15 DEF DropOverride, Settle, Typed, TypeOK
  <2>7. restart_target' \in Targets
    BY <2>5 DEF Typed, TypeOK
  <2> QED BY <1>1, <1>5, <2>2, <2>3, <2>4, <2>5, <2>6, <2>7
<1> QED BY <1>2, <1>3, <1>4, <1>7, <1>8, <1>9, <1>10, <1>11, <1>12, <1>13, <1>14, <1>15 DEF ManagerStep

LEMMA TypedNext == Typed /\ [Next]_vars => Typed'
<1> SUFFICES ASSUME Typed, [Next]_vars PROVE Typed'
  OBVIOUS
<1>1. CASE ManagerStep
  BY <1>1, TypedManager
<1>2. CASE ServerLoads \/ LoadFails \/ ServerDies \/ RemoveSaveFile \/ \E f \in files : RemoveFile(f)
  BY <1>2, TypedServer
<1>3. ASSUME NEW h \in Savers, AdminStep(h) \/ SaveStory(h) \/ \E r \in Requests : AcceptReload(h, r)
      PROVE  Typed'
  BY <1>3, TypedHandlers
<1>4. CASE UNCHANGED vars
  <2>1. SavesTyped' /\ saver' = saver
    BY <1>4, SavesTypedKept DEF Typed, TypeOK, SavesTyped, vars, savesVars
  <2>2. UNCHANGED <<restart_target, restart_override_config_target, load_complete, remotetunnel, clients,
                    files, kcpp_instance, manager, admin, accepted>>
    BY <1>4 DEF vars, sharedVars, setting
  <2>3. ServedOnly' /\ Chosen' /\ Gone'
    BY <2>1, <2>2 DEF Typed, ServedOnly, Chosen, Gone
  <2>4. SavesType' /\ SaversHold'
    BY <2>1 DEF SavesTyped
  <2>5. TypeOK'
    BY <2>2, <2>4 DEF Typed, TypeOK
  <2> QED BY <2>3, <2>4, <2>5 DEF Typed
<1> QED BY <1>1, <1>2, <1>3, <1>4 DEF Next, Ended

\* Every variable has its type, in every behaviour: the arguments of a server,
\* the target of a reload and the saves of the clients are what the code expects.
THEOREM TypeCorrect == Spec => []TypeOK
<1>1. Typed => TypeOK
  BY DEF Typed
<1> QED BY TypedInit, TypedNext, <1>1, PTL DEF Spec

-----------------------------------------------------------------------------
(* The program does not end by a reload *)

\* Old arguments are dropped from the shared dictionary before a server loads.
Asleep ==
    kcpp_instance.state = "loading" =>
        /\ manager.pc \notin Restarting
        /\ manager.pc = "override" => manager.target = None
        /\ restart_target # None => manager.pc \in {"drop target", "drop target again"}

\* The manager is in the mode in which the end of the server is a load that failed,
\* and no server has told it to leave that mode, as long as new arguments load.
Guarded ==
    /\ ~kcpp_instance.loaded /\ kcpp_instance.args # OriginalArgs => manager.recovery /\ ~load_complete
    /\ manager.pc = "launch" => manager.recovery
    /\ manager.pc \in {"kill", "launch"} => ~load_complete

Covered == Asleep /\ Guarded /\ NeverDownByReload

LEMMA CoveredServer ==
    ASSUME Typed, Covered, ServerLoads \/ LoadFails \/ ServerDies
    PROVE  Covered'
<1>1. kcpp_instance \in [state : {"loading", "serving", "dead"}, args : Args, loaded : BOOLEAN]
  BY DEF Typed, TypeOK
<1>2. manager' = manager
  BY DEF ServerLoads, LoadFails, ServerDies
<1>3. CASE ServerLoads
  <2>1. kcpp_instance'.loaded /\ kcpp_instance'.state = "serving"
    BY <1>1, <1>3 DEF ServerLoads
  <2>2. manager.pc \notin {"kill", "launch"}
    BY <1>3 DEF ServerLoads, Covered, Asleep, Restarting
  <2> QED BY <1>2, <2>1, <2>2 DEF Covered, Asleep, Guarded, NeverDownByReload
<1>4. CASE LoadFails \/ ServerDies
  <2>1. /\ kcpp_instance'.loaded = kcpp_instance.loaded /\ kcpp_instance'.args = kcpp_instance.args
        /\ kcpp_instance'.state = "dead" /\ load_complete' = load_complete
    BY <1>1, <1>4 DEF LoadFails, ServerDies, sharedVars
  <2> QED BY <1>2, <2>1 DEF Covered, Asleep, Guarded, NeverDownByReload
<1> QED BY <1>3, <1>4

LEMMA CoveredHandlers ==
    ASSUME Typed, Covered, NEW h \in Savers,
           AdminStep(h) \/ SaveStory(h) \/ \E r \in Requests : AcceptReload(h, r)
    PROVE  Covered'
<1>1. UNCHANGED <<kcpp_instance, manager, load_complete>>
  BY DEF AdminStep, ResetOverride, SetOverride, SetTarget, ForgetOverride, SaveStory, AcceptReload, sharedVars
<1>2. kcpp_instance.state = "serving"
  <2>1. CASE AdminStep(h)
    <3>1. admin[h].pc # "idle"
      BY <2>1 DEF AdminStep, ResetOverride, SetOverride, SetTarget, ForgetOverride
    <3> QED BY <3>1 DEF Typed, ServedOnly, NoRequest
  <2>2. CASE SaveStory(h)
    BY <2>2 DEF SaveStory
  <2>3. CASE \E r \in Requests : AcceptReload(h, r)
    BY <2>3 DEF AcceptReload
  <2> QED BY <2>1, <2>2, <2>3
<1> QED BY <1>1, <1>2 DEF Covered, Asleep, Guarded, NeverDownByReload

LEMMA CoveredManager ==
    ASSUME Typed, Covered, ManagerStep
    PROVE  Covered'
<1>0. manager \in ManagerRecord
      /\ kcpp_instance \in [state : {"loading", "serving", "dead"}, args : Args, loaded : BOOLEAN]
  BY DEF Typed, TypeOK, ManagerRecord, Pcs
<1>1. CASE CheckAlive
  <2>1. manager'.pc = "flag" /\ manager'.recovery = manager.recovery
    BY <1>0, <1>1 DEF CheckAlive, ManagerRecord
  <2>2. kcpp_instance.state = "loading" => restart_target = None
    BY <1>1 DEF CheckAlive, Covered, Asleep
  <2> QED BY <1>1, <2>1, <2>2
          DEF CheckAlive, Covered, Asleep, Guarded, NeverDownByReload, Restarting, sharedVars
<1>2. CASE Recover
  <2>1. manager'.pc = "drop target" /\ kcpp_instance'.args = OriginalArgs
    BY <1>0, <1>2 DEF Recover, ManagerRecord
  <2> QED BY <1>2, <2>1 DEF Recover, Covered, Asleep, Guarded, NeverDownByReload, Restarting
<1>3. CASE Exit
  <2>1. manager'.pc = "exited" /\ manager'.recovery = FALSE /\ kcpp_instance' = kcpp_instance
    BY <1>0, <1>3 DEF Exit, ManagerRecord
  <2>2. kcpp_instance.loaded \/ kcpp_instance.args = OriginalArgs
    BY <1>3 DEF Exit, Covered, Guarded
  <2>3. kcpp_instance.state # "loading"
    BY <1>3 DEF Exit
  <2> QED BY <2>1, <2>2, <2>3 DEF Covered, Asleep, Guarded, NeverDownByReload
<1>4. ASSUME \/ DropTarget("drop target", "drop override")
             \/ DropTarget("clear target", "clear override")
             \/ DropTarget("drop target again", "drop override again")
      PROVE  Covered'
  <2>1. manager'.pc \in {"drop override", "clear override", "drop override again"}
    BY <1>0, <1>4 DEF DropTarget, ManagerRecord
  <2>2. manager'.recovery = manager.recovery /\ (manager'.pc \in Restarting => manager.pc \in Restarting)
    BY <1>0, <1>4 DEF DropTarget, ManagerRecord, Restarting
  <2>3. restart_target' = None /\ UNCHANGED <<kcpp_instance, load_complete>>
    BY <1>4 DEF DropTarget
  <2> QED BY <2>1, <2>2, <2>3 DEF Covered, Asleep, Guarded, NeverDownByReload
<1>5. ASSUME \/ DropOverride("drop override", "flag")
             \/ DropOverride("clear override", "restart")
             \/ DropOverride("drop override again", "check")
      PROVE  Covered'
  <2>1. manager'.pc \in {"flag", "restart", "check"}
    BY <1>0, <1>5 DEF DropOverride, ManagerRecord
  <2>2. manager'.recovery = manager.recovery /\ (manager'.pc \in Restarting => manager.pc \in Restarting)
    BY <1>0, <1>5 DEF DropOverride, ManagerRecord, Restarting
  <2>3. UNCHANGED <<restart_target, kcpp_instance, load_complete>>
    BY <1>5 DEF DropOverride
  <2>4. manager.pc \notin {"drop target", "drop target again"}
    BY <1>5 DEF DropOverride
  <2> QED BY <2>1, <2>2, <2>3, <2>4 DEF Covered, Asleep, Guarded, NeverDownByReload
<1>6. CASE CheckFlag
  <2>1. manager'.pc = "target" /\ manager'.recovery = (manager.recovery /\ ~load_complete)
    BY <1>0, <1>6 DEF CheckFlag, ManagerRecord
  <2>2. manager.pc = "flag" /\ UNCHANGED <<restart_target, kcpp_instance, load_complete>>
    BY <1>6 DEF CheckFlag, sharedVars
  <2> QED BY <2>1, <2>2 DEF Covered, Asleep, Guarded, NeverDownByReload, Restarting
<1>7. CASE ReadTarget
  <2>1. manager'.pc = "override" /\ manager'.target = restart_target /\ manager'.recovery = manager.recovery
    BY <1>0, <1>7 DEF ReadTarget, ManagerRecord
  <2>2. manager.pc = "target" /\ UNCHANGED <<restart_target, kcpp_instance, load_complete>>
    BY <1>7 DEF ReadTarget, sharedVars
  <2> QED BY <2>1, <2>2 DEF Covered, Asleep, Guarded, NeverDownByReload, Restarting
<1>8. CASE ReadOverride
  <2>1. manager'.pc = (IF manager.target = None THEN "check" ELSE "clear target")
        /\ manager'.recovery = manager.recovery
    BY <1>0, <1>8 DEF ReadOverride, ManagerRecord
  <2>2. manager.pc = "override" /\ UNCHANGED <<restart_target, kcpp_instance, load_complete>>
    BY <1>8 DEF ReadOverride, sharedVars
  <2> QED BY <2>1, <2>2 DEF Covered, Asleep, Guarded, NeverDownByReload, Restarting
<1>9. CASE FindFiles
  <2>1. /\ manager.pc = "restart" /\ UNCHANGED <<restart_target, kcpp_instance>>
        /\ \/ manager'.pc = "kill" /\ ~load_complete'
           \/ manager'.pc = "check" /\ load_complete' = load_complete
        /\ manager'.recovery = manager.recovery
    BY <1>0, <1>9 DEF FindFiles, ManagerRecord, sharedVars
  <2>2. kcpp_instance.state # "loading"
    BY <2>1 DEF Covered, Asleep, Restarting
  <2>3. CASE manager'.pc = "kill" /\ ~load_complete'
    BY <2>1, <2>2, <2>3 DEF Covered, Asleep, Guarded, NeverDownByReload
  <2>4. CASE manager'.pc = "check" /\ load_complete' = load_complete
    BY <2>1, <2>2, <2>4 DEF Covered, Asleep, Guarded, NeverDownByReload
  <2> QED BY <2>1, <2>3, <2>4
<1>10. CASE Terminate
  <2>1. manager.pc = "kill" /\ manager'.pc = "launch" /\ manager'.recovery /\ load_complete' = load_complete
    BY <1>0, <1>10 DEF Terminate, ManagerRecord, sharedVars
  <2>2. kcpp_instance'.state = "dead"
    BY <1>0, <1>10 DEF Terminate
  <2> QED BY <2>1, <2>2 DEF Covered, Asleep, Guarded, NeverDownByReload
<1>11. CASE Launch
  <2>1. /\ manager.pc = "launch" /\ manager'.pc = "drop target again" /\ manager'.recovery = manager.recovery
        /\ load_complete' = load_complete
    BY <1>0, <1>11 DEF Launch, ManagerRecord, sharedVars
  <2> QED BY <2>1 DEF Covered, Asleep, Guarded, NeverDownByReload, Restarting
<1>12. CASE LaunchRaises
  <2>1. /\ manager.pc = "launch" /\ manager'.pc = "raised" /\ manager'.recovery = manager.recovery
        /\ UNCHANGED <<load_complete, kcpp_instance, restart_target>>
    BY <1>0, <1>12 DEF LaunchRaises, ManagerRecord, sharedVars
  <2>2. kcpp_instance.state # "loading"
    BY <2>1 DEF Typed, Gone
  <2> QED BY <2>1, <2>2 DEF Covered, Asleep, Guarded, NeverDownByReload
<1> QED BY <1>1, <1>2, <1>3, <1>4, <1>5, <1>6, <1>7, <1>8, <1>9, <1>10, <1>11, <1>12 DEF ManagerStep

LEMMA CoveredNext == Typed /\ Covered /\ [Next]_vars => Covered'
<1> SUFFICES ASSUME Typed, Covered, [Next]_vars PROVE Covered'
  OBVIOUS
<1>1. CASE ServerLoads \/ LoadFails \/ ServerDies
  BY <1>1, CoveredServer
<1>2. CASE ManagerStep
  BY <1>2, CoveredManager
<1>3. ASSUME NEW h \in Savers, AdminStep(h) \/ SaveStory(h) \/ \E r \in Requests : AcceptReload(h, r)
      PROVE  Covered'
  BY <1>3, CoveredHandlers
<1>4. CASE RemoveSaveFile \/ (\E f \in files : RemoveFile(f)) \/ UNCHANGED vars
  <2>1. UNCHANGED <<restart_target, load_complete, kcpp_instance, manager>>
    BY <1>4 DEF RemoveSaveFile, RemoveFile, vars, sharedVars
  <2> QED BY <2>1 DEF Covered, Asleep, Guarded, NeverDownByReload
<1> QED BY <1>1, <1>2, <1>3, <1>4 DEF Next, Ended

\* The program ends only with a server that had come up, or with the original
\* arguments: a reload whose model or configuration does not load is recovered
\* from (fault_recovery_mode of the manager's loop), whatever order the handlers,
\* the manager and the server take their steps in.
THEOREM ReloadNeverEndsProgram == Spec => []NeverDownByReload
<1>1. Init => Covered
  BY DEF Init, Covered, Asleep, Guarded, NeverDownByReload, Restarting
<1>2. Covered => NeverDownByReload
  BY DEF Covered
<1> QED BY <1>1, <1>2, TypedInit, TypedNext, CoveredNext, PTL DEF Spec

-----------------------------------------------------------------------------
(* Stories survive *)

Pending(s) == {h \in Savers : saver[h].slot = s /\ saver[h].story # Unsure}

\* What clients were told, or are about to be told, is what the dictionary holds.
MemoryAgrees ==
    savedata_obj # Nothing => \A s \in Slots :
        /\ \A h \in Pending(s) : saver[h].story = Lookup(savedata_obj, s)
        /\ Pending(s) = {} => acked[s] \in {Unsure, Lookup(savedata_obj, s)}

\* The text of a handler has every story that it has not passed by.
TextAgrees ==
    \A h \in Writers : \A s \in Slots \ saver[h].missed :
        Lookup(saver[h].text, s) = Lookup(savedata_obj, s)

Whole == file \notin {Torn, Missing}

\* A whole file has every story that is not about to be written, or stale.
FileIsMemory ==
    Whole /\ savedata_obj # Nothing => \A s \in Slots \ stale :
        (\A h \in Savers : saver[h].pc = "open" => saver[h].slot # s) =>
            Lookup(file, s) = Lookup(savedata_obj, s)

\* Without a server there is only the file.
FileAgrees ==
    Whole => \A s \in Sure \ stale : Lookup(file, s) = acked[s]

\* A torn file is a write in progress or a known disturbance.
FileWhole == file = Torn => disturbed \/ Writers # {}

Agreed == MemoryAgrees /\ TextAgrees /\ FileIsMemory /\ FileAgrees /\ FileWhole

LEMMA AgreedInit == SavesInit => Agreed
<1> SUFFICES ASSUME SavesInit PROVE Agreed
  OBVIOUS
<1>1. \A s \in Slots : Lookup(file, s) = acked[s]
  BY DEF SavesInit, Lookup
<1>2. file # Torn
  BY EmptyIsSaves, SavesAreWhole DEF SavesInit
<1>3. Writers = {}
  BY IdleFields DEF SavesInit, Writers
<1> QED BY <1>1, <1>2, <1>3
        DEF SavesInit, Agreed, MemoryAgrees, TextAgrees, FileIsMemory, FileAgrees, FileWhole, Sure

LEMMA AgreedKept == Agreed /\ UNCHANGED savesVars => Agreed'
BY DEF Agreed, MemoryAgrees, TextAgrees, FileIsMemory, FileAgrees, FileWhole, Whole, Sure, Pending,
       Writers, Lookup, savesVars

LEMMA AgreedLoad ==
    ASSUME SavesTyped, Agreed, LoadSaves, \A h \in Savers : saver[h] = Idle
    PROVE  Agreed'
<1>1. saver' = saver /\ stale' = {} /\ disturbed' = disturbed /\ Writers' = {} /\ Writers = {}
  BY IdleFields DEF LoadSaves, Writers
<1>2. ASSUME NEW s \in Slots PROVE \A h \in Savers : saver[h].slot # s
  <2>1. Nothing # s
    BY SavesAssumption
  <2> QED BY <2>1, IdleFields
<1>3. CASE file = Missing
  <2>1. savedata_obj' = <<>> /\ file' = <<>> /\ \A s \in Slots : acked'[s] = Unsure
    BY <1>3, SavesAssumption DEF LoadSaves
  <2>2. file' # Torn
    BY <2>1, EmptyIsSaves, SavesAreWhole
  <2>3. \A s \in Slots : Pending(s)' = {}
    BY <1>1, <1>2 DEF Pending
  <2>4. MemoryAgrees'
    BY <2>1, <2>3 DEF MemoryAgrees
  <2>5. FileIsMemory' /\ FileAgrees'
    BY <2>1 DEF FileIsMemory, FileAgrees, Sure, Lookup
  <2> QED BY <1>1, <2>2, <2>4, <2>5 DEF Agreed, TextAgrees, FileWhole
<1>4. CASE file # Missing
  <2>1. file' = file /\ savedata_obj' = IF file = Torn THEN Nothing ELSE file
    BY <1>4 DEF LoadSaves
  <2>2. \A s \in Slots : acked'[s] = IF s \in stale THEN Unsure ELSE acked[s]
    BY <1>4 DEF LoadSaves
  <2>3. \A s \in Slots : Pending(s)' = {}
    BY <1>1, <1>2 DEF Pending
  <2>4. ASSUME file # Torn, NEW s \in Slots, acked'[s] # Unsure PROVE Lookup(file, s) = acked'[s]
    <3>1. s \in Sure \ stale /\ acked'[s] = acked[s]
      BY <1>2, <2>2, <2>4 DEF Sure
    <3> QED BY <1>4, <2>4, <3>1 DEF Agreed, FileAgrees, Whole
  <2>5. MemoryAgrees'
    <3> SUFFICES ASSUME savedata_obj' # Nothing, NEW s \in Slots
                 PROVE  acked'[s] \in {Unsure, Lookup(savedata_obj', s)}
      BY <2>3 DEF MemoryAgrees
    <3>1. file # Torn /\ savedata_obj' = file
      BY <2>1
    <3> QED BY <2>4, <3>1
  <2>6. FileAgrees'
    BY <1>1, <2>1, <2>4 DEF FileAgrees, Whole, Sure, Lookup
  <2>7. FileIsMemory'
    BY <2>1 DEF FileIsMemory, Whole, Lookup
  <2>8. FileWhole'
    BY <1>1, <2>1 DEF Agreed, FileWhole
  <2> QED BY <1>1, <2>5, <2>6, <2>7, <2>8 DEF Agreed, TextAgrees
<1> QED BY <1>3, <1>4

LEMMA AgreedLose ==
    ASSUME SavesTyped, Agreed, LoseSaves
    PROVE  Agreed'
<1>1. /\ savedata_obj' = Nothing /\ file' = file /\ stale' = stale
      /\ disturbed' = (disturbed \/ (file = Torn /\ Writers # {}))
  BY DEF LoseSaves
<1>2. Writers' = {}
  BY IdleFields DEF LoseSaves, Writers
<1>3. FileAgrees'
  <2> SUFFICES ASSUME Whole, NEW s \in Slots \ stale, acked'[s] # Unsure
               PROVE  Lookup(file, s) = acked'[s]
    BY <1>1 DEF FileAgrees, Whole, Sure, Lookup
  <2>1. acked'[s] = acked[s] /\ \A h \in Savers : saver[h].slot # s
    BY DEF LoseSaves
  <2> QED BY <2>1 DEF Agreed, FileAgrees, Sure
<1>4. FileWhole'
  BY <1>1 DEF Agreed, FileWhole
<1> QED BY <1>1, <1>2, <1>3, <1>4 DEF Agreed, MemoryAgrees, TextAgrees, FileIsMemory

LEMMA AgreedRemoved ==
    ASSUME Agreed, LoseFile
    PROVE  Agreed'
<1>1. file' = Missing /\ UNCHANGED <<savedata_obj, saver, acked, disturbed, stale>>
  BY DEF LoseFile
<1>2. MemoryAgrees' /\ TextAgrees'
  BY <1>1 DEF Agreed, MemoryAgrees, TextAgrees, Pending, Writers, Lookup
<1>3. FileIsMemory' /\ FileAgrees' /\ FileWhole'
  BY <1>1, SavesAssumption DEF FileIsMemory, FileAgrees, FileWhole, Whole
<1> QED BY <1>2, <1>3 DEF Agreed

LEMMA AgreedPut ==
    ASSUME SavesTyped, Agreed, NEW h \in Savers, NEW s \in Slots, NEW story \in Stories \cup {Nothing},
           PutStory(h, s, story)
    PROVE  Agreed'
<1>1. savedata_obj \in Saves /\ savedata_obj # Nothing
  BY DEF SavesTyped, SavesType, PutStory
<1>2. /\ savedata_obj' = Put(savedata_obj, s, story)
      /\ UNCHANGED <<file, acked, disturbed, stale>>
  BY DEF PutStory
<1>3. /\ savedata_obj' # Nothing
      /\ Lookup(savedata_obj', s) = story
      /\ \A t \in Slots \ {s} : Lookup(savedata_obj', t) = Lookup(savedata_obj, t)
  BY <1>1, <1>2, PutIsSaves, SavesAreWhole
<1>4. saver[h].pc = "idle" /\ saver[h].slot = Nothing
  <2>1. saver[h].pc = "idle"
    BY DEF PutStory
  <2>2. saver[h] = Idle
    BY <2>1 DEF SavesTyped, SaversHold
  <2> QED BY <2>1, <2>2, IdleFields
<1>5. Pending(s)' = {h}
  <2>1. story # Unsure
    BY SavesAssumption
  <2> QED BY <2>1, PutFields DEF Pending
<1>6. ASSUME NEW t \in Slots \ {s}
      PROVE  Pending(t)' = Pending(t) /\ \A w \in Pending(t) : saver'[w].story = saver[w].story
  <2>1. t # Nothing
    BY SavesAssumption
  <2>2. \A w \in Savers : w \in Pending(t)' <=> w \in Pending(t)
    BY <1>4, <2>1, PutFields DEF Pending
  <2>3. \A w \in Pending(t) : saver'[w].story = saver[w].story
    BY <1>4, <2>1, PutFields DEF Pending
  <2>4. Pending(t)' \subseteq Savers /\ Pending(t) \subseteq Savers
    BY DEF Pending
  <2> QED BY <2>2, <2>3, <2>4
<1>7. MemoryAgrees'
  <2>1. saver'[h].story = story
    BY PutFields
  <2>2. ASSUME NEW t \in Slots \ {s}
        PROVE  /\ \A w \in Pending(t)' : saver'[w].story = Lookup(savedata_obj', t)
               /\ Pending(t)' = {} => acked'[t] \in {Unsure, Lookup(savedata_obj', t)}
    BY <1>1, <1>2, <1>3, <1>6 DEF Agreed, MemoryAgrees
  <2> QED BY <1>3, <1>5, <2>1, <2>2 DEF MemoryAgrees
<1>8. TextAgrees'
  <2> SUFFICES ASSUME NEW w \in Savers, saver'[w].pc \in {"dump", "close"}, NEW t \in Slots \ saver'[w].missed
               PROVE  Lookup(saver'[w].text, t) = Lookup(savedata_obj', t)
    BY DEF TextAgrees, Writers
  <2>1. w # h
    BY PutFields
  <2>2. w \in Writers /\ saver[w].text \in Saves
    BY <2>1, PutFields DEF Writers, SavesTyped, SavesType
  <2>3. CASE saver'[w].missed = saver[w].missed \cup {s} /\ saver'[w].text = saver[w].text
    BY <1>3, <2>2, <2>3 DEF Agreed, TextAgrees
  <2>4. CASE saver'[w].missed = saver[w].missed /\ saver'[w].text = Put(saver[w].text, s, story)
    <3>1. CASE t = s
      BY <1>3, <2>2, <2>4, <3>1, PutIsSaves
    <3>2. CASE t # s
      <4>1. Lookup(saver'[w].text, t) = Lookup(saver[w].text, t)
        BY <2>2, <2>4, <3>2, PutIsSaves
      <4> QED BY <1>3, <2>2, <2>4, <3>2, <4>1 DEF Agreed, TextAgrees
    <3> QED BY <3>1, <3>2
  <2> QED BY <2>1, <2>2, <2>3, <2>4, PutFields DEF Writers
<1>9. FileIsMemory'
  <2> SUFFICES ASSUME Whole, NEW t \in Slots \ stale,
                      \A w \in Savers : saver'[w].pc = "open" => saver'[w].slot # t
               PROVE  Lookup(file, t) = Lookup(savedata_obj', t)
    BY <1>2 DEF FileIsMemory, Whole, Lookup
  <2>1. t # s
    BY PutFields
  <2>2. \A w \in Savers : saver[w].pc = "open" => saver[w].slot # t
    BY <1>4, PutFields
  <2> QED BY <1>1, <1>3, <2>1, <2>2 DEF Agreed, FileIsMemory
<1>10. Writers \subseteq Writers'
  BY <1>4, PutFields DEF Writers
<1>11. FileWhole'
  BY <1>2, <1>10 DEF Agreed, FileWhole
<1>12. FileAgrees'
  <2> SUFFICES ASSUME Whole, NEW t \in Sure' \ stale PROVE Lookup(file, t) = acked[t]
    BY <1>2 DEF FileAgrees, Whole, Lookup
  <2>1. t \in Slots /\ acked[t] # Unsure /\ \A w \in Savers : saver'[w].slot # t
    BY <1>2 DEF Sure
  <2>2. t # Nothing
    BY <2>1, SavesAssumption
  <2>3. \A w \in Savers : saver[w].slot # t
    BY <1>4, <2>1, <2>2, PutFields
  <2>4. t \in Sure
    BY <2>1, <2>3 DEF Sure
  <2> QED BY <2>4 DEF Agreed, FileAgrees
<1> QED BY <1>7, <1>8, <1>9, <1>11, <1>12 DEF Agreed

LEMMA AgreedOpen ==
    ASSUME SavesTyped, Agreed, NEW h \in Savers, OpenFile(h)
    PROVE  Agreed'
<1>1. file' = Torn /\ savedata_obj' = savedata_obj /\ acked' = acked
  BY DEF OpenFile
<1>2. \A w \in Savers : saver'[w].slot = saver[w].slot /\ saver'[w].story = saver[w].story
  BY OpenFields
<1>3. \A s \in Slots : Pending(s)' = Pending(s)
  BY <1>2 DEF Pending
<1>4. MemoryAgrees'
  BY <1>1, <1>2, <1>3 DEF Agreed, MemoryAgrees, Pending
<1>5. TextAgrees'
  <2> SUFFICES ASSUME NEW w \in Savers, saver'[w].pc \in {"dump", "close"}, NEW t \in Slots \ saver'[w].missed
               PROVE  Lookup(saver'[w].text, t) = Lookup(savedata_obj, t)
    BY <1>1 DEF TextAgrees, Writers, Lookup
  <2>1. CASE w = h
    BY <2>1, OpenFields
  <2>2. CASE w # h
    <3>1. w \in Writers /\ saver'[w].missed = saver[w].missed /\ saver'[w].text = saver[w].text
      BY <2>2, OpenFields DEF Writers
    <3> QED BY <3>1 DEF Agreed, TextAgrees
  <2> QED BY <2>1, <2>2
<1>6. h \in Writers'
  BY OpenFields DEF Writers
<1> QED BY <1>1, <1>4, <1>5, <1>6 DEF Agreed, FileIsMemory, FileAgrees, FileWhole, Whole

LEMMA AgreedWalk ==
    ASSUME SavesTyped, Agreed, NEW h \in Savers, EndWalk(h) \/ FlushSome(h)
    PROVE  Agreed'
<1>1. CASE FlushSome(h)
  <2>1. file' = Torn /\ h \in Writers /\ UNCHANGED <<savedata_obj, saver, acked, disturbed, stale>>
    BY <1>1 DEF FlushSome
  <2>2. MemoryAgrees' /\ TextAgrees' /\ Writers' = Writers
    BY <2>1 DEF Agreed, MemoryAgrees, TextAgrees, Pending, Writers, Lookup
  <2> QED BY <2>1, <2>2 DEF Agreed, FileIsMemory, FileAgrees, FileWhole, Whole
<1>2. CASE EndWalk(h)
  <2>1. UNCHANGED <<savedata_obj, file, acked, disturbed, stale>>
    BY <1>2 DEF EndWalk
  <2>2. \A w \in Savers :
            /\ saver'[w].slot = saver[w].slot /\ saver'[w].story = saver[w].story
            /\ saver'[w].missed = saver[w].missed /\ saver'[w].text = saver[w].text
            /\ saver'[w].pc = "open" <=> saver[w].pc = "open"
            /\ saver'[w].pc \in {"dump", "close"} <=> saver[w].pc \in {"dump", "close"}
    BY <1>2, WalkFields
  <2>3. Writers' = Writers /\ Sure' = Sure /\ \A s \in Slots : Pending(s)' = Pending(s)
    BY <2>1, <2>2 DEF Writers, Sure, Pending
  <2>4. MemoryAgrees'
    BY <2>1, <2>2, <2>3 DEF Agreed, MemoryAgrees, Pending, Lookup
  <2>5. TextAgrees'
    BY <2>1, <2>2, <2>3 DEF Agreed, TextAgrees, Writers, Lookup
  <2>6. FileIsMemory'
    BY <2>1, <2>2 DEF Agreed, FileIsMemory, Whole, Lookup
  <2>7. FileAgrees' /\ FileWhole'
    BY <2>1, <2>3 DEF Agreed, FileAgrees, FileWhole, Whole, Lookup
  <2> QED BY <2>4, <2>5, <2>6, <2>7 DEF Agreed
<1> QED BY <1>1, <1>2

LEMMA AgreedEnd ==
    ASSUME SavesTyped, Agreed, NEW h \in Savers, FileMissing(h) \/ DumpRaises(h) \/ CloseFile(h)
    PROVE  Agreed'
<1>1. savedata_obj' = savedata_obj /\ savedata_obj # Nothing
  BY EndFields, SavesAreWhole
<1>2. ASSUME NEW s \in Slots
      PROVE  /\ Pending(s)' = Pending(s) \ {h}
             /\ \A w \in Pending(s)' : saver'[w].story = saver[w].story
  <2>1. saver'[h].slot # s
    BY EndFields, IdleFields, SavesAssumption
  <2>2. Pending(s) \subseteq Savers /\ Pending(s)' \subseteq Savers /\ h \notin Pending(s)'
    BY <2>1 DEF Pending
  <2>3. \A w \in Savers \ {h} : w \in Pending(s)' <=> w \in Pending(s)
    BY EndFields DEF Pending
  <2>4. \A w \in Savers \ {h} : saver'[w].story = saver[w].story
    BY EndFields
  <2> QED BY <2>2, <2>3, <2>4
<1>3. MemoryAgrees'
  <2> SUFFICES ASSUME NEW s \in Slots
               PROVE  /\ \A w \in Pending(s)' : saver'[w].story = Lookup(savedata_obj, s)
                      /\ Pending(s)' = {} => acked'[s] \in {Unsure, Lookup(savedata_obj, s)}
    BY <1>1 DEF MemoryAgrees, Lookup
  <2>1. \A w \in Pending(s)' : saver'[w].story = Lookup(savedata_obj, s)
    BY <1>1, <1>2 DEF Agreed, MemoryAgrees
  <2>2. ASSUME Pending(s)' = {} PROVE acked'[s] \in {Unsure, Lookup(savedata_obj, s)}
    <3>1. CASE h \in Pending(s)
      <4>1. saver[h].slot = s /\ saver[h].story # Unsure /\ saver[h].story = Lookup(savedata_obj, s)
        BY <1>1, <3>1 DEF Agreed, MemoryAgrees, Pending
      <4> QED BY <4>1, EndFields
    <3>2. CASE h \notin Pending(s)
      <4>1. Pending(s) = {}
        BY <1>2, <2>2, <3>2
      <4>2. acked'[s] = acked[s]
        BY <3>2, EndFields DEF Pending
      <4> QED BY <1>1, <4>1, <4>2 DEF Agreed, MemoryAgrees
    <3> QED BY <3>1, <3>2
  <2> QED BY <2>1, <2>2
<1>4. TextAgrees'
  <2> SUFFICES ASSUME NEW w \in Savers, saver'[w].pc \in {"dump", "close"}, NEW t \in Slots \ saver'[w].missed
               PROVE  Lookup(saver'[w].text, t) = Lookup(savedata_obj, t)
    BY <1>1 DEF TextAgrees, Writers, Lookup
  <2>1. w # h
    BY EndFields, IdleFields
  <2>2. saver'[w] = saver[w]
    BY <2>1, EndFields
  <2>3. w \in Writers
    BY <2>2 DEF Writers
  <2> QED BY <2>2, <2>3 DEF Agreed, TextAgrees
<1>5. FileIsMemory'
  <2> SUFFICES ASSUME file' \notin {Torn, Missing}, NEW t \in Slots \ stale',
                      \A w \in Savers : saver'[w].pc = "open" => saver'[w].slot # t
               PROVE  Lookup(file', t) = Lookup(savedata_obj, t)
    BY <1>1 DEF FileIsMemory, Whole, Lookup
  <2>1. CloseFile(h) /\ saver[h].pc = "close"
    BY DEF FileMissing, DumpRaises, CloseFile
  <2>2. CASE file' = saver[h].text /\ stale' = saver[h].missed
    BY <2>1, <2>2 DEF Agreed, TextAgrees, Writers
  <2>3. CASE UNCHANGED <<file, stale>>
    <3>1. \A w \in Savers : saver[w].pc = "open" => saver[w].slot # t
      BY <2>1, EndFields
    <3>2. Whole
      BY <2>3 DEF Whole
    <3> QED BY <1>1, <2>3, <3>1, <3>2 DEF Agreed, FileIsMemory
  <2> QED BY <2>1, <2>2, <2>3 DEF CloseFile
<1>6. FileAgrees'
  <2>1. (savedata_obj # Nothing)' /\ MemoryAgrees' /\ FileIsMemory'
    BY <1>1, <1>3, <1>5
  <2> SUFFICES ASSUME file' \notin {Torn, Missing}, NEW s \in Sure' \ stale' PROVE Lookup(file', s) = acked'[s]
    BY DEF FileAgrees, Whole, Lookup
  <2>2. s \in Slots /\ acked'[s] # Unsure /\ \A w \in Savers : saver'[w].slot # s
    BY DEF Sure
  <2>3. Pending(s)' = {}
    BY <2>2 DEF Pending
  <2>4. acked'[s] = Lookup(savedata_obj', s)
    BY <2>1, <2>2, <2>3 DEF MemoryAgrees
  <2>5. Lookup(file', s) = Lookup(savedata_obj', s)
    BY <2>1, <2>2 DEF FileIsMemory, Whole
  <2> QED BY <2>4, <2>5
<1>7. FileWhole'
  <2>1. CASE FileMissing(h)
    <3>1. file' = Missing
      BY <2>1 DEF FileMissing
    <3> QED BY <3>1, SavesAssumption DEF FileWhole
  <2>2. CASE DumpRaises(h)
    BY <2>2 DEF DumpRaises, FileWhole
  <2>3. CASE CloseFile(h)
    BY <2>3 DEF CloseFile, FileWhole
  <2> QED BY <2>1, <2>2, <2>3
<1> QED BY <1>3, <1>4, <1>5, <1>6, <1>7 DEF Agreed

LEMMA AgreedStep ==
    ASSUME SavesTyped, Agreed, NEW h \in Savers, SaveStep(h)
    PROVE  Agreed'
BY AgreedOpen, AgreedWalk, AgreedEnd DEF SaveStep

LEMMA AgreedNext == Typed /\ Agreed /\ [Next]_vars => Agreed'
<1> SUFFICES ASSUME Typed, Agreed, [Next]_vars PROVE Agreed'
  OBVIOUS
<1>1. SavesTyped /\ clients.slots \subseteq Slots
  BY AdminAssumption DEF Typed, TypeOK, SavesTyped
<1>2. CASE ServerLoads
  <2>1. \A h \in Savers : saver[h] = Idle
    BY <1>2 DEF ServerLoads, Typed, ServedOnly
  <2> QED BY <1>1, <1>2, <2>1, AgreedLoad DEF ServerLoads
<1>3. CASE ServerDies \/ Terminate
  BY <1>1, <1>3, AgreedLose DEF ServerDies, Terminate
<1>4. ASSUME NEW h \in Savers, SaveStory(h) PROVE Agreed'
  <2>1. ASSUME NEW s \in clients.slots, NEW story \in Stories \cup {Nothing}, PutStory(h, s, story)
        PROVE  Agreed'
    BY <1>1, <2>1, AgreedPut
  <2> QED BY <1>1, <1>4, <2>1, AgreedStep DEF SaveStory
<1>5. ASSUME UNCHANGED savesVars PROVE Agreed'
  BY <1>5, AgreedKept
<1>6. ASSUME NEW h \in Savers, AdminStep(h) \/ \E r \in Requests : AcceptReload(h, r) PROVE UNCHANGED savesVars
  BY <1>6 DEF AdminStep, ResetOverride, SetOverride, SetTarget, ForgetOverride, AcceptReload
<1>7. ASSUME LoadFails \/ \E f \in files : RemoveFile(f) PROVE UNCHANGED savesVars
  BY <1>7 DEF LoadFails, RemoveFile
<1>8. ASSUME ManagerStep PROVE UNCHANGED savesVars \/ Terminate
  BY <1>8 DEF ManagerStep, CheckAlive, Recover, Exit, DropTarget, DropOverride, CheckFlag, ReadTarget,
              ReadOverride, FindFiles, Launch, LaunchRaises
<1>9. UNCHANGED vars => UNCHANGED savesVars
  BY DEF vars
<1>10. CASE RemoveSaveFile
  BY <1>10, AgreedRemoved DEF RemoveSaveFile
<1> QED BY <1>2, <1>3, <1>4, <1>5, <1>6, <1>7, <1>8, <1>9, <1>10 DEF Next, Ended

\* A story that a client was told is saved is in the memory of the server, and
\* it survives the end of the server, by a crash or by a reload, unless the user
\* removed the file, it was torn (by a kill in the middle of a write, by two
\* handlers that wrote at once or by a walk that raised), or a handler that had
\* passed the story by closed the file last (do_POST's data/save).
THEOREM StoriesSurvive == Spec => []SavesSurvive
<1>1. Init => Agreed
  BY AgreedInit DEF Init
<1>2. ASSUME Typed, Agreed PROVE SavesSurvive
  <2>1. \A s \in Sure : s \in Slots /\ Pending(s) = {} /\ acked[s] # Unsure
    BY DEF Sure, Pending
  <2>2. savedata_obj # Nothing => \A s \in Sure : Lookup(savedata_obj, s) = acked[s]
    BY <1>2, <2>1 DEF Agreed, MemoryAgrees
  <2>3. Writers = {} /\ file # Missing /\ ~disturbed => file # Torn
    BY <1>2 DEF Agreed, FileWhole
  <2>4. file # Torn /\ file # Missing => \A s \in Sure \ stale : Lookup(file, s) = acked[s]
    BY <1>2 DEF Agreed, FileAgrees, Whole
  <2> QED BY <2>2, <2>3, <2>4 DEF SavesSurvive
<1>3. Typed /\ Agreed => SavesSurvive
  BY <1>2
<1> QED BY <1>1, <1>3, TypedInit, TypedNext, AgreedNext, PTL DEF Spec

-----------------------------------------------------------------------------
(* What the manager loads is what one request accepted for *)

\* No request was accepted: nothing is announced and the manager is in no reload.
NothingAsked ==
    accepted = NoReload /\ manager.pc \notin {"exited", "raised"} =>
        /\ restart_target = None /\ restart_override_config_target = None
        /\ Active = {}
        /\ manager.pc \notin Restarting
        /\ manager.pc = "override" => manager.target = None

\* The stages in which the manager may still read the request.
Reading == {"check", "flag", "target", "override"}

\* The handler of the request writes the override before the target.
PassesOn(h) ==
    /\ admin[h].target = accepted.target /\ admin[h].override = accepted.override
    /\ admin[h].pc \in {"reset", "override", "target"} => restart_target = None
    /\ admin[h].pc = "override" => accepted.override # None
    /\ admin[h].pc = "target" => restart_override_config_target = accepted.override
    /\ admin[h].pc = "forget" => accepted.target = Unload
    /\ accepted.target = Unload => accepted.override = None

\* A target is announced only with its override, and read only as announced.
Announced ==
    /\ restart_target \in {None, accepted.target}
    /\ restart_target # None => restart_override_config_target = accepted.override
    /\ manager.pc = "override" /\ manager.target # None =>
           manager.target = accepted.target /\ restart_target = accepted.target

OneAsked ==
    accepted \notin {NoReload, Mixed} /\ manager.pc \in Reading =>
        /\ \A g, h \in Active : g = h
        /\ \A h \in Active : PassesOn(h)
        /\ Announced

AskedInv == NothingAsked /\ OneAsked /\ LoadsWhatWasAccepted

LEMMA RequestShape ==
    ASSUME NEW r \in Requests
    PROVE  /\ r = [target |-> r.target, override |-> r.override]
           /\ r.target # None
           /\ r # NoReload
<1>1. r = [target |-> r.target, override |-> r.override]
  BY DEF Requests
<1>2. r.target # None
  BY RequestFields
<1> QED BY <1>1, <1>2 DEF NoReload

LEMMA MixedIsNoRequest == Mixed # NoReload
<1>1. Mixed.target = "mixed" /\ NoReload.target = ""
  BY DEF Mixed, NoReload, None
<1> QED BY <1>1

LEMMA AskedInit == Init => AskedInv
BY DEF Init, AskedInv, NothingAsked, OneAsked, LoadsWhatWasAccepted, Active, NoRequest, Restarting

\* Steps that touch none of what the parts speak of.
LEMMA AskedKept ==
    ASSUME AskedInv,
           UNCHANGED <<restart_target, restart_override_config_target, manager, admin, accepted>>
    PROVE  AskedInv'
BY DEF AskedInv, NothingAsked, OneAsked, LoadsWhatWasAccepted, Active, PassesOn, Announced

\* The handlers are gone: whatever was to be written stays unwritten.
LEMMA AskedLost ==
    ASSUME AskedInv, admin' = [h \in Savers |-> NoRequest],
           UNCHANGED <<restart_target, restart_override_config_target, manager, accepted>>
    PROVE  AskedInv'
<1>1. Active' = {}
  BY DEF Active, NoRequest
<1>2. NothingAsked'
  BY <1>1 DEF AskedInv, NothingAsked
<1>3. OneAsked'
  BY <1>1 DEF AskedInv, OneAsked, Announced
<1> QED BY <1>2, <1>3 DEF AskedInv, LoadsWhatWasAccepted

\* A handler takes a request: the only one, or accepted is Mixed from then on.
LEMMA AskedAccept ==
    ASSUME Typed, AskedInv, NEW h \in Savers, NEW r \in Requests, AcceptReload(h, r)
    PROVE  AskedInv'
<1>1. UNCHANGED <<restart_target, restart_override_config_target, manager>>
  BY DEF AcceptReload, sharedVars
<1>2. Taken(r) \in Requests /\ accepted' # NoReload
  <2>1. Taken(r) \in Requests /\ Taken(r) # NoReload
    BY RequestFields, RequestShape
  <2> QED BY <2>1, MixedIsNoRequest DEF AcceptReload
<1>3. CASE accepted' = Mixed
  BY <1>1, <1>2, <1>3 DEF AskedInv, NothingAsked, OneAsked, LoadsWhatWasAccepted
<1>4. CASE accepted' # Mixed
  <2>1. accepted = NoReload /\ Quiet /\ accepted' = Taken(r)
    BY <1>4 DEF AcceptReload
  <2>2. manager.pc \notin Restarting /\ (manager.pc = "override" => manager.target = None)
    BY <2>1 DEF Quiet, Restarting
  <2>3. admin \in [Savers -> AdminRecord]
    BY DEF Typed, TypeOK, AdminRecord
  <2>4. /\ admin'[h] = [pc |-> IF r.target = Unload THEN "target" ELSE "reset",
                        target |-> r.target, override |-> Taken(r).override]
        /\ \A g \in Savers \ {h} : admin'[g] = admin[g]
    BY <2>3 DEF AcceptReload
  <2>5. Active' = {h}
    BY <2>1, <2>4 DEF Quiet, Active
  <2>6. PassesOn(h)'
    BY <1>1, <2>1, <2>4, RequestFields DEF PassesOn, Quiet
  <2>7. Announced'
    BY <1>1, <2>1, <2>2 DEF Announced, Quiet
  <2>8. OneAsked'
    BY <2>5, <2>6, <2>7 DEF OneAsked
  <2> QED BY <1>1, <1>2, <2>2, <2>8 DEF AskedInv, NothingAsked, LoadsWhatWasAccepted, Restarting
<1> QED BY <1>3, <1>4

\* The handler of the request writes to the shared dictionary.
LEMMA AskedWrite ==
    ASSUME Typed, AskedInv, NEW h \in Savers, AdminStep(h)
    PROVE  AskedInv'
<1>1. UNCHANGED <<manager, accepted>>
  BY DEF AdminStep, ResetOverride, SetOverride, SetTarget, ForgetOverride
<1>2. admin \in [Savers -> AdminRecord]
  BY DEF Typed, TypeOK, AdminRecord
<1>3. h \in Active
  BY DEF AdminStep, ResetOverride, SetOverride, SetTarget, ForgetOverride, Active
<1>4. NothingAsked'
  BY <1>1, <1>3 DEF AskedInv, NothingAsked
<1>5. LoadsWhatWasAccepted'
  BY <1>1 DEF AskedInv, LoadsWhatWasAccepted
<1>6. ASSUME accepted \notin {NoReload, Mixed}, manager.pc \in Reading
      PROVE  /\ \A g, k \in Active' : g = k
             /\ \A g \in Active' : PassesOn(g)'
             /\ Announced'
  <2>1. /\ Active = {h} /\ PassesOn(h) /\ Announced
    BY <1>3, <1>6 DEF AskedInv, OneAsked
  <2>2. accepted \in Requests
    BY <1>6 DEF Typed, TypeOK
  <2>3. \A g \in Savers \ {h} : admin'[g] = admin[g]
    BY <1>2 DEF AdminStep, ResetOverride, SetOverride, SetTarget, ForgetOverride
  <2>4. Active' \subseteq {h}
    BY <2>1, <2>3 DEF Active
  <2>5. CASE ResetOverride(h)
    <3>1. /\ admin[h].pc = "reset" /\ restart_target' = restart_target
          /\ restart_override_config_target' = None
          /\ admin'[h] = [admin[h] EXCEPT !.pc = IF admin[h].override = None THEN "target" ELSE "override"]
      BY <1>2, <2>5 DEF ResetOverride
    <3>2. /\ admin'[h].pc = (IF admin[h].override = None THEN "target" ELSE "override")
          /\ admin'[h].target = admin[h].target /\ admin'[h].override = admin[h].override
      BY <1>2, <3>1 DEF AdminRecord
    <3>3. PassesOn(h)'
      BY <1>1, <2>1, <3>1, <3>2 DEF PassesOn
    <3>4. Announced'
      BY <1>1, <2>1, <3>1, <2>2, RequestShape DEF PassesOn, Announced
    <3> QED BY <2>4, <3>3, <3>4
  <2>6. CASE SetOverride(h)
    <3>1. /\ admin[h].pc = "override" /\ restart_target' = restart_target
          /\ restart_override_config_target' = admin[h].override
          /\ admin'[h] = [admin[h] EXCEPT !.pc = "target"]
      BY <1>2, <2>6 DEF SetOverride
    <3>2. /\ admin'[h].pc = "target"
          /\ admin'[h].target = admin[h].target /\ admin'[h].override = admin[h].override
      BY <1>2, <3>1 DEF AdminRecord
    <3>3. PassesOn(h)'
      BY <1>1, <2>1, <3>1, <3>2 DEF PassesOn
    <3>4. Announced'
      BY <1>1, <2>1, <3>1, <2>2, RequestShape DEF PassesOn, Announced
    <3> QED BY <2>4, <3>3, <3>4
  <2>7. CASE SetTarget(h)
    <3>1. /\ admin[h].pc = "target" /\ restart_target' = admin[h].target
          /\ restart_override_config_target' = restart_override_config_target
          /\ admin'[h] = IF admin[h].target = Unload THEN [admin[h] EXCEPT !.pc = "forget"] ELSE NoRequest
      BY <1>2, <2>7 DEF SetTarget
    <3>2. CASE admin[h].target = Unload
      <4>1. /\ admin'[h].pc = "forget"
            /\ admin'[h].target = admin[h].target /\ admin'[h].override = admin[h].override
        BY <1>2, <3>1, <3>2 DEF AdminRecord
      <4> QED BY <1>1, <2>1, <2>4, <3>1, <3>2, <4>1, <2>2, RequestShape DEF PassesOn, Announced
    <3>3. CASE admin[h].target # Unload
      <4>1. Active' = {}
        BY <2>4, <3>1, <3>3 DEF Active, NoRequest
      <4> QED BY <1>1, <2>1, <3>1, <4>1, <2>2, RequestShape DEF PassesOn, Announced
    <3> QED BY <3>2, <3>3
  <2>8. CASE ForgetOverride(h)
    <3>1. /\ admin[h].pc = "forget" /\ restart_target' = restart_target
          /\ restart_override_config_target' = None
          /\ admin'[h] = NoRequest
      BY <1>2, <2>8 DEF ForgetOverride
    <3>2. Active' = {}
      BY <2>4, <3>1 DEF Active, NoRequest
    <3>3. accepted.override = None
      BY <2>1, <2>2, <3>1, RequestShape DEF PassesOn
    <3> QED BY <1>1, <2>1, <3>1, <3>2, <3>3 DEF Announced
  <2> QED BY <2>5, <2>6, <2>7, <2>8 DEF AdminStep
<1>7. OneAsked'
  BY <1>1, <1>6 DEF OneAsked
<1> QED BY <1>4, <1>5, <1>7 DEF AskedInv

\* A request is done with: accepted is clear, or Mixed for the requests that crossed it.
LEMMA AskedSettle ==
    ASSUME Settle, admin' = admin, manager'.pc \in {"flag", "check"}
    PROVE  AskedInv'
<1>1. accepted' \in {NoReload, Mixed} /\ (accepted' = NoReload => /\ restart_target' = None
                                                            /\ restart_override_config_target' = None
                                                            /\ Active' = {})
  <2>1. Active' = Active
    BY DEF Active
  <2> QED BY <2>1, MixedIsNoRequest DEF Settle
<1> QED BY <1>1 DEF AskedInv, NothingAsked, OneAsked, LoadsWhatWasAccepted, Restarting

\* The manager moves on without reading a target.
LEMMA AskedMove ==
    ASSUME AskedInv, UNCHANGED <<restart_target, restart_override_config_target, admin, accepted>>,
           manager'.pc \in Reading => manager.pc \in Reading,
           manager'.pc = "override" => manager.pc = "override" /\ manager'.target = manager.target,
           manager'.pc \in Restarting =>
               /\ manager.pc \in Restarting
               /\ manager'.target = manager.target /\ manager'.override = manager.override,
           manager.pc \in {"exited", "raised"} => manager'.pc \in {"exited", "raised"}
    PROVE  AskedInv'
<1>1. Active' = Active /\ \A h \in Active : PassesOn(h) => PassesOn(h)'
  BY DEF Active, PassesOn
<1>2. NothingAsked'
  BY <1>1 DEF AskedInv, NothingAsked
<1>3. OneAsked'
  BY <1>1 DEF AskedInv, OneAsked, Announced
<1> QED BY <1>2, <1>3 DEF AskedInv, LoadsWhatWasAccepted, Restarting

\* The manager clears what it has read, and the parts say nothing of it there.
LEMMA AskedClear ==
    ASSUME AskedInv, UNCHANGED <<admin, accepted>>,
           restart_target' \in {restart_target, None},
           restart_override_config_target' \in {restart_override_config_target, None},
           manager'.pc \notin Reading, manager.pc \notin {"exited", "raised"},
           manager'.pc \in Restarting =>
               /\ manager.pc \in Restarting
               /\ manager'.target = manager.target /\ manager'.override = manager.override
    PROVE  AskedInv'
<1>1. NothingAsked'
  BY DEF AskedInv, NothingAsked, Active, Reading
<1>2. OneAsked'
  BY DEF OneAsked
<1> QED BY <1>1, <1>2 DEF AskedInv, LoadsWhatWasAccepted, Restarting

LEMMA AskedManager ==
    ASSUME Typed, AskedInv, ManagerStep
    PROVE  AskedInv'
<1>0. manager \in ManagerRecord
  BY DEF Typed, TypeOK, ManagerRecord, Pcs
<1>1. CASE CheckAlive \/ CheckFlag
  <2>1. /\ manager.pc \in {"check", "flag"} /\ manager'.pc \in {"flag", "target"}
        /\ UNCHANGED <<restart_target, restart_override_config_target, admin, accepted>>
    BY <1>0, <1>1 DEF CheckAlive, CheckFlag, ManagerRecord, sharedVars
  <2> QED BY <2>1, AskedMove DEF Reading, Restarting
<1>2. CASE Recover
  <2>1. /\ manager.pc = "check" /\ manager'.pc = "drop target"
        /\ UNCHANGED <<restart_target, restart_override_config_target, admin, accepted>>
    BY <1>0, <1>2 DEF Recover, ManagerRecord, sharedVars
  <2> QED BY <2>1, AskedMove DEF Reading, Restarting
<1>3. CASE Exit \/ LaunchRaises
  <2>1. accepted' = NoReload /\ manager'.pc \in {"exited", "raised"}
    BY <1>0, <1>3 DEF Exit, LaunchRaises, ManagerRecord
  <2> QED BY <2>1 DEF AskedInv, NothingAsked, OneAsked, LoadsWhatWasAccepted, Restarting
<1>4. CASE \/ DropTarget("drop target", "drop override")
           \/ DropTarget("clear target", "clear override")
           \/ DropTarget("drop target again", "drop override again")
  <2>1. /\ UNCHANGED <<restart_override_config_target, admin, accepted>> /\ restart_target' = None
        /\ manager.pc \in {"drop target", "clear target", "drop target again"}
        /\ manager'.pc \in {"drop override", "clear override", "drop override again"}
        /\ manager'.pc = "clear override" => manager.pc = "clear target"
        /\ manager'.target = manager.target /\ manager'.override = manager.override
    BY <1>0, <1>4 DEF DropTarget, ManagerRecord
  <2> QED BY <2>1, AskedClear DEF Reading, Restarting
<1>5. CASE DropOverride("clear override", "restart")
  <2>1. /\ UNCHANGED <<restart_target, admin, accepted>> /\ restart_override_config_target' = None
        /\ manager.pc = "clear override" /\ manager'.pc = "restart"
        /\ manager'.target = manager.target /\ manager'.override = manager.override
    BY <1>0, <1>5 DEF DropOverride, ManagerRecord
  <2> QED BY <2>1, AskedClear DEF Reading, Restarting
<1>6. CASE DropOverride("drop override", "flag") \/ DropOverride("drop override again", "check")
  <2>1. Settle /\ admin' = admin /\ manager'.pc \in {"flag", "check"}
    BY <1>0, <1>6 DEF DropOverride, ManagerRecord
  <2> QED BY <2>1, AskedSettle
<1>7. CASE ReadTarget
  <2>1. /\ UNCHANGED <<restart_target, restart_override_config_target, admin, accepted>>
        /\ manager.pc = "target" /\ manager'.pc = "override" /\ manager'.target = restart_target
    BY <1>0, <1>7 DEF ReadTarget, ManagerRecord, sharedVars
  <2>2. Active' = Active /\ \A h \in Active : PassesOn(h) => PassesOn(h)'
    BY <2>1 DEF Active, PassesOn
  <2>3. NothingAsked'
    BY <2>1, <2>2 DEF AskedInv, NothingAsked, Restarting
  <2>4. OneAsked'
    BY <2>1, <2>2 DEF AskedInv, OneAsked, Announced, Reading
  <2> QED BY <2>1, <2>3, <2>4 DEF AskedInv, LoadsWhatWasAccepted
<1>8. CASE ReadOverride
  <2>1. /\ UNCHANGED <<restart_target, restart_override_config_target, admin, accepted>>
        /\ manager.pc = "override" /\ manager'.target = manager.target
        /\ manager'.override = restart_override_config_target
        /\ manager'.pc = IF manager.target = None THEN "check" ELSE "clear target"
    BY <1>0, <1>8 DEF ReadOverride, ManagerRecord, sharedVars
  <2>2. CASE manager.target = None
    BY <2>1, <2>2, AskedMove DEF Reading, Restarting
  <2>3. CASE manager.target # None
    <3>1. accepted # NoReload
      BY <2>1, <2>3 DEF AskedInv, NothingAsked
    <3>2. ASSUME accepted # Mixed
          PROVE  accepted = [target |-> manager'.target, override |-> manager'.override]
      <4>1. accepted \in Requests
        BY <3>1, <3>2 DEF Typed, TypeOK
      <4>2. manager.target = accepted.target /\ restart_override_config_target = accepted.override
        BY <2>1, <2>3, <3>1, <3>2, <4>1, RequestShape DEF AskedInv, OneAsked, Announced, Reading
      <4> QED BY <2>1, <4>1, <4>2, RequestShape
    <3>3. LoadsWhatWasAccepted'
      BY <2>1, <3>1, <3>2 DEF LoadsWhatWasAccepted
    <3>4. NothingAsked' /\ OneAsked'
      BY <2>1, <2>3, <3>1 DEF NothingAsked, OneAsked, Reading
    <3> QED BY <3>3, <3>4 DEF AskedInv
  <2> QED BY <2>2, <2>3
<1>9. CASE FindFiles
  <2>1. /\ manager.pc = "restart" /\ admin' = admin
        /\ \/ /\ manager'.pc = "kill" /\ manager'.target = manager.target
              /\ manager'.override = manager.override
              /\ UNCHANGED <<restart_target, restart_override_config_target, accepted>>
           \/ manager'.pc = "check" /\ Settle
    BY <1>0, <1>9 DEF FindFiles, ManagerRecord
  <2> QED BY <2>1, AskedSettle, AskedMove DEF Reading, Restarting
<1>10. CASE Terminate
  <2>1. /\ manager.pc = "kill" /\ manager'.pc = "launch" /\ manager'.target = manager.target
        /\ manager'.override = manager.override /\ accepted' = accepted
    BY <1>0, <1>10 DEF Terminate, ManagerRecord
  <2>2. NothingAsked' /\ OneAsked'
    BY <2>1 DEF AskedInv, LoadsWhatWasAccepted, NothingAsked, OneAsked, Reading
  <2> QED BY <2>1, <2>2 DEF AskedInv, LoadsWhatWasAccepted
<1>11. CASE Launch
  <2>1. /\ manager.pc = "launch" /\ manager'.pc = "drop target again"
        /\ UNCHANGED <<restart_target, restart_override_config_target, admin, accepted>>
    BY <1>0, <1>11 DEF Launch, ManagerRecord, sharedVars
  <2> QED BY <2>1, AskedMove DEF Reading, Restarting
<1> QED BY <1>1, <1>2, <1>3, <1>4, <1>5, <1>6, <1>7, <1>8, <1>9, <1>10, <1>11 DEF ManagerStep

LEMMA AskedNext == Typed /\ AskedInv /\ [Next]_vars => AskedInv'
<1> SUFFICES ASSUME Typed, AskedInv, [Next]_vars PROVE AskedInv'
  OBVIOUS
<1>1. CASE UNCHANGED vars \/ Ended
  BY <1>1, AskedKept DEF vars, sharedVars, Ended
<1>2. CASE ServerLoads
  <2>1. UNCHANGED <<restart_target, restart_override_config_target, manager, admin, accepted>>
    BY <1>2 DEF ServerLoads
  <2> QED BY <2>1, AskedKept
<1>3. CASE LoadFails \/ RemoveSaveFile \/ \E f \in files : RemoveFile(f)
  BY <1>3, AskedKept DEF LoadFails, RemoveSaveFile, RemoveFile, sharedVars
<1>4. CASE ServerDies
  BY <1>4, AskedLost DEF ServerDies, sharedVars
<1>5. ASSUME NEW h \in Savers, SaveStory(h) PROVE AskedInv'
  BY <1>5, AskedKept DEF SaveStory, sharedVars
<1> QED BY <1>1, <1>2, <1>3, <1>4, <1>5, AskedManager, AskedAccept, AskedWrite DEF Next

\* What the manager kills a server for and loads in its place is the target
\* and the override of one accepted request, never those of two, although the
\* shared dictionary is written and read one key at a time: a single request
\* is passed on override first and read target first.
THEOREM ReloadsAsAccepted == Spec => []LoadsWhatWasAccepted
<1>1. Typed /\ AskedInv /\ [Next]_vars => (Typed /\ AskedInv)'
  BY TypedNext, AskedNext
<1>2. AskedInv => LoadsWhatWasAccepted
  BY DEF AskedInv
<1> QED BY <1>1, <1>2, TypedInit, AskedInit, PTL DEF Spec
=============================================================================
