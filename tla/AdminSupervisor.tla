---------------------------- MODULE AdminSupervisor ----------------------------
(***************************************************************************)
(* The admin mode of koboldcpp.py: a manager process runs the server in a  *)
(* child process. A handler of the server writes the configuration to load *)
(* into a dictionary the two processes share; the manager reads it, kills  *)
(* the child and starts another, and returns to the original arguments if  *)
(* the new ones do not load. Each access to the shared dictionary is a     *)
(* step. The handlers also save stories (NetworkSaves), so a reload or a   *)
(* crash may come in the middle of a save.                                 *)
(***************************************************************************)
EXTENDS NetworkSaves, Naturals

CONSTANTS
    Models,   \* the .gguf files of the admin directory
    Configs,  \* its .kcpps files
    Broken,   \* those of Configs that do not parse
    Original, \* what the command line gave: the model and the settings
    Defaults, \* the default settings
    Unload,   \* "unload_model": also the model of a server without one
    Clients   \* the clients to explore: [tunnels, reloaders, requests, savers,
              \* slots, removals, loses], the values of args.remotetunnel, which
              \* handlers serve which reloads, which ones save into which slots,
              \* how many files of the admin directory are removed, and whether
              \* the save file is

VARIABLES
    restart_target,  \* global_memory["restart_target"]
    restart_override_config_target,
    load_complete,   \* global_memory["load_complete"]
    remotetunnel,
    clients,         \* those of this behaviour
    files,           \* the files of the admin directory
    kcpp_instance,   \* the child: [state, args, loaded]
    manager,         \* [pc, target, override, recovery]: the loop of main
    admin,           \* handlers of reload_config: [pc, target, override]
    accepted         \* ghost: the reload that was accepted and not done yet, as
                     \* the handler takes it

setting == <<remotetunnel, clients>>
sharedVars == <<restart_target, restart_override_config_target, load_complete>>
vars == <<sharedVars, savesVars, setting, files, kcpp_instance, manager, admin, accepted>>

None == "" \* no target, no override
NoReload == [target |-> None, override |-> None]
Mixed == [target |-> "mixed", override |-> None] \* of accepted: requests overtook each other

OriginalArgs == [model |-> Original, settings |-> Original]
Requests == [target : Models \cup Configs \cup {Unload}, override : Configs \cup {None}]

\* What the handler takes a request for: an override beside anything but a
\* model, or one that it does not find, is dropped, and the answer is success.
Taken(r) == [r EXCEPT !.override = IF r.target \in Models /\ @ \in files THEN @ ELSE None]

ASSUME AdminAssumption ==
    /\ None \notin Models \cup Configs \cup {Unload}
    /\ Unload \notin Models \cup Configs
    /\ Models \cap Configs = {}
    /\ Broken \subseteq Configs
    /\ Clients \subseteq [tunnels : SUBSET BOOLEAN,
                          reloaders : SUBSET Savers, requests : SUBSET Requests,
                          savers : SUBSET Savers, slots : SUBSET Slots,
                          removals : Nat, loses : BOOLEAN]

NoRequest == [pc |-> "idle", target |-> None, override |-> None]
Active == {h \in Savers : admin[h].pc # "idle"}

\* The manager is in no reload and none is waiting for it.
Quiet ==
    /\ restart_target = None /\ restart_override_config_target = None
    /\ Active = {}
    /\ \/ manager.pc \in {"check", "flag", "target"}
       \/ manager.pc = "override" /\ manager.target = None

Init ==
    /\ SavesInit
    /\ restart_target = None
    /\ restart_override_config_target = None
    /\ load_complete = FALSE
    /\ clients \in Clients
    /\ remotetunnel \in clients.tunnels
    /\ files = Models \cup Configs
    /\ kcpp_instance = [state |-> "loading", args |-> OriginalArgs, loaded |-> FALSE]
    /\ manager = [pc |-> "check", target |-> None, override |-> None, recovery |-> FALSE]
    /\ admin = [h \in Savers |-> NoRequest]
    /\ accepted = NoReload

-----------------------------------------------------------------------------
(* The server process *)

\* The server is up; load_complete is only set in a server with a tunnel.
ServerLoads ==
    /\ kcpp_instance.state = "loading"
    /\ kcpp_instance' = [kcpp_instance EXCEPT !.state = "serving", !.loaded = TRUE]
    /\ load_complete' = (load_complete \/ remotetunnel)
    /\ LoadSaves
    /\ UNCHANGED <<restart_target, restart_override_config_target, setting, files, manager, admin, accepted>>

\* A model or a file of the new arguments is bad: the process exits.
LoadFails ==
    /\ kcpp_instance.state = "loading"
    /\ kcpp_instance.args # OriginalArgs
    /\ kcpp_instance' = [kcpp_instance EXCEPT !.state = "dead"]
    /\ UNCHANGED <<sharedVars, savesVars, setting, files, manager, admin, accepted>>

\* A crash of native code, or /api/extra/shutdown: all handlers are gone.
ServerDies ==
    /\ kcpp_instance.state = "serving"
    /\ kcpp_instance' = [kcpp_instance EXCEPT !.state = "dead"]
    /\ admin' = [h \in Savers |-> NoRequest]
    /\ LoseSaves
    /\ UNCHANGED <<sharedVars, setting, files, manager, accepted>>

RemoveFile(f) ==
    /\ Cardinality((Models \cup Configs) \ files) < clients.removals
    /\ files' = files \ {f}
    /\ UNCHANGED <<sharedVars, savesVars, setting, kcpp_instance, manager, admin, accepted>>

RemoveSaveFile ==
    /\ clients.loses
    /\ LoseFile
    /\ UNCHANGED <<sharedVars, setting, files, kcpp_instance, manager, admin, accepted>>

\* The handler finds the file of the request and starts to pass on what it
\* takes the request for.
AcceptReload(h, r) ==
    /\ kcpp_instance.state = "serving"
    /\ h \in clients.reloaders /\ r \in clients.requests
    /\ admin[h].pc = "idle" /\ saver[h].pc = "idle"
    /\ r.target \in files \cup {Unload}
    /\ admin' = [admin EXCEPT ![h] = [pc |-> IF r.target = Unload THEN "target" ELSE "reset",
                                      target |-> r.target, override |-> Taken(r).override]]
    /\ accepted' = IF accepted = NoReload /\ Quiet THEN Taken(r) ELSE Mixed
    /\ UNCHANGED <<sharedVars, savesVars, setting, files, kcpp_instance, manager>>

\* Mutant: the target is announced before its override.
ResetOverrideLate(h) ==
    /\ admin[h].pc = "reset"
    /\ restart_target' = admin[h].target
    /\ restart_override_config_target' = None
    /\ admin' = [admin EXCEPT ![h].pc = IF admin[h].override = None THEN "target" ELSE "override"]
    /\ UNCHANGED <<load_complete, savesVars, setting, files, kcpp_instance, manager, accepted>>

ResetOverride(h) ==
    /\ admin[h].pc = "reset"
    /\ restart_override_config_target' = None
    /\ admin' = [admin EXCEPT ![h].pc = IF admin[h].override = None THEN "target" ELSE "override"]
    /\ UNCHANGED <<restart_target, load_complete, savesVars, setting, files, kcpp_instance, manager, accepted>>

SetOverride(h) ==
    /\ admin[h].pc = "override"
    /\ restart_override_config_target' = admin[h].override
    /\ admin' = [admin EXCEPT ![h].pc = "target"]
    /\ UNCHANGED <<restart_target, load_complete, savesVars, setting, files, kcpp_instance, manager, accepted>>

SetTarget(h) ==
    /\ admin[h].pc = "target"
    /\ restart_target' = admin[h].target
    /\ admin' = [admin EXCEPT ![h] = IF @.target = Unload THEN [@ EXCEPT !.pc = "forget"] ELSE NoRequest]
    /\ UNCHANGED <<restart_override_config_target, load_complete, savesVars, setting, files,
                   kcpp_instance, manager, accepted>>

\* Of unload_model, which resets the override after it has set the target.
ForgetOverride(h) ==
    /\ admin[h].pc = "forget"
    /\ restart_override_config_target' = None
    /\ admin' = [admin EXCEPT ![h] = NoRequest]
    /\ UNCHANGED <<restart_target, load_complete, savesVars, setting, files, kcpp_instance, manager, accepted>>

AdminStep(h) == ResetOverride(h) \/ SetOverride(h) \/ SetTarget(h) \/ ForgetOverride(h)

SaveStory(h) ==
    /\ kcpp_instance.state = "serving"
    /\ h \in clients.savers
    /\ admin[h].pc = "idle"
    /\ SaveStep(h) \/ \E s \in clients.slots, story \in Stories \cup {Nothing} : PutStory(h, s, story)
    /\ UNCHANGED <<sharedVars, setting, files, kcpp_instance, manager, admin, accepted>>

-----------------------------------------------------------------------------
(* The manager process *)

\* A request is done with; accepted is clear again if no other one crossed it.
Settle ==
    accepted' = IF restart_target' = None /\ restart_override_config_target' = None /\ Active = {}
             THEN NoReload ELSE Mixed

CheckAlive ==
    /\ manager.pc = "check"
    /\ kcpp_instance.state # "dead"
    /\ manager' = [manager EXCEPT !.pc = "flag", !.target = None, !.override = None]
    /\ UNCHANGED <<sharedVars, savesVars, setting, files, kcpp_instance, admin, accepted>>

\* Mutant: the arguments that failed are kept.
RecoverAsBefore ==
    /\ manager.pc = "check"
    /\ kcpp_instance.state = "dead"
    /\ manager.recovery
    /\ kcpp_instance' = [kcpp_instance EXCEPT !.state = "loading", !.loaded = FALSE]
    /\ manager' = [manager EXCEPT !.pc = "drop target", !.target = None, !.override = None,
                                  !.recovery = FALSE]
    /\ UNCHANGED <<sharedVars, savesVars, setting, files, admin, accepted>>

\* fault_recovery_mode: launch the known-good arguments.
Recover ==
    /\ manager.pc = "check"
    /\ kcpp_instance.state = "dead"
    /\ manager.recovery
    /\ kcpp_instance' = [state |-> "loading", args |-> OriginalArgs, loaded |-> FALSE]
    /\ manager' = [manager EXCEPT !.pc = "drop target", !.target = None, !.override = None,
                                  !.recovery = FALSE]
    /\ UNCHANGED <<sharedVars, savesVars, setting, files, admin, accepted>>

\* The server has ended by itself, and so does the program.
Exit ==
    /\ manager.pc = "check"
    /\ kcpp_instance.state = "dead"
    /\ ~manager.recovery
    /\ manager' = [manager EXCEPT !.pc = "exited"]
    /\ accepted' = NoReload
    /\ UNCHANGED <<sharedVars, savesVars, setting, files, kcpp_instance, admin>>

\* The lines restart_target = "" and restart_override_config_target = "": after
\* a recovery, before a restart and after it.
DropTarget(from, to) ==
    /\ manager.pc = from
    /\ restart_target' = None
    /\ manager' = [manager EXCEPT !.pc = to]
    /\ UNCHANGED <<restart_override_config_target, load_complete, savesVars, setting, files,
                   kcpp_instance, admin, accepted>>

DropOverride(from, to) ==
    /\ manager.pc = from
    /\ restart_override_config_target' = None
    /\ manager' = [manager EXCEPT !.pc = to]
    /\ UNCHANGED restart_target
    /\ IF from = "clear override" THEN UNCHANGED accepted ELSE Settle
    /\ UNCHANGED <<load_complete, savesVars, setting, files, kcpp_instance, admin>>

\* Mutant: no request is read before the load is complete.
CheckFlagWaiting ==
    /\ manager.pc = "flag"
    /\ manager' = [manager EXCEPT !.pc = IF manager.recovery /\ ~load_complete THEN "check" ELSE "target",
                                  !.recovery = @ /\ ~load_complete]
    /\ UNCHANGED <<sharedVars, savesVars, setting, files, kcpp_instance, admin, accepted>>

CheckFlag ==
    /\ manager.pc = "flag"
    /\ manager' = [manager EXCEPT !.pc = "target", !.recovery = @ /\ ~load_complete]
    /\ UNCHANGED <<sharedVars, savesVars, setting, files, kcpp_instance, admin, accepted>>

ReadTarget ==
    /\ manager.pc = "target"
    /\ manager' = [manager EXCEPT !.pc = "override", !.target = restart_target]
    /\ UNCHANGED <<sharedVars, savesVars, setting, files, kcpp_instance, admin, accepted>>

ReadOverride ==
    /\ manager.pc = "override"
    /\ manager' = [manager EXCEPT !.pc = IF manager.target = None THEN "check" ELSE "clear target",
                                  !.override = restart_override_config_target]
    /\ UNCHANGED <<sharedVars, savesVars, setting, files, kcpp_instance, admin, accepted>>

\* Mutant: load_complete still holds what the old server set.
FindFilesStale ==
    /\ manager.pc = "restart"
    /\ IF {manager.target, manager.override} \subseteq files \cup {Unload, None}
       THEN /\ manager' = [manager EXCEPT !.pc = "kill"]
            /\ UNCHANGED accepted
       ELSE /\ manager' = [manager EXCEPT !.pc = "check"]
            /\ UNCHANGED sharedVars
            /\ Settle
    /\ UNCHANGED <<sharedVars, savesVars, setting, files, kcpp_instance, admin>>

\* After half a second: is there anything to load?
FindFiles ==
    /\ manager.pc = "restart"
    /\ IF {manager.target, manager.override} \subseteq files \cup {Unload, None}
       THEN /\ load_complete' = FALSE
            /\ manager' = [manager EXCEPT !.pc = "kill"]
            /\ UNCHANGED <<restart_target, restart_override_config_target, accepted>>
       ELSE /\ manager' = [manager EXCEPT !.pc = "check"]
            /\ UNCHANGED sharedVars
            /\ Settle
    /\ UNCHANGED <<savesVars, setting, files, kcpp_instance, admin>>

\* terminate() and join(): whatever the handlers are doing ends there.
Terminate ==
    /\ manager.pc = "kill"
    /\ kcpp_instance' = [kcpp_instance EXCEPT !.state = "dead"]
    /\ admin' = [h \in Savers |-> NoRequest]
    /\ LoseSaves
    /\ manager' = [manager EXCEPT !.pc = "launch", !.recovery = TRUE]
    /\ UNCHANGED <<sharedVars, setting, files, accepted>>

\* Mutant: the model and the settings are swapped.
NewArgsSwapped(old, r) == [model |-> r.override, settings |-> r.target]

\* reload_from_new_args and reload_new_config: a configuration that does not
\* parse leaves the arguments as they were.
NewArgs(old, r) ==
    CASE r.target = Unload -> [model |-> Unload, settings |-> Defaults]
      [] r.target \in Models /\ r.override = None -> [model |-> r.target, settings |-> Defaults]
      [] r.target \in Models /\ r.override # None ->
             [model |-> r.target, settings |-> IF r.override \in Broken THEN old.settings ELSE r.override]
      [] r.target \in Configs -> IF r.target \in Broken THEN old ELSE [model |-> r.target, settings |-> r.target]

\* The configuration that reload_new_config opens.
Opened == (IF manager.override # None THEN {manager.override} ELSE {manager.target}) \cap Configs

Launch ==
    /\ manager.pc = "launch"
    /\ Opened \subseteq files
    /\ kcpp_instance' = [state |-> "loading", loaded |-> FALSE,
                         args |-> NewArgs(kcpp_instance.args,
                                          [target |-> manager.target, override |-> manager.override])]
    /\ manager' = [manager EXCEPT !.pc = "drop target again"]
    /\ UNCHANGED <<sharedVars, savesVars, setting, files, admin, accepted>>

\* open() raises for a file that has gone, and nothing catches it.
LaunchRaises ==
    /\ manager.pc = "launch"
    /\ ~(Opened \subseteq files)
    /\ manager' = [manager EXCEPT !.pc = "raised"]
    /\ accepted' = NoReload
    /\ UNCHANGED <<sharedVars, savesVars, setting, files, kcpp_instance, admin>>

ManagerStep ==
    \/ CheckAlive \/ Recover \/ Exit
    \/ DropTarget("drop target", "drop override") \/ DropOverride("drop override", "flag")
    \/ CheckFlag \/ ReadTarget \/ ReadOverride
    \/ DropTarget("clear target", "clear override") \/ DropOverride("clear override", "restart")
    \/ FindFiles \/ Terminate \/ Launch \/ LaunchRaises
    \/ DropTarget("drop target again", "drop override again") \/ DropOverride("drop override again", "check")

Ended ==
    /\ manager.pc \in {"exited", "raised"}
    /\ UNCHANGED vars

Next ==
    \/ ManagerStep
    \/ ServerLoads \/ LoadFails \/ ServerDies
    \/ \E f \in files : RemoveFile(f)
    \/ RemoveSaveFile
    \/ \E h \in Savers : AdminStep(h) \/ SaveStory(h) \/ \E r \in Requests : AcceptReload(h, r)
    \/ Ended

\* The processes run, a load ends, a handler finishes what it writes.
Fairness ==
    /\ WF_vars(ManagerStep)
    /\ WF_vars(ServerLoads)
    /\ \A h \in Savers : WF_vars(AdminStep(h))

Spec == Init /\ [][Next]_vars /\ Fairness

-----------------------------------------------------------------------------
(* Properties *)

Args == [model : {Original, Unload} \cup Models \cup Configs, settings : {Original, Defaults} \cup Configs]
Targets == Models \cup Configs \cup {Unload, None}
Overrides == Configs \cup {None}

\* Every variable has its type, those of the saved stories included.
TypeOK ==
    /\ SavesType
    /\ restart_target \in Targets
    /\ restart_override_config_target \in Overrides
    /\ load_complete \in BOOLEAN
    /\ remotetunnel \in BOOLEAN
    /\ clients \in Clients
    /\ files \subseteq Models \cup Configs
    /\ kcpp_instance \in [state : {"loading", "serving", "dead"}, args : Args, loaded : BOOLEAN]
    /\ manager \in [pc : {"check", "flag", "target", "override", "clear target", "clear override", "restart",
                          "kill", "launch", "drop target again", "drop override again",
                          "drop target", "drop override", "exited", "raised"},
                    target : Targets, override : Overrides, recovery : BOOLEAN]
    /\ admin \in [Savers -> [pc : {"idle", "reset", "override", "target", "forget"},
                             target : Targets, override : Overrides]]
    /\ accepted \in Requests \cup {NoReload, Mixed}

\* The program ends only with a server that had come up, or with the original
\* one: a reload that does not load is no reason to end (the test of
\* fault_recovery_mode, set and cleared by the manager and by load_complete).
NeverDownByReload ==
    manager.pc = "exited" => kcpp_instance.loaded \/ kcpp_instance.args = OriginalArgs

\* What the manager is about to load is what one request was accepted for,
\* target and override together, unless requests overtook each other.
LoadsWhatWasAccepted ==
    /\ manager.pc \in {"clear target", "clear override", "restart", "kill", "launch"} => accepted # NoReload
    /\ manager.pc \in {"clear target", "clear override", "restart", "kill", "launch"} /\ accepted # Mixed =>
           accepted = [target |-> manager.target, override |-> manager.override]

\* A request that was accepted, with none crossing it, is acted on: the server
\* restarts with it, its file is gone, or the old server has died before.
AcceptedIsDone == accepted \in Requests ~> accepted \notin Requests

\* A server that failed to load is replaced by the original one, which serves.
FailedReloadRecovers ==
    (kcpp_instance.state = "dead" /\ ~kcpp_instance.loaded)
        ~> (kcpp_instance.state = "serving" /\ kcpp_instance.args = OriginalArgs)

\* "if a config reload fails, recover back to old settings": once the new
\* server has loaded, the manager's next look at load_complete ends the mode in
\* which the end of the server means that its load has failed.
LoadEndsRecovery ==
    [][manager.pc = "flag" /\ manager'.pc = "target" /\ kcpp_instance.loaded => ~manager'.recovery]_vars
=============================================================================
