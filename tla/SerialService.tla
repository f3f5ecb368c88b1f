---------------------------- MODULE SerialService ----------------------------
(***************************************************************************)
(* What the server promises of its model: the requests of several clients  *)
(* are queued and handled in sequence. Somebody may hold the model; only   *)
(* the holder runs it, and it is given up only when it is not running.     *)
(***************************************************************************)
CONSTANTS Clients, Nobody

VARIABLES holder,  \* the client whose turn it is, or Nobody
          phase    \* where each client is

vars == <<holder, phase>>

Phases == {"away", "waiting", "granted", "running"}

Init ==
    /\ holder = Nobody
    /\ phase = [c \in Clients |-> "away"]

Move(c, from, to) ==
    /\ phase[c] = from
    /\ phase' = [phase EXCEPT ![c] = to]

Ask(c) == Move(c, "away", "waiting") /\ UNCHANGED holder

Refuse(c) == Move(c, "waiting", "away") /\ UNCHANGED holder

Grant(c) ==
    /\ holder = Nobody
    /\ Move(c, "waiting", "granted")
    /\ holder' = c

Run(c) == Move(c, "granted", "running") /\ UNCHANGED holder

Return(c) == Move(c, "running", "granted") /\ UNCHANGED holder

GiveUp(c) == Move(c, "granted", "away") /\ holder' = Nobody

Next == \E c \in Clients : \/ Ask(c) \/ Refuse(c) \/ Grant(c)
                           \/ Run(c) \/ Return(c) \/ GiveUp(c)

Spec == Init /\ [][Next]_vars
=============================================================================
