--------------------------- MODULE AdminSupervisorMC ---------------------------
(* Instances of AdminSupervisor for TLC: the clients to explore. *)
EXTENDS AdminSupervisor

CONSTANTS h1, h2, s1, s2

To(target, override) == [target |-> target, override |-> override]

\* Two handlers of reload requests that overtake each other.
Impatient == [tunnels |-> BOOLEAN, reloaders |-> {h1, h2},
              requests |-> {To("m.gguf", "bad.kcpps"), To("unload_model", "")},
              savers |-> {}, slots |-> {}, removals |-> 0, loses |-> FALSE]

\* One client of reloads, of every kind; a file may vanish.
Patient == [Impatient EXCEPT !.reloaders = {h1}, !.requests = Requests, !.removals = 1]

\* Two handlers that save one story, in the middle of which the server reloads.
Authors == [tunnels |-> {FALSE}, reloaders |-> {h1}, requests |-> {To("m.gguf", "")},
            savers |-> {h1, h2}, slots |-> {s1}, removals |-> 0, loses |-> FALSE]

\* Two handlers that save two stories.
Crossing == [Authors EXCEPT !.reloaders = {}, !.slots = {s1, s2}]

\* The save file may vanish, under one handler and under two.
Careless == [Authors EXCEPT !.savers = {h1}, !.slots = {s1, s2}, !.loses = TRUE]
Removed == [Authors EXCEPT !.reloaders = {}, !.loses = TRUE]

SomeClients == {Impatient, Patient, Authors, Crossing, Careless, Removed}
=============================================================================
