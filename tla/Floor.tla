-------------------------------- MODULE Floor --------------------------------
(***************************************************************************)
(* What the reflector promises about its one half-duplex channel (the      *)
(* Floor state diagram of docs/architecture.md, section 4): at most one    *)
(* holder at a time, a grant becomes active before it ends, every hold     *)
(* ends, and once the channel is closed for shutdown nobody gets it again. *)
(* Engine is shown to implement this module.                               *)
(***************************************************************************)
CONSTANTS Holders,   \* who may hold the floor: an owner and its stream
          NoOne

VARIABLES holder,    \* the holder, or NoOne
          phase,     \* "idle", "granted" or "active"
          open       \* FALSE once shutdown began

vars == <<holder, phase, open>>

Init == holder = NoOne /\ phase = "idle" /\ open = TRUE

Grant(h) ==
    /\ open
    /\ phase = "idle"
    /\ holder' = h
    /\ phase' = "granted"
    /\ UNCHANGED open

Activate ==
    /\ phase = "granted"
    /\ phase' = "active"
    /\ UNCHANGED <<holder, open>>

Release ==
    /\ phase # "idle"
    /\ holder' = NoOne
    /\ phase' = "idle"
    /\ UNCHANGED open

Close ==
    /\ open
    /\ holder' = NoOne
    /\ phase' = "idle"
    /\ open' = FALSE

Next == (\E h \in Holders : Grant(h)) \/ Activate \/ Release \/ Close

Safety == Init /\ [][Next]_vars

Spec == Safety /\ WF_vars(Release)
=============================================================================
