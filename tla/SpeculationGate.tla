--------------------------- MODULE SpeculationGate ---------------------------
(***************************************************************************)
(* What the speculative-work scheduler promises its callers, with no       *)
(* semaphore, event or queue in sight: at most Limit speculative model     *)
(* calls run at once, and none STARTS while a live (critical-path) call is *)
(* in progress.  A live call is never held back by a speculative one.      *)
(*                                                                         *)
(* Scheduler.tla is the detailed specification; its theorem ImplementsGate *)
(* shows that it implements this one.                                      *)
(***************************************************************************)
EXTENDS Integers, FiniteSets

CONSTANTS
    LiveCalls,   \* callers of critical_path (classification, live replies)
    SpecCalls,   \* callers of speculative_slot (pre-drafted replies)
    Limit        \* how many speculative calls may run at once

VARIABLES
    live,        \* the live calls in progress
    calling      \* the speculative calls in progress

gateVars == <<live, calling>>

GateInit == live = {} /\ calling = {}

EnterLive(c) ==
    /\ c \notin live
    /\ live' = live \cup {c}
    /\ UNCHANGED calling

ExitLive(c) ==
    /\ c \in live
    /\ live' = live \ {c}
    /\ UNCHANGED calling

StartSpeculative(s) ==
    /\ s \notin calling
    /\ live = {}
    /\ Cardinality(calling) < Limit
    /\ calling' = calling \cup {s}
    /\ UNCHANGED live

EndSpeculative(s) ==
    /\ s \in calling
    /\ calling' = calling \ {s}
    /\ UNCHANGED live

GateNext ==
    \/ \E c \in LiveCalls : EnterLive(c) \/ ExitLive(c)
    \/ \E s \in SpecCalls : StartSpeculative(s) \/ EndSpeculative(s)

GateSpec == GateInit /\ [][GateNext]_gateVars
=============================================================================
