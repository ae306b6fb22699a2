------------------------------ MODULE Lifecycle ------------------------------
(***************************************************************************)
(* The reservation state machine of model.cpp: which states own spectrum,  *)
(* which are final, and the table of legal transitions that every          *)
(* advanceState call in the runtime consults.                              *)
(***************************************************************************)

\* Enumerators of ReservationState.
LifecycleState ==
  {"None", "Requested", "Evaluated", "Committing", "Reserved", "Activating",
   "Active", "Deactivating", "Renewing", "Releasing", "Reclaiming",
   "Recovering", "Released", "Expired", "Reclaimed", "Superseded", "Refused",
   "Retired"}

\* States in which a reservation can own spectrum while its lease is valid.
IsLiveState(s) ==
  s \in {"Reserved", "Activating", "Active", "Deactivating", "Renewing",
         "Releasing", "Reclaiming"}

\* States whose record is spent and may be pruned. Expired is not among them.
IsTerminalState(s) ==
  s \in {"Released", "Reclaimed", "Superseded", "Refused", "Retired"}

\* The states that survive the end of a public call: the others are entered
\* and left again under one hold of the runtime mutex. Refused, Retired and
\* Recovering are never assigned to a record of the table.
SettledState ==
  {"None", "Reserved", "Active", "Expired", "Released", "Reclaimed",
   "Superseded"}

\* transitionAllowed, as the set of targets of each source state.
Targets(from) ==
  CASE from = "None"         -> {"Requested"}
    [] from = "Requested"    -> {"Evaluated", "Refused"}
    [] from = "Evaluated"    -> {"Committing", "Refused"}
    [] from = "Committing"   -> {"Reserved", "Refused"}
    [] from = "Reserved"     -> {"Activating", "Renewing", "Releasing",
                                 "Reclaiming", "Expired", "Superseded"}
    [] from = "Activating"   -> {"Active", "Reserved", "Reclaiming"}
    [] from = "Active"       -> {"Deactivating", "Renewing", "Releasing",
                                 "Reclaiming", "Expired", "Superseded"}
    [] from = "Deactivating" -> {"Reserved", "Active", "Releasing", "Reclaiming"}
    [] from = "Renewing"     -> {"Reserved", "Active", "Expired", "Reclaiming"}
    [] from = "Releasing"    -> {"Released"}
    [] from = "Reclaiming"   -> {"Reclaimed"}
    [] from = "Expired"      -> {"Reclaiming", "Reclaimed"}
    [] from = "Recovering"   -> {"Reserved", "Expired", "Reclaiming"}
    [] OTHER                 -> {}

TransitionAllowed(from, to) == to \in Targets(from)

\* Two advanceState calls in a row, both of which must be legal.
CanPass(from, via, to) == TransitionAllowed(from, via) /\ TransitionAllowed(via, to)
=============================================================================
