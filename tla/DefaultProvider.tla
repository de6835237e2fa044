---------------------------- MODULE DefaultProvider ----------------------------
(***************************************************************************)
(* What automatic failover promises about the global default provider, as  *)
(* the admin page and the event list show it, without requests, quarantine *)
(* or locks: every request that is not pinned to a provider has one to go  *)
(* to while any is enabled; between two saves of the configuration the     *)
(* default moves only by a switch away from the present default to an      *)
(* enabled provider; a save moves it only when it is about the default or  *)
(* enables a provider; and the event list says of each switch, truthfully  *)
(* and before the next one, unless the process ends first.  Failover       *)
(* implements it.                                                          *)
(***************************************************************************)
EXTENDS Naturals

CONSTANTS Providers, Nobody

VARIABLES usable,   \* the providers that exist and are enabled
          order,    \* all providers in the order of the admin page
          default,  \* the effective default provider, or Nobody
          edits,    \* how often the admin saved the configuration
          event,    \* the row the last step added to the event list
          untold,   \* the switch that has happened and has no row yet
          running   \* whether the process runs

configured == <<usable, order, default, edits>>
defaultVars == <<configured, event, untold, running>>

Row(outcome, reason, from, to) ==
    [outcome |-> outcome, reason |-> reason, from |-> from, to |-> to]
NoEvent == Row("none", "none", Nobody, Nobody)
Notes == {Row(o, r, p, Nobody) : o \in {"exhausted", "recovered"},
              r \in {"failure", "quota_exhausted", "credential_invalid"}, p \in Providers}

HasDefault(some, one) == IF some = {} THEN one = Nobody ELSE one \in some

DefaultInit ==
    /\ usable \in SUBSET Providers
    /\ HasDefault(usable, default)
    /\ edits = 0
    /\ event = NoEvent /\ untold = NoEvent
    /\ running = TRUE

\* The admin takes the default away, or has none, or leaves the list as it is
\* and chooses another or enables one.
Save ==
    /\ running
    /\ usable' \in SUBSET Providers
    /\ HasDefault(usable', default')
    /\ \/ default' = default
       \/ default \notin usable'
       \/ order' = order /\ (usable' = usable \/ default' \in usable' \ usable)
    /\ edits' = edits + 1
    /\ event' = NoEvent
    /\ UNCHANGED <<untold, running>>

Switch ==
    /\ running
    /\ untold = NoEvent
    /\ \E to \in usable \ {default} :
         /\ default' = to
         /\ untold' = Row("switched", "failure", default, to)
    /\ event' = NoEvent
    /\ UNCHANGED <<usable, order, edits, running>>

Tell ==
    /\ running
    /\ untold # NoEvent
    /\ event' = untold
    /\ untold' = NoEvent
    /\ UNCHANGED <<configured, running>>

\* Rows that are not about the default, one at a time, none while a switch is untold.
Note ==
    /\ running
    /\ untold = NoEvent
    /\ event' \in Notes
    /\ UNCHANGED <<configured, untold, running>>

Quiet == event' = NoEvent /\ UNCHANGED <<configured, untold, running>>

EndProcess ==
    /\ running
    /\ running' = FALSE
    /\ untold' = NoEvent
    /\ event' = NoEvent
    /\ UNCHANGED configured

StartProcess ==
    /\ ~ running
    /\ running' = TRUE
    /\ event' = NoEvent
    /\ UNCHANGED <<configured, untold>>

DefaultNext == Save \/ Switch \/ Tell \/ Note \/ Quiet \/ EndProcess \/ StartProcess

DefaultSpec == DefaultInit /\ [][DefaultNext]_defaultVars
===============================================================================
