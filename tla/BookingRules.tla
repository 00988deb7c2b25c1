---------------------------- MODULE BookingRules ----------------------------
(***************************************************************************)
(* The booking rules that are pure data in the code: the statuses of a     *)
(* booking, the allow-list of transitions, who may ask for which target,   *)
(* and the message a transition announces.  "ABSENT" is not a status of    *)
(* the code: it stands for "there is no row yet".                          *)
(***************************************************************************)

\* NON_TERMINAL_STATUSES: the statuses a booking can still leave.
LiveStatuses ==
    {"PENDING", "OPEN_FOR_CLAIM", "CLAIMED", "ASSIGNED",
     "DRIVER_EN_ROUTE", "IN_PROGRESS"}

Statuses ==
    LiveStatuses \cup {"COMPLETED", "CANCELLED", "NO_SHOW", "FAILED"}

\* isTerminalStatus
IsTerminalStatus(s) == s \in Statuses \ LiveStatuses

\* ALLOWED_TRANSITIONS, as a relation.
AllowedTransitions ==
    ({"PENDING"} \X {"ASSIGNED", "OPEN_FOR_CLAIM", "CANCELLED"})
    \cup ({"OPEN_FOR_CLAIM"} \X {"CLAIMED", "CANCELLED"})
    \cup ({"CLAIMED"} \X {"ASSIGNED", "CANCELLED"})
    \cup ({"ASSIGNED"} \X {"DRIVER_EN_ROUTE", "CANCELLED"})
    \cup ({"DRIVER_EN_ROUTE"} \X {"IN_PROGRESS", "NO_SHOW"})
    \cup ({"IN_PROGRESS"} \X {"COMPLETED", "FAILED"})

\* canTransition
CanTransition(from, to) == <<from, to>> \in AllowedTransitions

\* staffTransitionStatuses: targets of the generic staff action.
StaffTargets ==
    {"OPEN_FOR_CLAIM", "DRIVER_EN_ROUTE", "IN_PROGRESS", "COMPLETED",
     "FAILED", "NO_SHOW"}

\* DRIVER_ALLOWED_TARGETS: targets of the driver action and of the REST route.
DriverAllowedTargets ==
    {"DRIVER_EN_ROUTE", "IN_PROGRESS", "COMPLETED", "NO_SHOW"}

\* TRANSITION_TEMPLATES and the rule that every cancellation is announced.
AnnouncedTransitions ==
    {<<"OPEN_FOR_CLAIM", "CLAIMED">>, <<"PENDING", "ASSIGNED">>,
     <<"CLAIMED", "ASSIGNED">>, <<"ASSIGNED", "DRIVER_EN_ROUTE">>,
     <<"DRIVER_EN_ROUTE", "IN_PROGRESS">>, <<"IN_PROGRESS", "COMPLETED">>}

\* templateIdForTransition # null
HasTemplate(from, to) ==
    to = "CANCELLED" \/ <<from, to>> \in AnnouncedTransitions

DispatchModes == {"MANUAL", "CLAIM", "HYBRID"}
=============================================================================
