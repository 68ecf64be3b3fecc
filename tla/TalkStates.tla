------------------------------ MODULE TalkStates ------------------------------
(***************************************************************************)
(* The statuses of a talk (app/consts.py) and the table of transitions     *)
(* that advance() consults (app/states.py).  Every other module of the     *)
(* project reads the life cycle of a talk from here.                       *)
(***************************************************************************)

TalkStatus ==
  { "waiting_for_files", "detecting", "pending_approval",
    "pending_intro_outro", "pending_bounds", "cutting",
    "generating_previews", "preview", "needs_work", "assembling",
    "transcoding", "uploading", "done", "rejected", "broken" }

\* The edges of the TRANSITIONS dictionary.
Transitions ==
  { <<"waiting_for_files", "detecting">>,
    <<"waiting_for_files", "broken">>,
    <<"detecting", "pending_approval">>,
    <<"detecting", "broken">>,
    <<"pending_approval", "pending_intro_outro">>,
    <<"pending_approval", "pending_bounds">>,
    <<"pending_approval", "rejected">>,
    <<"pending_approval", "broken">>,
    <<"pending_intro_outro", "pending_bounds">>,
    <<"pending_intro_outro", "assembling">>,
    <<"pending_intro_outro", "broken">>,
    <<"pending_bounds", "cutting">>,
    <<"pending_bounds", "broken">>,
    <<"cutting", "generating_previews">>,
    <<"cutting", "broken">>,
    <<"generating_previews", "preview">>,
    <<"generating_previews", "broken">>,
    <<"preview", "assembling">>,
    <<"preview", "pending_intro_outro">>,
    <<"preview", "needs_work">>,
    <<"preview", "pending_bounds">>,
    <<"preview", "rejected">>,
    <<"preview", "broken">>,
    <<"assembling", "transcoding">>,
    <<"assembling", "broken">>,
    <<"transcoding", "uploading">>,
    <<"transcoding", "broken">>,
    <<"uploading", "done">>,
    <<"uploading", "broken">>,
    <<"needs_work", "cutting">>,
    <<"needs_work", "broken">> }

\* advance() accepts the move; otherwise it raises InvalidTransitionError.
CanAdvance(current, new) == <<current, new>> \in Transitions

\* The statuses a failing job leaves alone (_handle_failure).
FailureExempt == { "waiting_for_files", "broken", "done", "rejected" }

\* What _handle_failure leaves in the status column.
AfterFailure(current) == IF current \in FailureExempt THEN current ELSE "broken"

\* The statuses in which only a background job can move the talk on.
Processing ==
  { "detecting", "cutting", "generating_previews", "assembling",
    "transcoding", "uploading" }
===============================================================================
