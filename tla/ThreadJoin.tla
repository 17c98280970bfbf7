----------------------------- MODULE ThreadJoin -----------------------------
(***************************************************************************)
(* What ThreadBase promises its users: spawn() starts svc() once, and      *)
(* wait() returns only when svc() has.  No mutex, no condition variable.   *)
(* What it does not promise is to notice that the thread was not created:  *)
(* then wait() never returns.                                              *)
(***************************************************************************)
VARIABLES
  service,  \* "none", "running", "done", or "never" (not created)
  user      \* what spawn() and wait() have told the user

vars == <<service, user>>

Init == service = "none" /\ user = "idle"

(* spawn(): svc() runs, and may even have returned, before spawn() does. *)
Begin ==
  /\ user = "idle" /\ service = "none"
  /\ service' = "running"
  /\ UNCHANGED user

NotBegun ==
  /\ user = "idle" /\ service = "none"
  /\ service' = "never"
  /\ UNCHANGED user

Spawned ==
  /\ user = "idle" /\ service # "none"
  /\ user' = "spawned"
  /\ UNCHANGED service

Finish ==
  /\ service = "running"
  /\ service' = "done"
  /\ UNCHANGED user

(* wait() returns, and the object can be used for another thread. *)
Join ==
  /\ user = "spawned" /\ service = "done"
  /\ user' = "idle"
  /\ service' = "none"

Next == Begin \/ NotBegun \/ Spawned \/ Finish \/ Join

Spec == Init /\ [][Next]_vars

(* A service that was started returns: every wait() returns. *)
FairSpec == Spec /\ WF_vars(Spawned) /\ WF_vars(Finish) /\ WF_vars(Join)
=============================================================================
