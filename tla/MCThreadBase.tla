---------------------------- MODULE MCThreadBase ----------------------------
(* ThreadBase for TLC, with its refinement of the abstract join. *)
EXTENDS ThreadBase

(* What there is of the service, and what its user has been told. *)
Service ==
  CASE thread = "none" -> IF owner \in {"created", "spawned", "test", "sleep"}
                          THEN "never" ELSE "none"
    [] thread = "svc"  -> "running"
    [] OTHER -> IF owner \in {"joined", "destroyed"} THEN "none" ELSE "done"

User == IF owner \in {"spawned", "test", "sleep"} THEN "spawned" ELSE "idle"

Join == INSTANCE ThreadJoin WITH service <- Service, user <- User

(* Neither the mutex protocol of spawn() and wait() nor spurious wakeups show *)
(* to the owner: svc() is started once, and wait() returns after it has.      *)
ImplementsJoin == Join!FairSpec
=============================================================================
