----------------------------- MODULE JobContract -----------------------------
(***************************************************************************)
(* What the worker pool promises to the callers of Submit, without its      *)
(* channel, its workers and its WaitGroups. A job is refused at once, or    *)
(* its function runs at most once; the caller is given what the function    *)
(* returned, or nothing at all when the job was lost. No function returns   *)
(* an answer once Stop has returned.                                        *)
(***************************************************************************)
CONSTANTS
  Jobs,
  Answers,
  NoAnswer

VARIABLES
  fate,      \* what has become of each job
  answer,    \* what the function of the job returned
  given,     \* what the caller of the job was given
  stopped    \* Stop has returned

contractVars == <<fate, answer, given, stopped>>

Init ==
  /\ fate = [j \in Jobs |-> "fresh"]
  /\ answer = [j \in Jobs |-> NoAnswer]
  /\ given = [j \in Jobs |-> NoAnswer]
  /\ stopped = FALSE

Submit(j) ==
  /\ fate[j] = "fresh"
  /\ \E f \in {"pending", "refused"} : fate' = [fate EXCEPT ![j] = f]
  /\ UNCHANGED <<answer, given, stopped>>

Run(j) ==
  /\ fate[j] = "pending"
  /\ ~stopped
  /\ fate' = [fate EXCEPT ![j] = "answered"]
  /\ \E a \in Answers : answer' = [answer EXCEPT ![j] = a]
  /\ UNCHANGED <<given, stopped>>

Lose(j) ==
  /\ fate[j] = "pending"
  /\ fate' = [fate EXCEPT ![j] = "lost"]
  /\ UNCHANGED <<answer, given, stopped>>

Give(j) ==
  /\ fate[j] \in {"answered", "lost"}
  /\ fate' = [fate EXCEPT ![j] = "over"]
  /\ given' = [given EXCEPT ![j] = answer[j]]
  /\ UNCHANGED <<answer, stopped>>

StopReturned ==
  /\ ~stopped
  /\ stopped' = TRUE
  /\ UNCHANGED <<fate, answer, given>>

Next ==
  \/ StopReturned
  \/ \E j \in Jobs : Submit(j) \/ Run(j) \/ Lose(j) \/ Give(j)

Spec == Init /\ [][Next]_contractVars
=============================================================================
