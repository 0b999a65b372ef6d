-------------------------- MODULE RemoteOperation --------------------------
(***************************************************************************)
(* What Session promises the caller of an acknowledged request: it ends,   *)
(* and it ends with a result only if the router granted that very request, *)
(* with an application error only if the router refused it.  The caller    *)
(* may give up at any time, and the router may decide after that.          *)
(***************************************************************************)
CONSTANT Requests

VARIABLES
  status,    \* status[o]: "idle", "pending", "ok", "error" or "gaveup"
  verdict    \* verdict[o]: the router's: "none", "granted" or "refused"

vars == <<status, verdict>>

TypeOK ==
  /\ status \in [Requests -> {"idle", "pending", "ok", "error", "gaveup"}]
  /\ verdict \in [Requests -> {"none", "granted", "refused"}]

Init ==
  /\ status = [o \in Requests |-> "idle"]
  /\ verdict = [o \in Requests |-> "none"]

Becomes(o, from, to) ==
  /\ status[o] = from
  /\ status' = [status EXCEPT ![o] = to]
  /\ UNCHANGED verdict

Issue(o) == Becomes(o, "idle", "pending")

Decide(o) ==
  /\ status[o] # "idle" /\ verdict[o] = "none"
  /\ \E v \in {"granted", "refused"} : verdict' = [verdict EXCEPT ![o] = v]
  /\ UNCHANGED status

Return(o) ==
  \/ verdict[o] = "granted" /\ Becomes(o, "pending", "ok")
  \/ verdict[o] = "refused" /\ Becomes(o, "pending", "error")

GiveUp(o) == Becomes(o, "pending", "gaveup")

Next == \E o \in Requests : Issue(o) \/ Decide(o) \/ Return(o) \/ GiveUp(o)

SafeSpec == Init /\ [][Next]_vars

Spec == SafeSpec /\ \A o \in Requests : WF_vars(Return(o) \/ GiveUp(o))

=============================================================================
