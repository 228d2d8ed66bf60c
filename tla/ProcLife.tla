------------------------------ MODULE ProcLife ------------------------------
(***************************************************************************)
(* What the process table promises the programs that run on it, by pid and *)
(* without slots, channels or the hart: a pid names one process ever; a    *)
(* process lives, exits once, and is collected once, by the process that   *)
(* is responsible for it at that moment: its parent, or init when the      *)
(* parent has exited.                                                      *)
(***************************************************************************)
CONSTANTS
  Pids,       \* the pids that can be handed out
  InitPid,    \* the pid of init, which never exits
  NoPid       \* nobody

VARIABLES
  status,     \* of each pid: unborn, live, zombie or gone
  guardian,   \* the process responsible for collecting it, or NoPid
  actor       \* the process that runs, or NoPid

lifeVars == <<status, guardian, actor>>

Init ==
  /\ status = [k \in Pids |-> IF k = InitPid THEN "live" ELSE "unborn"]
  /\ guardian = [k \in Pids |-> NoPid]
  /\ actor = NoPid

\* p forks c.
Birth(p, c) ==
  /\ actor = p /\ status[p] = "live" /\ status[c] = "unborn"
  /\ status' = [status EXCEPT ![c] = "live"]
  /\ guardian' = [guardian EXCEPT ![c] = p]

\* A fork that fails after it took its pid.
Stillbirth(c) ==
  /\ status[c] = "unborn"
  /\ status' = [status EXCEPT ![c] = "gone"]
  /\ UNCHANGED guardian

\* p exits; init becomes responsible for those p was responsible for.
Death(p) ==
  /\ actor = p /\ status[p] = "live" /\ p # InitPid
  /\ status' = [status EXCEPT ![p] = "zombie"]
  /\ guardian' = [k \in Pids |-> IF guardian[k] = p THEN InitPid ELSE guardian[k]]

\* p collects c.
Collect(p, c) ==
  /\ actor = p /\ status[p] = "live" /\ status[c] = "zombie" /\ guardian[c] = p
  /\ status' = [status EXCEPT ![c] = "gone"]
  /\ guardian' = [guardian EXCEPT ![c] = NoPid]

\* Somebody else runs, whenever it likes.
Switch == UNCHANGED <<status, guardian>>

Next ==
  /\ actor' \in Pids \cup {NoPid}
  /\ \/ Switch
     \/ \E p \in Pids :
          \/ Death(p)
          \/ Stillbirth(p)
          \/ \E c \in Pids : Birth(p, c) \/ Collect(p, c)

Spec == Init /\ [][Next]_lifeVars
=============================================================================
