-------------------------- MODULE ProcessLifecycle --------------------------
(***************************************************************************)
(* What the scheduler promises about the life of a process, without its    *)
(* queues: exactly one process runs; a process that dies or blocks hands   *)
(* the processor to a ready one; only ready processes are killed; a dead   *)
(* process is collected at most once and never comes back.  There is no    *)
(* way out of "blocked": no path of the code makes a blocked process       *)
(* ready again.                                                            *)
(***************************************************************************)
CONSTANTS Proc, Idle

VARIABLE status

Statuses == {"absent", "ready", "running", "blocked", "dead", "collected"}

LifeInit == status = [p \in Proc |-> IF p = Idle THEN "running" ELSE "absent"]

\* The running process r becomes what it becomes, the ready q runs; s is the
\* status of the processes once the other effects of the step are done.
Switch(s, r, what, q) ==
  /\ s[q] = "ready"
  /\ status' = [s EXCEPT ![r] = what, ![q] = "running"]

Create(c) ==
  /\ status[c] = "absent"
  /\ status' = [status EXCEPT ![c] = "ready"]

CreateAndSwitch(c, r, q) ==
  /\ status[c] = "absent"
  /\ Switch([status EXCEPT ![c] = "ready"], r, "ready", q)

Yield(r, q) == Switch(status, r, "ready", q)

Die(r, q) == r # Idle /\ Switch(status, r, "dead", q)

Block(r, q) == r # Idle /\ Switch(status, r, "blocked", q)

KillAndSwitch(k, r, q) ==
  /\ k # Idle
  /\ status[k] = "ready"
  /\ Switch([status EXCEPT ![k] = "dead"], r, "ready", q)

Collect(k) ==
  /\ status[k] = "dead"
  /\ status' = [status EXCEPT ![k] = "collected"]

LifeNext ==
  \E r \in Proc :
    /\ status[r] = "running"
    /\ \/ \E c \in Proc : Create(c) \/ Collect(c)
       \/ \E q \in Proc : Yield(r, q) \/ Die(r, q) \/ Block(r, q)
       \/ \E c, q \in Proc : CreateAndSwitch(c, r, q) \/ KillAndSwitch(c, r, q)

\* A step changes no status or is one of these (in this order, so that TLC
\* need not look for one of these in a step that changes nothing).
LifeStep == status' = status \/ LifeNext

LifeSpec == LifeInit /\ [][LifeStep]_status
=============================================================================
