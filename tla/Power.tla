------------------------------- MODULE Power -------------------------------
(***************************************************************************)
(* Restart and power off.  Threads of several CPUs ask at the same time;   *)
(* the firmware call or the watchdog of the Pi takes the system down at    *)
(* some time or never does, and then the caller goes on with an error.     *)
(***************************************************************************)
EXTENDS Integers, FiniteSets

CONSTANTS
  Callers,       \* CPUs whose threads call reboot
  Word,          \* 2^32: the width of the raw arguments
  MAGIC1, MAGIC2, RESTART, POWER_OFF,   \* accepted values
  Arguments,     \* tuples magic, magic2, command that are passed
  Statuses,      \* initial values of the watchdog's registers: [rsts, config]
  None

VARIABLES
  backend,       \* "psci" or "pi"
  RSTS,          \* [halt, other]: the firmware halt flag, and the other bits
  RSTC,          \* the reset configuration field
  WDOG,          \* the watchdog counts
  CLAIMED,
  system,        \* "up", or what became of it: "restarted", "off"
  step, operation, saved, result   \* of each caller

regs == <<RSTS, RSTC, WDOG>>
caller == <<step, operation, saved, result>>
vars == <<backend, regs, CLAIMED, system, caller>>

\* parse_linux_reboot: the low words decide.
parse_linux_reboot(magic, magic2, command) ==
  IF magic % Word # MAGIC1 \/ magic2 % Word \notin MAGIC2 THEN None
  ELSE IF command % Word = RESTART THEN "restarted"
  ELSE IF command % Word = POWER_OFF THEN "off" ELSE None

\* power_result and backend_errno.
backend_errno(status) == CASE status = "not supported" -> "ENOTSUP" [] status = "denied" -> "EPERM" [] OTHER -> "EIO"

Init ==
  /\ backend \in {"psci", "pi"}
  /\ \E s \in Statuses : RSTS = s.rsts /\ RSTC = s.config
  /\ WDOG = FALSE /\ CLAIMED = FALSE /\ system = "up"
  /\ step = [k \in Callers |-> "user"] /\ operation = [k \in Callers |-> None]
  /\ saved = [k \in Callers |-> None] /\ result = [k \in Callers |-> None]

at(k, s) == system = "up" /\ step[k] = s
go(k, s) == step' = [step EXCEPT ![k] = s]
fail(k, errno) == go(k, "user") /\ result' = [result EXCEPT ![k] = errno]

\* sys_reboot, as far as the backend.
Reboot(k, a) ==
  LET o == parse_linux_reboot(a.magic, a.magic2, a.command) IN
  /\ at(k, "user") /\ operation' = [operation EXCEPT ![k] = o]
  /\ IF o = None THEN fail(k, "EINVAL")
     ELSE go(k, IF backend = "psci" THEN "firmware" ELSE "claim") /\ UNCHANGED result
  /\ UNCHANGED <<backend, regs, CLAIMED, system, saved>>

\* The firmware obeys, or returns a status; without a conduit nothing is called.
Psci(k, status) ==
  /\ at(k, "firmware")
  /\ IF status = "success" THEN system' = operation[k] /\ UNCHANGED <<step, result>>
     ELSE fail(k, backend_errno(status)) /\ UNCHANGED system
  /\ UNCHANGED <<backend, regs, CLAIMED, operation, saved>>

----------------------------------------------------------------------------
(* pi_power::request.                                                      *)

ClaimAnyway(k) ==
  /\ at(k, "claim") /\ CLAIMED' = TRUE /\ go(k, "status")
  /\ UNCHANGED <<backend, regs, system, operation, saved, result>>
Claim(k) ==
  /\ at(k, "claim")
  /\ IF CLAIMED THEN fail(k, backend_errno("denied")) /\ UNCHANGED CLAIMED
     ELSE CLAIMED' = TRUE /\ go(k, "status") /\ UNCHANGED result
  /\ UNCHANGED <<backend, regs, system, operation, saved>>

ReadStatus(k) ==
  /\ at(k, "status") /\ saved' = [saved EXCEPT ![k] = [rsts |-> RSTS, config |-> None]]
  /\ go(k, IF operation[k] = "off" THEN "halt" ELSE "control")
  /\ UNCHANGED <<backend, regs, CLAIMED, system, operation, result>>
ArmHalt(k) ==
  /\ at(k, "halt") /\ RSTS' = [RSTS EXCEPT !.halt = TRUE] /\ go(k, "control")
  /\ UNCHANGED <<backend, RSTC, WDOG, CLAIMED, system, operation, saved, result>>
ArmWatchdog(k) ==
  /\ at(k, "control") /\ saved' = [saved EXCEPT ![k].config = RSTC]
  /\ WDOG' = TRUE /\ go(k, "arm")
  /\ UNCHANGED <<backend, RSTS, RSTC, CLAIMED, system, operation, result>>
ArmReset(k) ==
  /\ at(k, "arm") /\ RSTC' = "full" /\ go(k, "wait")
  /\ UNCHANGED <<backend, RSTS, WDOG, CLAIMED, system, operation, saved, result>>

\* The hardware resets the board, and the firmware boots it or stops.
WatchdogFires ==
  /\ system = "up" /\ WDOG /\ RSTC = "full"
  /\ system' = IF RSTS.halt THEN "off" ELSE "restarted"
  /\ UNCHANGED <<backend, regs, CLAIMED, caller>>

\* 10 ms pass without a reset: the configuration is cleared and the status restored.
Disarm(k) ==
  /\ at(k, "wait") /\ RSTC' = "none" /\ go(k, "restore")
  /\ UNCHANGED <<backend, RSTS, WDOG, CLAIMED, system, operation, saved, result>>
RestoreStatus(k) ==
  /\ at(k, "restore") /\ RSTS' = saved[k].rsts /\ go(k, "release")
  /\ UNCHANGED <<backend, RSTC, WDOG, CLAIMED, system, operation, saved, result>>
Release(k) ==
  /\ at(k, "release") /\ CLAIMED' = FALSE /\ fail(k, backend_errno("failed"))
  /\ UNCHANGED <<backend, regs, system, operation, saved>>

Next ==
  \/ \E k \in Callers, a \in Arguments : Reboot(k, a)
  \/ \E k \in Callers, status \in {"success", "not supported", "denied", "failed"} : Psci(k, status)
  \/ \E k \in Callers :
       Claim(k) \/ ReadStatus(k) \/ ArmHalt(k) \/ ArmWatchdog(k) \/ ArmReset(k) \/ Disarm(k) \/ RestoreStatus(k) \/ Release(k)
  \/ WatchdogFires
Spec == Init /\ [][Next]_vars

----------------------------------------------------------------------------
(* Properties.                                                             *)

\* When the system goes down it goes the way a caller that is still waiting asked for:
\* concurrent requests do not turn a restart into a halt.
EndsAsAsked ==
  system # "up" =>
    \E k \in Callers : step[k] \in {"firmware", "wait"} /\ operation[k] = system

\* A request that failed leaves no reset armed and no halt flag behind, whatever other
\* requests ran meanwhile.
NoLatentReset ==
  (\A k \in Callers : step[k] \in {"user", "claim"}) /\ (\E k \in Callers : saved[k] # None) =>
    /\ RSTC = "none"
    /\ \E s \in Statuses : RSTS = s.rsts
    /\ \A k \in Callers : saved[k] # None => RSTS = saved[k].rsts
=============================================================================
