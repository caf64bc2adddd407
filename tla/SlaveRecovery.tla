---------------------------- MODULE SlaveRecovery ----------------------------
(***************************************************************************)
(* SOEMController::error_handle: after an exchange with an unexpected      *)
(* working counter it reads the EtherCAT state of every slave, and tries   *)
(* to bring each that is not OPERATIONAL back, one after the other.  SOEM  *)
(* and the slaves are not in the repository; of them the model assumes     *)
(* that ec_readstate shows the states the slaves are in, and that a        *)
(* request for another state is obeyed or not.                             *)
(***************************************************************************)
EXTENDS Integers

CONSTANT N   \* number of slaves

VARIABLES
  real,      \* the state each slave is in, "NONE" if it cannot be reached
  seen,      \* ec_slave[].state
  isLost,    \* ec_slave[].islost
  docheck,   \* ec_group[0].docheckstate
  at,        \* the slave error_handle is at
  read       \* the states as ec_readstate found them

slaveVars == <<real, seen, isLost, docheck, at, read>>

Slaves == 1 .. N
States == {"NONE", "INIT", "PRE_OP", "SAFE_OP_ERROR", "SAFE_OP", "OPERATIONAL"}

InitSlaves ==
  /\ real \in [Slaves -> {"NONE", "INIT"}]
  /\ seen = [k \in Slaves |-> "NONE"] /\ isLost = [k \in Slaves |-> FALSE]
  /\ docheck = FALSE /\ at = 1 /\ read = [k \in Slaves |-> "NONE"]

(* A request to slave k for state to, which leads there only from from.    *)
Requested(k, from, to) == {real[k]} \cup (IF real[k] = from THEN {to} ELSE {})

(* error_handle begins: ec_readstate.                                      *)
ReadState ==
  /\ docheck' = FALSE /\ at' = 1 /\ seen' = real /\ read' = real
  /\ UNCHANGED <<real, isLost>>

(* A slave that shows a state is found, if it was lost before.             *)
Found(k) == isLost' = [isLost EXCEPT ![k] = FALSE]

Operates(k) == seen[k] = "OPERATIONAL" /\ Found(k) /\ UNCHANGED <<real, seen>>

(* A slave in SAFE_OP + ERROR is sent an acknowledgement; one in SAFE_OP   *)
(* is asked to go on to OPERATIONAL.                                       *)
Acknowledge(k) ==
  /\ seen[k] = "SAFE_OP_ERROR"
  /\ seen' = [seen EXCEPT ![k] = "SAFE_OP_ACK"]
  /\ \E s \in Requested(k, "SAFE_OP_ERROR", "SAFE_OP") : real' = [real EXCEPT ![k] = s]
  /\ Found(k)

Restart(k) ==
  /\ seen[k] = "SAFE_OP"
  /\ seen' = [seen EXCEPT ![k] = "OPERATIONAL"]
  /\ \E s \in Requested(k, "SAFE_OP", "OPERATIONAL") : real' = [real EXCEPT ![k] = s]
  /\ Found(k)

(* In any other state it is configured anew, up to SAFE_OP, or not.        *)
Reconfigure(k) ==
  /\ seen[k] \in {"INIT", "PRE_OP"}
  /\ \/ UNCHANGED <<real, seen>>
     \/ /\ real[k] # "NONE"
        /\ real' = [real EXCEPT ![k] = "SAFE_OP"] /\ seen' = [seen EXCEPT ![k] = "SAFE_OP"]
  /\ Found(k)

(* One that does not answer is asked again; if it is silent still, it is   *)
(* lost and ec_recover_slave tries to find it.  That leaves islost as it   *)
(* was, set or not, unless the slave answers.                              *)
Search(k) ==
  /\ seen[k] = "NONE"
  /\ UNCHANGED real
  /\ \/ /\ ~isLost[k] /\ real[k] # "NONE"
        /\ seen' = [seen EXCEPT ![k] = real[k]] /\ UNCHANGED isLost
     \/ UNCHANGED seen /\ isLost' = [isLost EXCEPT ![k] = TRUE]
     \/ real[k] # "NONE" /\ UNCHANGED seen /\ Found(k)

(* A mutant: a slave that was asked to go on counts as running.            *)
BugTrusts(k) == seen[k] = "OPERATIONAL" \/ seen[k] = "SAFE_OP"

(* It is judged by the state it was read in.                               *)
Running(k) == seen[k] = "OPERATIONAL"

HandleSlave ==
  /\ at <= N /\ at' = at + 1
  /\ docheck' = (docheck \/ ~Running(at))
  /\ \/ Operates(at) \/ Acknowledge(at) \/ Restart(at) \/ Reconfigure(at) \/ Search(at)
  /\ UNCHANGED read

(* After the last one the pass is over; at and read are its own.           *)
EndPass ==
  /\ at = N + 1 /\ at' = 1 /\ read' = [k \in Slaves |-> "NONE"]
  /\ UNCHANGED <<real, seen, isLost, docheck>>

(* Where a slave gets to by itself: an error, a cut cable or a cut power   *)
(* supply takes it down, and back to INIT at best.  PRE_OP and all states  *)
(* with ERROR but one are treated like INIT by the code, and so here.      *)
Falls == [
  NONE          |-> {"INIT"},
  INIT          |-> {"NONE"},
  PRE_OP        |-> {"NONE", "INIT"},
  SAFE_OP_ERROR |-> {"NONE", "INIT"},
  SAFE_OP       |-> {"NONE", "INIT", "SAFE_OP_ERROR"},
  OPERATIONAL   |-> {"NONE", "INIT", "SAFE_OP_ERROR", "SAFE_OP"}]

Drop(k) ==
  /\ \E s \in Falls[real[k]] : real' = [real EXCEPT ![k] = s]
  /\ UNCHANGED <<seen, isLost, docheck, at, read>>
=============================================================================
