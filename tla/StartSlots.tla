------------------------------ MODULE StartSlots ------------------------------
(***************************************************************************)
(* What the start slots of a destination host promise to the workflows of  *)
(* staged recovery, without etcd, locks, leases and time.                  *)
(*                                                                         *)
(* A start attempt takes the slot of its instance while nobody has it and  *)
(* fewer slots are taken than some limit in force allows, and gives it     *)
(* back itself.  A slot is taken away from nobody but the dead.            *)
(***************************************************************************)
EXTENDS Naturals, FiniteSets

CONSTANTS Attempts, Servers, ServerOf, Limits, NoAttempt

VARIABLES
  holder,   \* per instance: the attempt that has its slot
  phase     \* per attempt: "waiting", "holding" or "over"

Taken == { i \in Servers : holder[i] # NoAttempt }

Init ==
  /\ holder = [i \in Servers |-> NoAttempt]
  /\ phase = [a \in Attempts |-> "waiting"]

Take(a) ==
  /\ phase[a] = "waiting"
  /\ holder[ServerOf[a]] = NoAttempt
  /\ \E n \in Limits : Cardinality(Taken) < n
  /\ holder' = [holder EXCEPT ![ServerOf[a]] = a]
  /\ phase' = [phase EXCEPT ![a] = "holding"]

GiveBack(a) ==
  /\ phase[a] = "holding"
  /\ holder[ServerOf[a]] = a
  /\ holder' = [holder EXCEPT ![ServerOf[a]] = NoAttempt]
  /\ phase' = [phase EXCEPT ![a] = "over"]

Die(a) ==
  /\ phase[a] # "over"
  /\ phase' = [phase EXCEPT ![a] = "over"]
  /\ UNCHANGED holder

TakeFromTheDead(i) ==
  /\ holder[i] # NoAttempt
  /\ phase[holder[i]] = "over"
  /\ holder' = [holder EXCEPT ![i] = NoAttempt]
  /\ UNCHANGED phase

Next ==
  \/ \E a \in Attempts : Take(a) \/ GiveBack(a) \/ Die(a)
  \/ \E i \in Servers : TakeFromTheDead(i)

Spec == Init /\ [][Next]_<<holder, phase>>
=============================================================================
