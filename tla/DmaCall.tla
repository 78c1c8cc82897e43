------------------------------- MODULE DmaCall -------------------------------
(***************************************************************************)
(* What pciemu_dma_from_host_to_device and pciemu_dma_from_device_to_host  *)
(* promise to the threads that call them, however many do at once: a call  *)
(* either fails and changes nothing, or transfers one int at one instant   *)
(* between its start and its return.  Nothing here mentions registers,     *)
(* mappings, interrupts or locks.                                          *)
(***************************************************************************)
EXTENDS Naturals

CONSTANTS Threads, Pages, UserInit

TO == 1
FROM == 2

VARIABLES
  ret,    (* what the last call of each thread returned                    *)
  op,     (* the call each thread is in, or Idle                           *)
  user,   (* the int in each page of user memory                           *)
  store   (* the int in the device                                         *)

vars == <<ret, op, user, store>>

Idle == [st |-> "idle", dir |-> 0, page |-> 0]

Init ==
  /\ ret = [t \in Threads |-> "0"]
  /\ op = [t \in Threads |-> Idle]
  /\ user = UserInit
  /\ store = 0

Call(t) ==
  /\ op[t] = Idle
  /\ \E dir \in {TO, FROM}, p \in Pages :
       op' = [op EXCEPT ![t] = [st |-> "called", dir |-> dir, page |-> p]]
  /\ UNCHANGED <<ret, user, store>>

(* The instant at which the call takes effect. *)
Transfer(t) ==
  /\ op[t].st = "called"
  /\ op' = [op EXCEPT ![t].st = "done"]
  /\ UNCHANGED ret
  /\ \/ /\ op[t].dir = TO
        /\ store' = user[op[t].page]
        /\ UNCHANGED user
     \/ /\ op[t].dir = FROM
        /\ user' = [user EXCEPT ![op[t].page] = store]
        /\ UNCHANGED store

(* A call returns 0 only after it took effect ... *)
Return(t) ==
  /\ op[t].st = "done"
  /\ op' = [op EXCEPT ![t] = Idle]
  /\ ret' = [ret EXCEPT ![t] = "0"]
  /\ UNCHANGED <<user, store>>

(* ... and -ENOMEM only if it did not. *)
Fail(t) ==
  /\ op[t].st = "called"
  /\ op' = [op EXCEPT ![t] = Idle]
  /\ ret' = [ret EXCEPT ![t] = "-ENOMEM"]
  /\ UNCHANGED <<user, store>>

(* The machine is reset: every thread is gone and so is all data. *)
Reset ==
  /\ ret' = [t \in Threads |-> "0"]
  /\ op' = [t \in Threads |-> Idle]
  /\ user' = UserInit
  /\ store' = 0

Finish(t) == Transfer(t) \/ Return(t) \/ Fail(t)

Next == (\E t \in Threads : Call(t) \/ Finish(t)) \/ Reset

Spec == Init /\ [][Next]_vars
=============================================================================
