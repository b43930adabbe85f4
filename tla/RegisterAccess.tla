--------------------------- MODULE RegisterAccess ---------------------------
(***************************************************************************)
(* What a transport promises to the functions of the device, whatever bus  *)
(* is underneath (the readBlock and blockWrite that RMITransport.hpp       *)
(* declares): calls move bytes between a buffer and consecutive registers. *)
(*                                                                         *)
(*   - one call at a time has its turn at the device;                      *)
(*   - byte k of the buffer is only ever moved from or to register addr+k; *)
(*   - a call that succeeds has moved all its bytes;                       *)
(*   - a call may fail at any time, having moved some of them.             *)
(***************************************************************************)
EXTENDS Integers

CONSTANTS Client, NoThread, Request, NoRequest

VARIABLES
    call,     \* the request each client waits for, or NoRequest
    status,   \* "idle", "running", or "success" when all has been moved
    moved,    \* <<byte of the buffer, register>> moved by the call
    turn      \* the client whose call is at the device, or NoThread

vars == <<call, status, moved, turn>>

(* Each byte with the register it belongs to.                              *)
Straight(r) == {<<k, r.addr + k>> : k \in 0 .. r.len - 1}

Init ==
    /\ call = [t \in Client |-> NoRequest]
    /\ status = [t \in Client |-> "idle"]
    /\ moved = [t \in Client |-> {}]
    /\ turn = NoThread

Call(t, r) ==
    /\ status[t] = "idle"
    /\ status' = [status EXCEPT ![t] = "running"]
    /\ call' = [call EXCEPT ![t] = r]
    /\ UNCHANGED <<moved, turn>>

(* Some more bytes are moved (none, when the call only gets its turn); the *)
(* call may be through once there are no more.                             *)
Move(t) ==
    /\ status[t] = "running"
    /\ turn \in {NoThread, t}
    /\ turn' = t
    /\ \E S \in SUBSET Straight(call[t]) :
          /\ moved[t] \subseteq S
          /\ moved' = [moved EXCEPT ![t] = S]
          /\ \/ UNCHANGED status
             \/ /\ S = Straight(call[t])
                /\ status' = [status EXCEPT ![t] = "success"]
    /\ UNCHANGED call

(* The call returns: with success, or with an error from anywhere.         *)
Return(t) ==
    /\ status[t] \in {"running", "success"}
    /\ turn = t
    /\ turn' = NoThread
    /\ status' = [status EXCEPT ![t] = "idle"]
    /\ call' = [call EXCEPT ![t] = NoRequest]
    /\ moved' = [moved EXCEPT ![t] = {}]

Next ==
    \/ \E t \in Client, r \in Request : Call(t, r)
    \/ \E t \in Client : Move(t) \/ Return(t)

Spec == Init /\ [][Next]_vars
=============================================================================
