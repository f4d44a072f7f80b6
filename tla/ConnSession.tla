------------------------------ MODULE ConnSession ------------------------------
(***************************************************************************)
(* What a pooled DxNetConnection promises to the server that uses it: the  *)
(* object serves one accepted connection after another, and each of them   *)
(* is opened, closed, signed off at the server and put back into the pool  *)
(* exactly once and in this order.                                         *)
(***************************************************************************)
EXTENDS Naturals

VARIABLES phase,    \* where the object is in its life
          opened,   \* accepted connections it has served so far
          signedOff \* how many of them the server has been told are gone

sessionVars == <<phase, opened, signedOff>>

Phases == {"free", "live", "closing", "gone"}

SessionInit == phase = "free" /\ opened = 0 /\ signedOff = 0

\* The accept loop takes the object from the pool for a new connection.
Open == /\ phase = "free"
        /\ phase' = "live"
        /\ opened' = opened + 1
        /\ UNCHANGED signedOff

\* Somebody wins the right to tear the connection down.
BeginClose == /\ phase = "live"
              /\ phase' = "closing"
              /\ UNCHANGED <<opened, signedOff>>

\* The server drops the connection from its clients and from its wait group.
SignOff == /\ phase = "closing"
           /\ phase' = "gone"
           /\ signedOff' = signedOff + 1
           /\ UNCHANGED opened

\* The object goes back into the pool.
Release == /\ phase = "gone"
           /\ phase' = "free"
           /\ UNCHANGED <<opened, signedOff>>

SessionNext == Open \/ BeginClose \/ SignOff \/ Release

SessionSpec == SessionInit /\ [][SessionNext]_sessionVars
================================================================================
