------------------------------ MODULE Tickets ------------------------------
(***************************************************************************)
(* What the counter of /ping promises (internal/commands/ping.go): each    *)
(* ping of a process draws the next number, in one step.                   *)
(***************************************************************************)
EXTENDS Naturals

CONSTANT Clients

VARIABLES
  count,  \* tickets drawn
  ticket  \* [Clients -> Nat]: the one each client drew, 0 for none

vars == <<count, ticket>>

Fresh == count = 0 /\ ticket = [c \in Clients |-> 0]

Init == Fresh

Draw(c) ==
  /\ ticket[c] = 0
  /\ count' = count + 1
  /\ ticket' = [ticket EXCEPT ![c] = count + 1]

\* The counter is lost with the process.
Restart == Fresh'

Next == Restart \/ \E c \in Clients : Draw(c)

Spec == Init /\ [][Next]_vars

-----------------------------------------------------------------------------

\* The tickets are the numbers from 1 on: each up to the count was drawn, and by
\* one client.
OneEach ==
  /\ count \in Nat
  /\ \A c \in Clients : ticket[c] \in 0..count
  /\ \A n \in 1..count : \E c \in Clients : ticket[c] = n
  /\ \A c, d \in Clients : c # d /\ ticket[c] # 0 => ticket[c] # ticket[d]

=============================================================================
