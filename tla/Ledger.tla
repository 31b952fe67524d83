------------------------------- MODULE Ledger -------------------------------
(***************************************************************************)
(* What a runtime of v2sudoku promises the panel about traffic, whatever   *)
(* counters, snapshots, pushes and confirmations it is built from: the     *)
(* methods GetUserTrafficSlice and ConfirmUserTraffic of runtime.Server as *)
(* the report task uses them.                                              *)
(*                                                                         *)
(* Every byte carried for a user becomes a claim on that user; the panel   *)
(* books claims, and a claim that is booked is gone.  Once a push went     *)
(* wrong after the panel had booked it, claims may be booked again, but    *)
(* what was carried stays claimed or booked for ever.                      *)
(***************************************************************************)
EXTENDS Integers

CONSTANTS
  User,   \* the users traffic is counted for
  Side    \* upload and download

VARIABLES
  carried,  \* bytes carried
  booked,   \* bytes on the panel's books
  claim,    \* bytes carried and still to be booked
  lapsed    \* a push was repeated, lost or abandoned

lvars == <<carried, booked, claim, lapsed>>

Amounts == [User -> [Side -> Nat]]
Nothing == [u \in User |-> [d \in Side |-> 0]]

\* Sums and order, user by user and direction by direction.
Sum(f, g) == [u \in User |-> [d \in Side |-> f[u][d] + g[u][d]]]
AtMost(f, g) == \A u \in User, d \in Side : f[u][d] <= g[u][d]

Init ==
  /\ carried = Nothing
  /\ booked = Nothing
  /\ claim = Nothing
  /\ lapsed = FALSE

\* Bytes are carried and claimed.
Carry ==
  /\ ~lapsed
  /\ AtMost(carried, carried')
  /\ Sum(claim', carried) = Sum(claim, carried')
  /\ UNCHANGED <<booked, lapsed>>

\* The panel books claims, each of them once.
Book ==
  /\ ~lapsed
  /\ AtMost(booked, booked')
  /\ Sum(claim', booked') = Sum(claim, booked)
  /\ UNCHANGED <<carried, lapsed>>

\* From the first lapse on: nothing carried or booked is taken back, and
\* nothing carried is forgotten.
Lapse ==
  /\ lapsed'
  /\ AtMost(carried, carried')
  /\ AtMost(booked, booked')
  /\ AtMost(carried', Sum(claim', booked'))

Next ==
  /\ claim' \in Amounts
  /\ (Carry \/ Book \/ Lapse)

Spec == Init /\ [][Next]_lvars

=============================================================================
