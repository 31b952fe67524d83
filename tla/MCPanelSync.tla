----------------------------- MODULE MCPanelSync ----------------------------
(* Instances of PanelSync for TLC.                                         *)
EXTENDS PanelSync, TLC

CONSTANTS u1, u2, p1, p2

User(i, p) == [id |-> i, plan |-> p]

\* One user; the same with another plan; the same with another id, which
\* compareUserList does not see; the same with a second user.
Lists == {u1 :> User(7, p1), u1 :> User(7, p2), u1 :> User(9, p1),
          u1 :> User(7, p1) @@ u2 :> User(8, p1)}

=============================================================================
