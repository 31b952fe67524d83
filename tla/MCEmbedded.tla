----------------------------- MODULE MCEmbedded -----------------------------
(* Instances of Embedded for TLC.                                          *)
EXTENDS Embedded, TLC

CONSTANTS u1, u2

\* One user that is listed, removed, or listed next to an entry without UUID.
ListsOne == {u1 :> 7, NoUuid :> 7}

\* Two users; u2 may lose its id (a zero Id is not served).
ListsTwo == {u1 :> 7, u1 :> 7 @@ u2 :> 8, u1 :> 7 @@ u2 :> 0}

Symmetry == Permutations(Conn)

=============================================================================
