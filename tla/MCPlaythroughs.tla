--------------------------- MODULE MCPlaythroughs ---------------------------
(***************************************************************************)
(* Playthroughs on one owner, a Telegram runtime and a few panel requests. *)
(* Requests that race have fewer ids, scenarios and personas.              *)
(***************************************************************************)
EXTENDS Playthroughs, TLC

CONSTANTS RacingScenarios, RacingSlots, RacingPersonas   \* bounds on racing requests

Small(row) ==
  /\ row.scenario \in RacingScenarios
  /\ row.settings.persona \in RacingPersonas \cup {None}

WithinBounds ==
  racing => /\ minted \subseteq RacingSlots
            /\ \A id \in DOMAIN rows : Small(rows[id])
            /\ \A c \in Clients : pc[c] \in {"insert", "christen"} => Small(local[c].row)

MCSpec == Init /\ [][Next /\ WithinBounds']_vars

\* A permutation that takes one racing state to another agrees on both with one that maps
\* the racing ids to themselves, so the larger group is sound for them too.
Symmetry == Permutations(Slots) \cup Permutations(Panel)
            \cup Permutations(Rules) \cup Permutations(Personas)
=============================================================================
