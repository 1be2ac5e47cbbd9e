------------------------- MODULE EncounterRefinement -------------------------
(***************************************************************************)
(* The combat column seen as one atomic object.                            *)
(***************************************************************************)
EXTENDS CombatEncounter

\* The resolution whose next write will go through, if there is one.
Holder == {q \in current : Resolving(q)}

\* A wreck is a wreck, whether its cleaning up is finished or not.
Cleared(e) ==
  [e EXCEPT !.seat = [p \in Players |-> IF e.seat[p] = "down" THEN "gone"
                                        ELSE e.seat[p]]]

\* A round that does not end the fight takes effect with the resolution's last
\* write: until then the encounter is the one the resolution started from, even
\* if ejectDestroyedFromCombat has already written half of the next.  A round
\* that ends the fight takes effect with the first write that says so, though
\* its wrecks are still being cleared up.
AbstractEnc ==
  IF \E q \in Holder : ~Over(mem[q].enc) THEN mem[CHOOSE q \in Holder : TRUE].enc
  ELSE IF row.enc.ended THEN Cleared(row.enc)
  ELSE row.enc

Abs == INSTANCE AtomicEncounter WITH enc <- AbstractEnc, due <- due

\* Handlers racing on the column look like atomic operations on one encounter:
\* no join, action or round is lost, resolved twice, or resolved from anything
\* but the actions accepted for it.
\* (Abs!Spec, with the stuttering steps, which are most, tried first.)
ImplementsAtomic ==
  Abs!Init /\ [][UNCHANGED Abs!avars \/ Abs!Next]_(Abs!avars)

=============================================================================
