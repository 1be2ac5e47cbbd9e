----------------------------- MODULE CombatRules -----------------------------
(***************************************************************************)
(* What one combat round does to one encounter, as pure operators.         *)
(*                                                                         *)
(* An encounter is the JSON blob kept in sector_contents.combat.  Every    *)
(* character is on a side of its own; at most one garrison, in toll mode,  *)
(* takes part.  Fighter counts are abstracted to "has fighters left" and a *)
(* shot's target to "somebody shoots": who comes through is the luck of the*)
(* round.  The code derives it from base_seed and the round number, so the *)
(* luck is part of the encounter: resolving the same blob twice gives the  *)
(* same outcome.                                                           *)
(***************************************************************************)
EXTENDS Naturals, FiniteSets, Sequences

CONSTANT Players   \* characters whose ships are in the sector or may come to it

ASSUME RulesAssumption == IsFiniteSet(Players) /\ "garrison" \notin Players

Garrison == "garrison"

Acts == {"attack", "brace", "flee", "pay"}

\* A character's entry in encounter.participants:
\*   out   no entry                      live  fighters > 0
\*   down  no fighters, wreck not yet handled
\*   gone  destruction_handled, entry kept for the narrative
Seats == {"out", "live", "down", "gone"}

Lucks == SUBSET (Players \cup {Garrison})

Encounter ==
  [round   : Nat,
   ended   : BOOLEAN,
   seat    : [Players -> Seats],
   joined  : [Players -> Nat],                   \* joined_round, 0 if unset
   pending : [Players -> Acts \cup {"none"}],    \* pending_actions
   guard   : BOOLEAN,                            \* garrison fighters > 0
   tolls   : BOOLEAN,                            \* context.toll_registry exists
   paid    : SUBSET Players,                     \* its payments
   luck    : Lucks,                              \* hash of base_seed and round
   log     : Seq(Nat)]                           \* logs: their round_number

\* No combat column, or one whose combat is over: no handler tells them apart.
NoEncounter ==
  [round |-> 0, ended |-> TRUE,
   seat |-> [p \in Players |-> "out"], joined |-> [p \in Players |-> 0],
   pending |-> [p \in Players |-> "none"],
   guard |-> FALSE, tolls |-> FALSE, paid |-> {}, luck |-> {}, log |-> << >>]

\* The ships and the garrison of a sector, as a new fight finds them.
Rosters == [Players \cup {Garrison} -> Seats]

Nobody == [x \in Players \cup {Garrison} |-> "out"]

\* A new encounter; ships without fighters are entered too.  Only the auto-engage
\* path fills toll_registry at once.
Fresh(crew, auto, luck) ==
  [round |-> 1, ended |-> FALSE,
   seat |-> [p \in Players |-> crew[p]],
   joined |-> [p \in Players |-> 0],
   pending |-> [p \in Players |-> "none"],
   guard |-> crew[Garrison] # "out", tolls |-> auto /\ crew[Garrison] # "out",
   paid |-> {}, luck |-> luck, log |-> << >>]

Living(e) == {p \in Players : e.seat[p] = "live"}

\* joinExistingCombat and combat_initiate on an active encounter.
Enrolled(e, p, seat) == [e EXCEPT !.seat[p] = seat, !.joined[p] = e.round]

HasHostile(e, p) == e.guard \/ Living(e) \ {p} # {}

HasTarget(e, p) ==
  e.guard \/ \E q \in Players \ {p} : e.seat[q] \in {"live", "down"}

\* handleCombatAction: who may submit, and what.
MaySubmit(e, p) ==
  /\ ~e.ended
  /\ e.seat[p] \in {"live", "down"}
  /\ e.joined[p] # e.round

MayChoose(e, p, a) ==
  /\ a = "attack" => e.seat[p] = "live" /\ HasTarget(e, p)
  /\ a = "pay"    => e.tolls /\ p \notin e.paid

Submitted(e, p, a) ==
  [e EXCEPT !.pending[p] = a,
            !.paid = IF a = "pay" THEN e.paid \cup {p} ELSE e.paid]

RoundReady(e) ==
  \A p \in Living(e) : e.joined[p] = e.round \/ e.pending[p] # "none"

-----------------------------------------------------------------------------
(* One round: the submitted actions, completed by the timeout rule and the *)
(* garrison's policy, and their outcome.                                   *)

\* buildTimeoutActions: a ship that submitted nothing braces.
ActOf(e, p) ==
  IF e.pending[p] = "none" /\ e.seat[p] = "live" THEN "brace" ELSE e.pending[p]

Debtors(e) == {p \in Living(e) : p \notin e.paid}

\* buildTollAction: brace in the demand round (1), then shoot at a debtor.
GarrisonAttacks(e) == e.guard /\ e.round > 1 /\ Debtors(e) # {}

Fled(e) ==
  {p \in Players : /\ e.seat[p] \in {"live", "down"}
                   /\ e.pending[p] = "flee"
                   /\ p \in e.luck \/ ~HasHostile(e, p)}

Attackers(e) ==
  {p \in Living(e) \ Fled(e) : e.pending[p] = "attack"}
    \cup (IF GarrisonAttacks(e) THEN {Garrison} ELSE {})

Armed(e) == Living(e) \cup (IF e.guard THEN {Garrison} ELSE {})

Dead(e) ==
  IF Attackers(e) = {} THEN {} ELSE Armed(e) \ (Fled(e) \cup e.luck)

Survivors(e) == Armed(e) \ (Fled(e) \cup Dead(e))

\* The registry outlives the garrison it was created for.
TollRegistry(e) == e.tolls \/ e.guard

\* anyOutstandingToll reads the participants as they stood before the round.
TollOutstanding(e) == TollRegistry(e) /\ Debtors(e) # {}

Losers(e) ==
  Dead(e)
    \cup {p \in Players \ Fled(e) : e.seat[p] \in {"down", "gone"}}
    \cup (IF e.tolls /\ ~e.guard THEN {Garrison} ELSE {})

\* end_state = "stalemate" of resolveRound.
Stalemate(e) ==
  IF Attackers(e) = {}
  THEN Fled(e) = {}
  ELSE \/ Survivors(e) = {} /\ Fled(e) \cap Living(e) # {}
       \/ Cardinality(Survivors(e)) = 1 /\ Losers(e) = {}

\* Every other end_state of resolveRound: fled, defeated, victory, mutual_defeat.
Decided(e) ==
  \/ Attackers(e) = {} /\ Fled(e) # {}
  \/ Attackers(e) # {} /\ Cardinality(Survivors(e)) <= 1 /\ ~Stalemate(e)

\* checkTollStanddown.
Standdown(e) ==
  /\ TollRegistry(e)
  /\ Debtors(e) = {}
  /\ \A p \in Players : ActOf(e, p) \in {"brace", "pay", "none"}

Over(e) ==
  \/ Decided(e)
  \/ Stalemate(e) /\ ~TollOutstanding(e)
  \/ Standdown(e)

\* The encounter after the round's bookkeeping, before the round number moves
\* on: losses applied, fleers removed, actions cleared, the log extended.
\* Wrecks of "wrecked" have been handled, the others are still "down".
Settled(e, wrecked) ==
  [e EXCEPT
    !.seat = [p \in Players |->
                IF p \in Fled(e) THEN "out"
                ELSE IF p \in Dead(e) \/ e.seat[p] = "down"
                THEN IF p \in wrecked THEN "gone" ELSE "down"
                ELSE e.seat[p]],
    !.guard   = e.guard /\ Garrison \notin Dead(e),
    !.tolls   = TollRegistry(e),
    !.pending = [p \in Players |-> "none"],
    !.ended   = Over(e),
    !.log     = Append(e.log, e.round)]

\* Characters whose wreck the round has to handle (ejectDestroyedFromCombat,
\* finalizeCombat).
Wrecks(e) ==
  {p \in Players \ Fled(e) : p \in Dead(e) \/ e.seat[p] = "down"}

NextRound(e, luck) ==
  IF e.ended THEN e ELSE [e EXCEPT !.round = e.round + 1, !.luck = luck]

\* The whole round at once.
Resolved(e, luck) == NextRound(Settled(e, Wrecks(e)), luck)

=============================================================================
