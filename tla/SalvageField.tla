---------------------------- MODULE SalvageField ----------------------------
(***************************************************************************)
(* The list of salvage containers of a sector, and the functions that add  *)
(* to it and take from it: dump_cargo, salvage_collect and the drop at the *)
(* end of a fight (appendSalvageEntry).                                    *)
(*                                                                         *)
(* The list is one JSON value: whoever changes it reads all of it and      *)
(* writes all of it back, on no condition.  One commodity stands for the   *)
(* three and for scrap, which is loaded in the same way.                   *)
(***************************************************************************)
EXTENDS Integers, FiniteSets, Functions

CONSTANTS
  Pilots,      \* pilots in the sector, each with a ship and one call at a time
  Fights,      \* fights that may end, each with one wreck to drop
  Ids,         \* salvage_id
  Holds,       \* cargo holds of a ship
  OpeningCargo, OpeningCredits,  \* what a ship has at the start
  WreckUnits, WreckCredits,      \* what a wreck leaves
  Lots,        \* quantities a pilot may want to dump
  OneAtATime,  \* calls in the sector do not overlap
  MaxCalls,    \* bound of the model: calls
  MaxKills     \* bound of the model: functions killed

ASSUME FieldAssumption ==
  /\ {Holds, OpeningCargo, OpeningCredits, WreckUnits, WreckCredits} \subseteq Nat
  /\ OpeningCargo <= Holds /\ Lots \subseteq Nat \ {0} /\ IsFiniteSet(Pilots)

VARIABLES
  salvage,  \* the containers of the sector's list, by salvage_id
  ships,    \* [cargo, credits] of each pilot's ship
  calls,    \* what each function has in memory
  expired,  \* containers whose expires_at has passed
  taken,    \* history: how often the contents of a container were taken
  added,    \* history: containers that were added to the list
  born,     \* history: units and credits the wrecks brought
  lapsed,   \* history: units and credits that were dropped as expired
  opened,   \* bound: calls so far
  kills     \* bound: functions killed so far

ledger == <<taken, added, born, lapsed>>
fieldVars == <<salvage, ships, calls, expired, ledger, opened, kills>>

Callers == Pilots \cup Fights
Container(units, credits) == [units |-> units, credits |-> credits, claimed |-> FALSE]
Unlisted == [i \in {} |-> Container(0, 0)]
NoId == "none"
AtRest == [step |-> "idle", id |-> NoId, what |-> Container(0, 0),
           ship |-> [cargo |-> 0, credits |-> 0], list |-> Unlisted, left |-> 0]

AllIdle == \A c \in Callers : calls[c].step = "idle"
Without(list, S) == Restrict(list, DOMAIN list \ S)
With(list, id, c) == [i \in DOMAIN list \cup {id} |-> IF i = id THEN c ELSE list[i]]
Lesser(a, b) == IF a < b THEN a ELSE b
NotBelowZero(n) == IF n < 0 THEN 0 ELSE n
\* Set one field or several of what a caller has in memory.
Recall(c, x) == calls' = [calls EXCEPT ![c] = x]

-----------------------------------------------------------------------------
FieldInit ==
  /\ salvage = Unlisted
  /\ ships = [p \in Pilots |-> [cargo |-> OpeningCargo, credits |-> OpeningCredits]]
  /\ calls = [c \in Callers |-> AtRest]
  /\ expired = {} /\ added = {}
  /\ taken = [i \in Ids |-> 0]
  /\ born = [units |-> 0, credits |-> 0] /\ lapsed = [units |-> 0, credits |-> 0]
  /\ opened = 0 /\ kills = 0

MayCall(c) ==
  /\ calls[c].step = "idle"
  /\ opened < MaxCalls
  /\ OneAtATime => AllIdle
  /\ opened' = opened + 1

\* dump_cargo reads the ship and works out what there is to dump.
Dump(p) ==
  \E n \in Lots :
    /\ MayCall(p)
    /\ ships[p].cargo > 0
    /\ Recall(p, [AtRest EXCEPT !.step = "unload", !.ship = ships[p],
                                !.what = Container(Lesser(n, ships[p].cargo), 0)])
    /\ UNCHANGED <<salvage, ships, expired, ledger, kills>>

Unload(p) ==
  LET x == calls[p] IN
  /\ x.step = "unload"
  /\ ships' = [ships EXCEPT ![p].cargo = NotBelowZero(x.ship.cargo - x.what.units)]
  /\ Recall(p, [x EXCEPT !.step = "append"])
  /\ UNCHANGED <<salvage, expired, ledger, opened, kills>>

\* A fight ends and its wreck is dropped.
DropWreck(f) ==
  /\ MayCall(f)
  /\ Recall(f, [AtRest EXCEPT !.step = "append",
                              !.what = Container(WreckUnits, WreckCredits)])
  /\ born' = [units |-> born.units + WreckUnits, credits |-> born.credits + WreckCredits]
  /\ UNCHANGED <<salvage, ships, expired, taken, added, lapsed, kills>>

\* appendSalvageEntry reads the list.
ReadList(c) ==
  LET x == calls[c] IN
  /\ x.step = "append"
  /\ Recall(c, [x EXCEPT !.step = "push", !.list = salvage])
  /\ UNCHANGED <<salvage, ships, expired, ledger, opened, kills>>

Held(list, S) ==
  [units |-> SumFunctionOnSet([i \in DOMAIN list |-> list[i].units], S),
   credits |-> SumFunctionOnSet([i \in DOMAIN list |-> list[i].credits], S)]
Unclaimed(list) == {i \in DOMAIN list : ~list[i].claimed}

\* It leaves out what has expired and writes the list back with the new entry.
Push(c) ==
  LET x == calls[c]
      old == DOMAIN x.list \cap expired
      loss == Held(x.list, old \cap Unclaimed(x.list))
  IN
  /\ x.step = "push"
  /\ \E id \in Ids \ added :
       /\ salvage' = With(Without(x.list, old), id, x.what)
       /\ added' = added \cup {id}
  /\ lapsed' = [units |-> lapsed.units + loss.units,
                credits |-> lapsed.credits + loss.credits]
  /\ Recall(c, AtRest)
  /\ UNCHANGED <<ships, expired, taken, born, opened, kills>>

-----------------------------------------------------------------------------
\* salvage_collect reads the ship and the list, and asks for an unclaimed
\* container of it.
Look(p) ==
  \E id \in Unclaimed(salvage) :
    /\ MayCall(p)
    /\ Recall(p, [AtRest EXCEPT !.step = "claim", !.id = id, !.what = salvage[id],
                                !.ship = ships[p], !.list = salvage])
    /\ UNCHANGED <<salvage, ships, expired, ledger, kills>>

\* Mutant: the container is not marked before it is emptied.
Claim_Unmarked(p) ==
  LET x == calls[p] IN
  /\ x.step = "claim"
  /\ salvage' = x.list
  /\ Recall(p, [x EXCEPT !.step = "credits"])
  /\ UNCHANGED <<ships, expired, ledger, opened, kills>>

\* The list is written back with the container claimed.
Claim(p) ==
  LET x == calls[p] IN
  /\ x.step = "claim"
  /\ salvage' = [x.list EXCEPT ![x.id].claimed = TRUE]
  /\ Recall(p, [x EXCEPT !.step = "credits"])
  /\ UNCHANGED <<ships, expired, ledger, opened, kills>>

TakeCredits(p) ==
  LET x == calls[p] IN
  /\ x.step = "credits"
  /\ ships' = [ships EXCEPT ![p].credits = x.ship.credits + x.what.credits]
  /\ taken' = [taken EXCEPT ![x.id] = @ + 1]
  /\ Recall(p, [x EXCEPT !.step = "cargo"])
  /\ UNCHANGED <<salvage, expired, added, born, lapsed, opened, kills>>

Room(ship) == Holds - ship.cargo

\* What fits is loaded.
TakeCargo(p) ==
  LET x == calls[p]
      fits == Lesser(x.what.units, Room(x.ship))
  IN
  /\ x.step = "cargo"
  /\ ships' = [ships EXCEPT ![p].cargo = x.ship.cargo + fits]
  /\ Recall(p, [x EXCEPT !.step = "reload", !.left = x.what.units - fits])
  /\ UNCHANGED <<salvage, expired, ledger, opened, kills>>

Reload(p) ==
  LET x == calls[p] IN
  /\ x.step = "reload"
  /\ Recall(p, [x EXCEPT !.step = "settle", !.list = salvage])
  /\ UNCHANGED <<salvage, ships, expired, ledger, opened, kills>>

\* Mutant: what is left stays claimed.
Settle_KeepsClaim(p) ==
  LET x == calls[p]
      rest == [Container(x.left, 0) EXCEPT !.claimed = TRUE]
  IN
  /\ x.step = "settle"
  /\ salvage' = IF x.id \notin DOMAIN x.list THEN x.list
                ELSE IF x.left = 0 THEN Without(x.list, {x.id})
                ELSE [x.list EXCEPT ![x.id] = rest]
  /\ Recall(p, AtRest)
  /\ UNCHANGED <<ships, expired, ledger, opened, kills>>

\* The container is removed, or put back with what is left; if it is no longer
\* on the list, nothing is put back (an entry at index -1 is not stored).
Settle(p) ==
  LET x == calls[p] IN
  /\ x.step = "settle"
  /\ salvage' = IF x.id \notin DOMAIN x.list THEN x.list
                ELSE IF x.left = 0 THEN Without(x.list, {x.id})
                ELSE [x.list EXCEPT ![x.id] = Container(x.left, 0)]
  /\ Recall(p, AtRest)
  /\ UNCHANGED <<ships, expired, ledger, opened, kills>>

-----------------------------------------------------------------------------
Expire(id) ==
  /\ id \in added \ expired
  /\ expired' = expired \cup {id}
  /\ UNCHANGED <<salvage, ships, calls, ledger, opened, kills>>

\* A function is killed; its writes stay.
KillCall(c) ==
  /\ calls[c].step # "idle"
  /\ kills < MaxKills
  /\ kills' = kills + 1
  /\ Recall(c, AtRest)
  /\ UNCHANGED <<salvage, ships, expired, ledger, opened>>

\* The next step of a function that has been called.
GoOn(c) ==
  \/ ReadList(c) \/ Push(c)
  \/ c \in Pilots /\ (Unload(c) \/ Claim(c) \/ TakeCredits(c) \/ TakeCargo(c)
                      \/ Reload(c) \/ Settle(c))

FieldNext ==
  \/ \E p \in Pilots : Dump(p) \/ Look(p)
  \/ \E f \in Fights : DropWreck(f)
  \/ \E c \in Callers : GoOn(c) \/ KillCall(c)
  \/ \E id \in Ids : Expire(id)

FieldSpec == FieldInit /\ [][FieldNext]_fieldVars

\* A function that is not killed goes on to its end.
FairSpec == FieldSpec /\ \A c \in Callers : WF_fieldVars(GoOn(c))

-----------------------------------------------------------------------------
(* Properties. *)

\* What ships hold, what may still be collected and what is being dumped.
InFlight == {c \in Callers : calls[c].step \in {"append", "push"}}
Holdings ==
  LET list == Held(salvage, Unclaimed(salvage)) IN
  [units |-> SumFunctionOnSet([p \in Pilots |-> ships[p].cargo], Pilots)
             + list.units
             + SumFunctionOnSet([c \in Callers |-> calls[c].what.units], InFlight),
   credits |-> SumFunctionOnSet([p \in Pilots |-> ships[p].credits], Pilots)
               + list.credits
               + SumFunctionOnSet([c \in Callers |-> calls[c].what.credits],
                                   InFlight)]
Supply ==
  [units |-> Cardinality(Pilots) * OpeningCargo + born.units - lapsed.units,
   credits |-> Cardinality(Pilots) * OpeningCredits + born.credits - lapsed.credits]

\* While calls do not overlap, nothing can be had twice, wherever a function
\* is killed: a container is claimed before anything is taken from it. Nor is
\* anything lost, if no function is killed: what does not fit stays. And no ship
\* is loaded beyond its holds, though the room is computed from a row read
\* before the claim.
Conserved ==
  /\ \A p \in Pilots : ships[p].cargo <= Holds
  /\ Holdings.units <= Supply.units /\ Holdings.credits <= Supply.credits
  /\ AllIdle /\ kills = 0 => Holdings = Supply

\* A claim is for the time of one collection ("Mark as claimed temporarily"):
\* it is released in the end, unless a function is killed.
ClaimsReleased ==
  \A id \in Ids :
    (id \in DOMAIN salvage /\ salvage[id].claimed)
      ~> (kills > 0 \/ (id \in DOMAIN salvage => ~salvage[id].claimed))
=============================================================================
