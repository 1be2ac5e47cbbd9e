---------------------------- MODULE Corporation ----------------------------
(***************************************************************************)
(* Corporations: who founded one, who is in it, and the ships it owns.     *)
(* The functions are corporation_create, _join, _leave and _kick, the      *)
(* purchase for a corporation, ship_sell, the claim and the release of a   *)
(* ship for an agent of one's own (BYOA), and the clean-up after a wreck.  *)
(*                                                                         *)
(* A membership is kept twice, in corporation_members and on the           *)
(* character. No function has a transaction around its writes: each reads, *)
(* decides, and then runs its statements one by one. A call is therefore   *)
(* the plan of the statements it has left. Only the cap on the ships of a  *)
(* buyer is guarded, by a lock that the purchase and the release share.    *)
(***************************************************************************)
EXTENDS Naturals, FiniteSets, Sequences

CONSTANTS
  Players,     \* characters with a person behind them
  Corps,       \* rows of corporations that may be inserted
  Hulls,       \* rows of ship_instances that may be inserted
  None,        \* null
  Jobs,        \* calls that may overlap
  Cap,         \* CORPORATION_SHIP_OWNER_CAP
  MaxCalls,    \* bound of the model: calls
  MaxFaults    \* bound of the model: calls that end early

ASSUME NoneAssumption == None \notin Players \cup Corps \cup Hulls
ASSUME HullsAssumption == IsFiniteSet(Hulls)
ASSUME PlayersAssumption == IsFiniteSet(Players)
ASSUME NumberAssumption == Cap \in Nat \ {0} /\ MaxCalls \in Nat /\ MaxFaults \in Nat

VARIABLES
  corps,     \* rows of corporations: founder, and whether disbanded_at is set
  member,    \* rows of corporation_members without left_at
  affil,     \* characters.corporation_id
  ships,     \* rows of ship_instances and of corporation_ships
  plans,     \* the statements each call has left
  listed,    \* the ships a call that disbands has listed, to release them
  crossed,   \* history: two calls met over one membership, or one ended early
  budget     \* bounds: calls and faults left

rows == <<corps, member, affil, ships>>
vars == <<rows, plans, listed, crossed, budget>>

\* A statement of a plan: what it does, to whom, in which corporation, to which ship.
Do(op, who, c, h) == [op |-> op, who |-> who, corp |-> c, ship |-> h]

\* A row is owned (corp), listed (link), bought (by) and claimed (byoa) by someone.
Unbuilt == [corp |-> None, link |-> None, by |-> None, byoa |-> None, live |-> FALSE]
Active(c) == corps[c].founder /= None /\ ~corps[c].gone
\* fetchCorporationShipSummaries
Fleet(c) == {h \in Hulls : ships[h].link = c /\ ships[h].live /\ ships[h].corp /= None}
\* getCorporationShipOwnerLimitState
Counted(c, p) == {h \in Hulls : /\ ships[h].link = c /\ ships[h].by = p
                                /\ ships[h].corp = c /\ ships[h].live /\ ships[h].byoa = None}

-----------------------------------------------------------------------------
(* What a call does to the rolls, as far as it is still to be done.        *)

Statements(plan) == {plan[i] : i \in 1..Len(plan)}
Enrols(plan, p) == \E s \in Statements(plan) :
                     p \in s.who /\ (s.op = "enrol" \/ (s.op = "stamp" /\ s.corp /= None))
Moves(plan, p) == \E s \in Statements(plan) : p \in s.who /\ s.op \in {"enrol", "stamp", "left"}
Closes(plan, c) == \E s \in Statements(plan) : s.op = "close" /\ s.corp = c
Fills(plan, c) == \E s \in Statements(plan) :
                    s.corp = c /\ (s.op = "enrol" \/ s.op = "stamp")
Meet(one, other) ==
  \/ \E p \in Players : Enrols(one, p) /\ Moves(other, p)
  \/ \E c \in Corps : Closes(one, c) /\ Fills(other, c)

\* A call has read what it needs and has this plan.
Ask(j, plan) ==
  /\ plans[j] = << >> /\ budget.calls > 0
  /\ plans' = [plans EXCEPT ![j] = plan]
  /\ budget' = [budget EXCEPT !.calls = @ - 1]
  /\ crossed' = (crossed \/ \E k \in Jobs : Meet(plan, plans[k]) \/ Meet(plans[k], plan))
  /\ UNCHANGED <<rows, listed>>

-----------------------------------------------------------------------------
(* The plans.                                                              *)

Enrolment(p, c) == <<Do("enrol", {p}, c, None), Do("stamp", {p}, c, None)>>
Eviction(others, c) ==
  IF others = {} THEN << >>
  ELSE <<Do("left", others, c, None), Do("stamp", others, None, None)>>
\* disbandCorporation
Disbanding(c) ==
  <<Do("list", {}, c, None), Do("release", {}, c, None), Do("close", {}, c, None)>>
Disbands(p, c, last) == last \/ corps[c].founder = p
Evicted(p, c, last) == IF corps[c].founder = p /\ ~last THEN member[c] \ {p} ELSE {}

AskCreate(j, p, c) ==
  /\ affil[p] = None /\ corps[c].founder = None
  /\ \A k \in Jobs : ~Fills(plans[k], c)          \* a fresh corp_id
  /\ Ask(j, <<Do("found", {p}, c, None)>> \o Enrolment(p, c))

\* The call that confirms: it decides everything again.
AskJoin(j, p, c) ==
  LET old == affil[p]
      last == member[old] = {p}
  IN /\ Active(c) /\ old /= c
     /\ IF old = None
        THEN Ask(j, Enrolment(p, c))
        ELSE /\ Disbands(p, old, last) => Fleet(old) = {}
             /\ Ask(j, Eviction(Evicted(p, old, last), old)
                       \o <<Do("left", {p}, old, None)>>
                       \o (IF Disbands(p, old, last) THEN Disbanding(old) ELSE << >>)
                       \o Enrolment(p, c))

Departing(p, c) == Disbands(p, c, Cardinality(member[c]) <= 1)
LeavePlan(p, c) ==
  Eviction(Evicted(p, c, Cardinality(member[c]) <= 1), c)
  \o <<Do("left", {p}, c, None), Do("stamp", {p}, None, None)>>
  \o (IF Departing(p, c) THEN Disbanding(c) ELSE << >>)

AskLeave(j, p) ==
  LET c == affil[p]
  IN /\ c /= None
     /\ p \in member[c]
     /\ Departing(p, c) => Fleet(c) = {}
     /\ Ask(j, LeavePlan(p, c))

AskKick(j, p, target) ==
  LET c == affil[p]
  IN /\ p /= target /\ c /= None /\ affil[target] = c
     /\ p \in member[c] /\ corps[c].founder = p
     /\ Ask(j, <<Do("left", {target}, c, None), Do("stamp", {target}, None, None)>>)

\* Mutant: the ships are counted before the lock is taken.
BuyPlan_CountsFirst(p, c) ==
  <<Do("count", {p}, c, None), Do("lock", {p}, c, None), Do("build", {p}, c, None),
    Do("link", {p}, c, None), Do("unlock", {p}, c, None)>>

\* The corporation may be named: it need not be the one on the character.
BuyPlan(p, c) ==
  <<Do("lock", {p}, c, None), Do("count", {p}, c, None), Do("build", {p}, c, None),
    Do("link", {p}, c, None), Do("unlock", {p}, c, None)>>
AskBuy(j, p, c) == p \in member[c] /\ Ask(j, BuyPlan(p, c))

AskSell(j, p, h) ==
  LET c == ships[h].corp
  IN /\ c /= None /\ p \in member[c]
     /\ ships[h].link = c /\ ships[h].by = p
     /\ Ask(j, <<Do("unlink", {}, c, h), Do("scrap", {}, c, h)>>)

\* A player names a ship that is listed, which takes its link. A claim of
\* one's own ship and the release of a free one change nothing.
AskClaim(j, p, h) ==
  LET c == ships[h].corp
  IN /\ c /= None /\ ships[h].link = c /\ p \in member[c]
     /\ ships[h].byoa = None
     /\ Ask(j, <<Do("claim", {p}, c, h)>>)

AskUnclaim(j, p, h) ==
  LET c == ships[h].corp
      key == {ships[h].by}
  IN /\ c /= None /\ ships[h].link = c /\ p \in member[c]
     /\ ships[h].byoa = p
     /\ Ask(j, <<Do("lock", key, c, h), Do("count", key, c, h), Do("unclaim", {p}, c, h),
                 Do("unlock", key, c, h)>>)

\* executeCorpShipDeletions, called after a fight
AskWreck(j, h) ==
  /\ ships[h].live /\ ships[h].link /= None
  /\ Ask(j, <<Do("destroy", {}, ships[h].link, h), Do("unlink", {}, ships[h].link, h)>>)

-----------------------------------------------------------------------------
(* The statements.                                                         *)

Due(j, op) == plans[j] /= << >> /\ Head(plans[j]).op = op
Done(j) == plans' = [plans EXCEPT ![j] = Tail(@)]
Quit(j) == plans' = [plans EXCEPT ![j] = << >>]
Settled == UNCHANGED <<listed, crossed, budget>>

Found(j) ==
  /\ Due(j, "found")
  /\ LET s == Head(plans[j]) IN
     \E p \in s.who : corps' = [corps EXCEPT ![s.corp].founder = p]
  /\ Done(j) /\ Settled /\ UNCHANGED <<member, affil, ships>>

\* upsertCorporationMembership: whether the corporation is gone is not asked
Enrol(j) ==
  /\ Due(j, "enrol")
  /\ LET s == Head(plans[j]) IN member' = [member EXCEPT ![s.corp] = @ \cup s.who]
  /\ Done(j) /\ Settled /\ UNCHANGED <<corps, affil, ships>>

\* Mutant: only one of the characters named is updated.
Stamp_FirstOnly(j) ==
  /\ Due(j, "stamp")
  /\ LET s == Head(plans[j]) IN
     \E q \in s.who : affil' = [affil EXCEPT ![q] = s.corp]
  /\ Done(j) /\ Settled /\ UNCHANGED <<corps, member, ships>>

\* One update of all the characters named, whatever they hold by now.
Stamp(j) ==
  /\ Due(j, "stamp")
  /\ LET s == Head(plans[j]) IN
     affil' = [q \in Players |-> IF q \in s.who THEN s.corp ELSE affil[q]]
  /\ Done(j) /\ Settled /\ UNCHANGED <<corps, member, ships>>

\* markCorporationMembershipLeft, for one member after the other
Left(j) ==
  /\ Due(j, "left")
  /\ LET s == Head(plans[j]) IN
     \E q \in s.who :
       /\ member' = [member EXCEPT ![s.corp] = @ \ {q}]
       /\ IF s.who = {q} THEN Done(j) ELSE plans' = [plans EXCEPT ![j][1].who = @ \ {q}]
  /\ Settled /\ UNCHANGED <<corps, affil, ships>>

\* The ships are read here, and released some awaits later.
List(j) ==
  /\ Due(j, "list")
  /\ listed' = [listed EXCEPT ![j] = Fleet(Head(plans[j]).corp)]
  /\ Done(j) /\ UNCHANGED <<rows, crossed, budget>>

\* Mutant: the ships are not released, as callers should have refused.
Release_Nothing(j) ==
  /\ Due(j, "release")
  /\ listed' = [listed EXCEPT ![j] = {}]
  /\ Done(j) /\ UNCHANGED <<rows, crossed, budget>>

\* The ships that were listed, whatever has become of them.
Release(j) ==
  /\ Due(j, "release")
  /\ ships' = [h \in Hulls |-> IF h \in listed[j] THEN [ships[h] EXCEPT !.corp = None]
                              ELSE ships[h]]
  /\ listed' = [listed EXCEPT ![j] = {}]
  /\ Done(j) /\ UNCHANGED <<corps, member, affil, crossed, budget>>

Close(j) ==
  /\ Due(j, "close")
  /\ corps' = [corps EXCEPT ![Head(plans[j]).corp].gone = TRUE]
  /\ Done(j) /\ Settled /\ UNCHANGED <<member, affil, ships>>

\* A lock is held until the unlock, or until the call ends.
Holds(j, key, c) ==
  /\ \E s \in Statements(plans[j]) : s.op = "unlock" /\ s.who = key /\ s.corp = c
  /\ \A s \in Statements(plans[j]) : s.op /= "lock"
Lock(j) ==
  /\ Due(j, "lock")
  /\ LET s == Head(plans[j]) IN \A k \in Jobs : ~Holds(k, s.who, s.corp)
  /\ Done(j) /\ Settled /\ UNCHANGED rows

Count(j) ==
  /\ Due(j, "count")
  /\ LET s == Head(plans[j]) IN
     \E p \in s.who :
       IF Cardinality(Counted(s.corp, p)) >= Cap THEN Quit(j) ELSE Done(j)
  /\ Settled /\ UNCHANGED rows

Build(j) ==
  /\ Due(j, "build")
  /\ LET c == Head(plans[j]).corp IN
     \E h \in Hulls :
       /\ ships[h] = Unbuilt
       /\ ships' = [ships EXCEPT ![h] = [Unbuilt EXCEPT !.corp = c, !.live = TRUE]]
       /\ plans' = [plans EXCEPT ![j] = [Tail(@) EXCEPT ![1].ship = h]]
  /\ Settled /\ UNCHANGED <<corps, member, affil>>

\* A ship for a corporation whose ships have been listed already, by the call
\* that disbands it, has come too late.
Late(c) ==
  \/ corps[c].gone
  \/ \E k \in Jobs : Closes(plans[k], c)
                     /\ \A s \in Statements(plans[k]) : s.op = "list" => s.corp /= c
Link(j) ==
  /\ Due(j, "link")
  /\ LET s == Head(plans[j]) IN
     /\ \E p \in s.who : ships' = [ships EXCEPT ![s.ship].link = s.corp, ![s.ship].by = p]
     /\ crossed' = (crossed \/ Late(s.corp))
  /\ Done(j) /\ UNCHANGED <<corps, member, affil, listed, budget>>

\* Mutant: who has claimed the ship is not in the condition.
Unmoved_AnyOwner(h, c, owner) == ships[h].corp = c

\* updateByoaState: only if the ship is still the corporation's, and the
\* claim on it still the one that was read
Unmoved(h, c, owner) == ships[h].corp = c /\ ships[h].byoa = owner
Claim(j) ==
  /\ Due(j, "claim")
  /\ LET s == Head(plans[j]) IN
     \E p \in s.who :
       ships' = IF Unmoved(s.ship, s.corp, None)
                THEN [ships EXCEPT ![s.ship].byoa = p] ELSE ships
  /\ Done(j) /\ Settled /\ UNCHANGED <<corps, member, affil>>

Unclaim(j) ==
  /\ Due(j, "unclaim")
  /\ LET s == Head(plans[j]) IN
     \E p \in s.who :
       ships' = IF Unmoved(s.ship, s.corp, p)
                THEN [ships EXCEPT ![s.ship].byoa = None] ELSE ships
  /\ Done(j) /\ Settled /\ UNCHANGED <<corps, member, affil>>

Unlock(j) == Due(j, "unlock") /\ Done(j) /\ Settled /\ UNCHANGED rows

Unlink(j) ==
  /\ Due(j, "unlink")
  /\ LET s == Head(plans[j]) IN
     ships' = [ships EXCEPT ![s.ship].link = IF @ = s.corp THEN None ELSE @]
  /\ Done(j) /\ Settled /\ UNCHANGED <<corps, member, affil>>

Scrap(j) ==
  /\ Due(j, "scrap")
  /\ ships' = [ships EXCEPT ![Head(plans[j]).ship].corp = None,
                            ![Head(plans[j]).ship].live = FALSE]
  /\ Done(j) /\ Settled /\ UNCHANGED <<corps, member, affil>>

Destroy(j) ==
  /\ Due(j, "destroy")
  /\ ships' = [ships EXCEPT ![Head(plans[j]).ship].live = FALSE]
  /\ Done(j) /\ Settled /\ UNCHANGED <<corps, member, affil>>

\* The call is killed, or a statement of it fails.
EndEarly(j) ==
  /\ plans[j] /= << >> /\ budget.faults > 0
  /\ budget' = [budget EXCEPT !.faults = @ - 1]
  /\ crossed' = TRUE
  /\ listed' = [listed EXCEPT ![j] = {}]
  /\ Quit(j) /\ UNCHANGED rows

-----------------------------------------------------------------------------
(* Any corporations with any members, and any ships under the cap.         *)

Init ==
  /\ affil \in [Players -> Corps \cup {None}]
  /\ member = [c \in Corps |-> {p \in Players : affil[p] = c}]
  /\ corps \in [Corps -> [founder : Players \cup {None}, gone : {FALSE}]]
  /\ \A c \in Corps : IF corps[c].founder = None THEN member[c] = {}
                      ELSE corps[c].founder \in member[c]
  /\ ships \in [Hulls -> {Unbuilt} \cup
       {[corp |-> c, link |-> c, by |-> p, byoa |-> q, live |-> TRUE] :
          c \in {d \in Corps : corps[d].founder /= None}, p \in Players,
          q \in Players \cup {None}}]
  /\ \A c \in Corps, p \in Players : Cardinality(Counted(c, p)) <= Cap
  /\ plans = [j \in Jobs |-> << >>]
  /\ listed = [j \in Jobs |-> {}]
  /\ crossed = FALSE
  /\ budget = [calls |-> MaxCalls, faults |-> MaxFaults]

AskStep(j) ==
  \/ \E p \in Players, c \in Corps : AskCreate(j, p, c) \/ AskJoin(j, p, c) \/ AskBuy(j, p, c)
  \/ \E p \in Players : AskLeave(j, p)
  \/ \E p, q \in Players : AskKick(j, p, q)
  \/ \E p \in Players, h \in Hulls : AskSell(j, p, h) \/ AskClaim(j, p, h) \/ AskUnclaim(j, p, h)
  \/ \E h \in Hulls : AskWreck(j, h)
RollStep(j) == \/ Found(j) \/ Enrol(j) \/ Stamp(j) \/ Left(j)
               \/ List(j) \/ Release(j) \/ Close(j)
ShipStep(j) == \/ Lock(j) \/ Count(j) \/ Build(j) \/ Link(j) \/ Unlock(j)
               \/ Claim(j) \/ Unclaim(j) \/ Unlink(j) \/ Scrap(j) \/ Destroy(j)
Next == \E j \in Jobs : AskStep(j) \/ RollStep(j) \/ ShipStep(j) \/ EndEarly(j)

Spec == Init /\ [][Next]_vars

-----------------------------------------------------------------------------
(* Properties.                                                             *)

Resting == \A j \in Jobs : plans[j] = << >>

(* However purchases and releases overlap, and whoever is killed on the    *)
(* way, no player has more ships in a corporation than the cap allows: the *)
(* count and the write that raises it are under one lock.                  *)
ShipCap == \A c \in Corps, p \in Players : Cardinality(Counted(c, p)) <= Cap

(* Once every call has ended, the two records of a membership say the      *)
(* same: leaving, being removed, being evicted by a founder who leaves or  *)
(* joins others, all at once, leave no one in one table only. Excepted are *)
(* calls that enrol a player, or into a corporation, that another call is  *)
(* removing at the time, and calls that ended early. With the same         *)
(* exceptions a corporation is without its founder only when it is         *)
(* disbanded, and no one is left in one that is.                           *)
RollsAgree ==
  Resting /\ ~crossed =>
    \A c \in Corps : /\ \A p \in Players : p \in member[c] <=> affil[p] = c
                     /\ Active(c) => corps[c].founder \in member[c]
                     /\ corps[c].gone => member[c] = {}

(* A disbanded corporation owns no ship that flies: not one it had when    *)
(* its founder asked to leave, nor one bought between that question and    *)
(* the list of its ships that the disbanding makes. Excepted is a ship     *)
(* registered after that list was made: the disbanding releases only the    *)
(* ships it listed, and the purchase does not ask again.                   *)
NothingOrphaned ==
  Resting /\ ~crossed =>
    \A c \in Corps : corps[c].gone => \A h \in Hulls : ships[h].live => ships[h].corp /= c

(* A claim on a ship is never taken over: it goes away when its owner      *)
(* gives it up, and only a free ship is claimed, however many ask at once. *)
ClaimsHeld ==
  [][\A h \in Hulls : ships[h].byoa /= None => ships'[h].byoa \in {None, ships[h].byoa}]_vars
=============================================================================
