--------------------------- MODULE CatalogProofs ---------------------------
(***************************************************************************)
(* The administration and the directory of markets and events, for any     *)
(* number of administrators, markets and events and any timing: the list   *)
(* of super admins is sound and the roles follow it; the accounts of the   *)
(* directory keep their types, its counters count them, event ids are      *)
(* unique, every event is fit for the primary market and agrees with its   *)
(* secondary market, and an event whose admin lost his role stands still.  *)
(***************************************************************************)
EXTENDS Catalog, PricingProofs, FiniteSetTheorems, SequenceTheorems, TLAPS

(***************************************************************************)
(* The list of super admins.                                               *)
(***************************************************************************)
\* What Vec::remove leaves.
LEMMA RemoveAtFacts ==
  ASSUME NEW S, NEW s \in Seq(S), NEW i \in 1..Len(s)
  PROVE  /\ RemoveAt(s, i) \in Seq(S)
         /\ Len(RemoveAt(s, i)) = Len(s) - 1
         /\ \A k \in 1..(Len(s) - 1) :
              RemoveAt(s, i)[k] = IF k < i THEN s[k] ELSE s[k + 1]
<1> DEFINE front == SubSeq(s, 1, i - 1)
           back  == SubSeq(s, i + 1, Len(s))
<1>1. Len(s) \in Nat
  OBVIOUS
<1>2. /\ front \in Seq(S) /\ Len(front) = i - 1
      /\ \A k \in 1..(i - 1) : front[k] = s[k]
  BY <1>1, SubSeqProperties
<1>3. /\ back \in Seq(S) /\ Len(back) = Len(s) - i
      /\ \A k \in 1..(Len(s) - i) : back[k] = s[i + k]
  BY <1>1, SubSeqProperties
<1>4. RemoveAt(s, i) = front \o back
  BY DEF RemoveAt
<1> HIDE DEF front, back
<1>5. /\ front \o back \in Seq(S)
      /\ Len(front \o back) = Len(front) + Len(back)
      /\ \A k \in 1..(Len(front) + Len(back)) : (front \o back)[k] =
           IF k <= Len(front) THEN front[k] ELSE back[k - Len(front)]
  BY <1>2, <1>3, ConcatProperties
<1>6. ASSUME NEW k \in 1..(Len(s) - 1)
      PROVE  (front \o back)[k] = IF k < i THEN s[k] ELSE s[k + 1]
  <2>1. CASE k < i
    BY <1>1, <1>2, <1>3, <1>5, <2>1
  <2>2. CASE k >= i
    <3>1. (front \o back)[k] = back[k - (i - 1)]
      BY <1>1, <1>2, <1>3, <1>5, <2>2
    <3>2. k - (i - 1) \in 1..(Len(s) - i) /\ i + (k - (i - 1)) = k + 1
      BY <1>1, <2>2
    <3>3. back[k - (i - 1)] = s[k + 1]
      BY <1>3, <3>2
    <3>4. ~ (k < i)
      BY <1>1, <2>2
    <3> QED  BY <3>1, <3>3, <3>4
  <2>3. k < i \/ k >= i
    BY <1>1
  <2> QED  BY <2>1, <2>2, <2>3
<1> QED
  BY <1>1, <1>2, <1>3, <1>4, <1>5, <1>6

\* What an addition does to a sound list and to the roles.
LEMMA AddStep ==
  ASSUME HierarchySound, NEW w \in Admins, NEW v \in Admins, AddSuperAdmin(w, v)
  PROVE  /\ HierarchySound'
         /\ SuperAdmins' = SuperAdmins \cup {v} /\ v \notin SuperAdmins
         /\ w \in SuperAdmins /\ w \in SuperAdmins'
<1>1. /\ Exists /\ w \in SuperAdmins /\ v \notin SuperAdmins
      /\ Len(super_admins) < MaxSuperAdmins
      /\ super_admins' = Append(super_admins, v)
  BY DEF AddSuperAdmin, IsSuperAdmin, SuperAdmins
<1>2. /\ super_admins \in Seq(Admins) /\ IsInjective(super_admins)
      /\ Len(super_admins) \in Nat
  BY <1>1 DEF HierarchySound
<1>3. /\ super_admins' \in Seq(Admins)
      /\ Len(super_admins') = Len(super_admins) + 1
      /\ \A k \in 1..Len(super_admins) : super_admins'[k] = super_admins[k]
      /\ super_admins'[Len(super_admins) + 1] = v
  BY <1>1, <1>2, AppendProperties
<1>4. Exists'
  BY <1>3, HierarchyAssumption DEF Exists
<1>5. /\ DOMAIN super_admins = 1..Len(super_admins)
      /\ DOMAIN super_admins' = 1..(Len(super_admins) + 1)
  BY <1>2, <1>3, LenProperties
<1>6. /\ SuperAdmins = {super_admins[k] : k \in 1..Len(super_admins)}
      /\ SuperAdmins' = {super_admins'[k] : k \in 1..(Len(super_admins) + 1)}
  BY <1>1, <1>4, <1>5 DEF SuperAdmins, ToSet
<1>7. SuperAdmins' = SuperAdmins \cup {v}
  BY <1>2, <1>3, <1>6
<1>8. IsInjective(super_admins')
  <2> SUFFICES ASSUME NEW j \in 1..(Len(super_admins) + 1),
                      NEW k \in 1..(Len(super_admins) + 1),
                      super_admins'[j] = super_admins'[k], j < k
               PROVE  FALSE
    BY <1>2, <1>5 DEF IsInjective
  <2>1. j \in 1..Len(super_admins) /\ super_admins'[j] = super_admins[j]
    BY <1>2, <1>3
  <2>2. CASE k = Len(super_admins) + 1
    BY <1>1, <1>3, <1>6, <2>1, <2>2
  <2>3. CASE k # Len(super_admins) + 1
    <3>1. k \in 1..Len(super_admins) /\ super_admins'[k] = super_admins[k]
      BY <1>2, <1>3, <2>3
    <3>2. j = k
      BY <1>2, <1>5, <2>1, <3>1 DEF IsInjective
    <3> QED  BY <2>1, <3>1, <3>2
  <2> QED  BY <2>2, <2>3
<1> QED
  BY <1>1, <1>2, <1>3, <1>7, <1>8, HierarchyAssumption DEF HierarchySound

\* What a removal does to a sound list and to the roles.
LEMMA RemoveStep ==
  ASSUME HierarchySound, NEW w \in Admins, NEW v \in Admins,
         RemoveSuperAdmin(w, v)
  PROVE  /\ HierarchySound'
         /\ SuperAdmins' = SuperAdmins \ {v} /\ v \in SuperAdmins
         /\ SuperAdmins' # {}
<1>1. Exists /\ Len(super_admins) > 1
  BY DEF RemoveSuperAdmin, IsSuperAdmin, SuperAdmins
<1>2. /\ super_admins \in Seq(Admins) /\ IsInjective(super_admins)
      /\ Len(super_admins) \in 1..MaxSuperAdmins
  BY <1>1 DEF HierarchySound
<1> DEFINE n == Len(super_admins)
<1>3. DOMAIN super_admins = 1..n /\ n \in Nat
  BY <1>2, LenProperties
<1>4. PICK i \in 1..n : super_admins[i] = v /\ super_admins' = RemoveAt(super_admins, i)
  BY <1>3 DEF RemoveSuperAdmin
<1>5. /\ super_admins' \in Seq(Admins) /\ Len(super_admins') = n - 1
      /\ \A k \in 1..(n - 1) : super_admins'[k] =
           IF k < i THEN super_admins[k] ELSE super_admins[k + 1]
  BY <1>2, <1>4, RemoveAtFacts
<1>6. DOMAIN super_admins' = 1..(n - 1)
  BY <1>5, LenProperties
<1>7. Exists'
  BY <1>5, HierarchyAssumption DEF Exists
<1>8. /\ SuperAdmins = {super_admins[k] : k \in 1..n}
      /\ SuperAdmins' = {super_admins'[k] : k \in 1..(n - 1)}
  BY <1>1, <1>3, <1>6, <1>7 DEF SuperAdmins, ToSet
<1> HIDE DEF n
<1>9. \A j, k \in 1..n : super_admins[j] = super_admins[k] => j = k
  BY <1>2, <1>3 DEF IsInjective
<1>10. SuperAdmins' = SuperAdmins \ {v}
  <2>1. ASSUME NEW k \in 1..(n - 1)
        PROVE  super_admins'[k] \in SuperAdmins /\ super_admins'[k] # v
    <3>1. CASE k < i
      BY <1>3, <1>4, <1>5, <1>8, <1>9, <3>1
    <3>2. CASE ~ (k < i)
      <4>1. super_admins'[k] = super_admins[k + 1] /\ k + 1 \in 1..n /\ k + 1 # i
        BY <1>3, <1>5, <3>2
      <4> QED  BY <1>4, <1>8, <1>9, <4>1
    <3> QED  BY <3>1, <3>2
  <2>2. ASSUME NEW k \in 1..n, super_admins[k] # v
        PROVE  super_admins[k] \in SuperAdmins'
    <3>1. CASE k < i
      <4>1. k \in 1..(n - 1) /\ super_admins'[k] = super_admins[k]
        BY <1>3, <1>5, <3>1
      <4> QED  BY <1>8, <4>1
    <3>2. CASE ~ (k < i)
      <4>1. k # i
        BY <1>4, <2>2
      <4>2. /\ k - 1 \in 1..(n - 1) /\ ~ (k - 1 < i) /\ (k - 1) + 1 = k
        BY <1>3, <3>2, <4>1
      <4>3. super_admins'[k - 1] = super_admins[k]
        BY <1>5, <4>2
      <4> QED  BY <1>8, <4>2, <4>3
    <3> QED  BY <3>1, <3>2
  <2> QED  BY <1>8, <2>1, <2>2
<1>11. v \in SuperAdmins
  BY <1>4, <1>8
<1>12. SuperAdmins' # {}
  <2>1. 1 \in 1..(n - 1)
    BY <1>1, <1>3 DEF n
  <2> QED  BY <1>8, <2>1
<1>13. IsInjective(super_admins')
  <2> SUFFICES ASSUME NEW j \in 1..(n - 1), NEW k \in 1..(n - 1),
                      super_admins'[j] = super_admins'[k]
               PROVE  j = k
    BY <1>6 DEF IsInjective
  <2> DEFINE shift(x) == IF x < i THEN x ELSE x + 1
  <2>1. \A x \in 1..(n - 1) :
          shift(x) \in 1..n /\ super_admins'[x] = super_admins[shift(x)]
    BY <1>3, <1>5
  <2>2. shift(j) = shift(k)
    <3> HIDE DEF shift
    <3> QED  BY <1>9, <2>1
  <2> QED  BY <1>3, <2>2
<1>14. Len(super_admins') \in 1..MaxSuperAdmins
  BY <1>1, <1>2, <1>3, <1>5, HierarchyAssumption DEF n
<1> QED
  BY <1>5, <1>10, <1>11, <1>12, <1>13, <1>14 DEF HierarchySound

\* The soundness of the list is inductive.
LEMMA NextHierarchySound == HierarchySound /\ [AdminNext]_super_admins => HierarchySound'
<1> SUFFICES ASSUME HierarchySound, [AdminNext]_super_admins
             PROVE  HierarchySound'
  OBVIOUS
<1>1. ASSUME NEW w \in Admins, InitializeAdminHierarchy(w)
      PROVE  HierarchySound'
  <2>1. super_admins' = <<w>>
    BY <1>1 DEF InitializeAdminHierarchy
  <2> QED  BY <2>1, HierarchyAssumption DEF HierarchySound, IsInjective
<1>2. ASSUME NEW w \in Admins, CloseAdminHierarchy(w)
      PROVE  HierarchySound'
  BY <1>2 DEF CloseAdminHierarchy, HierarchySound, Exists
<1>3. CASE UNCHANGED super_admins
  BY <1>3 DEF HierarchySound, Exists
<1> QED
  BY <1>1, <1>2, <1>3, AddStep, RemoveStep DEF AdminNext
\* However the list is edited, closed and opened again, it is sound.
THEOREM HierarchyIsSound == AdminSpec => []HierarchySound
<1>1. AdminInit => HierarchySound
  BY DEF AdminInit, HierarchySound, Exists
<1> QED
  BY <1>1, NextHierarchySound, PTL DEF AdminSpec

\* Every edit of a list changes the role of exactly one wallet, and leaves
\* somebody in charge who was so before.
THEOREM RolesAreListed == AdminSpec => RolesFollowList
<1> DEFINE Step ==
      Exists /\ Exists' =>
        /\ \E w \in Admins :
             \/ SuperAdmins' = SuperAdmins \cup {w} /\ w \notin SuperAdmins
             \/ SuperAdmins' = SuperAdmins \ {w} /\ w \in SuperAdmins
        /\ SuperAdmins \cap SuperAdmins' # {}
<1>1. ASSUME HierarchySound, AdminNext
      PROVE  Step
  <2>1. ASSUME NEW w \in Admins, InitializeAdminHierarchy(w)
        PROVE  Step
    BY <2>1 DEF InitializeAdminHierarchy
  <2>2. ASSUME NEW w \in Admins, CloseAdminHierarchy(w)
        PROVE  Step
    BY <2>2 DEF CloseAdminHierarchy, Exists
  <2>3. ASSUME NEW w \in Admins, NEW v \in Admins, AddSuperAdmin(w, v)
        PROVE  Step
    BY <1>1, <2>3, AddStep
  <2>4. ASSUME NEW w \in Admins, NEW v \in Admins, RemoveSuperAdmin(w, v)
        PROVE  Step
    BY <1>1, <2>4, RemoveStep
  <2> HIDE DEF Step
  <2> QED  BY <1>1, <2>1, <2>2, <2>3, <2>4 DEF AdminNext
<1>2. HierarchySound /\ [AdminNext]_super_admins => [Step]_super_admins
  BY <1>1
<1> HIDE DEF Step
<1>3. AdminSpec => [][Step]_super_admins
  BY <1>2, HierarchyIsSound, PTL DEF AdminSpec
<1> QED
  BY <1>3, PTL DEF RolesFollowList, Step
-----------------------------------------------------------------------------
(***************************************************************************)
(* The directory.                                                          *)
(***************************************************************************)
\* The actions that change one existing event and nothing of the directory.
EventAction(a, key) ==
  \/ \E s \in AdminStatuses : UpdateEvent(a, key, s)
  \/ \E outcome \in Outcome : ResolveEvent(a, key, outcome)
  \/ CancelEvent(a, key)
  \/ EndPrimaryMarket(a, key)
  \/ OpenSecondaryMarket(a, key)
  \/ \E outcome \in Outcome : ResolveSecondaryMarket(a, key, outcome)

\* The actions on the administration and on the markets, and the clock.
DirectoryAction ==
  \/ AdminNext /\ UNCHANGED catalogVars
  \/ InitializeGlobalState
  \/ \E a \in Admins, m \in MarketIds : CreateMarket(a, m)
  \/ \E a \in Admins, m \in MarketIds, s \in MarketStatus : UpdateMarket(a, m, s)
  \/ \E a \in Admins, m \in MarketIds : DeactivateMarket(a, m)
  \/ Tick

\* Every step of the catalogue belongs to the administration, creates an
\* event, or changes one.
LEMMA NextSplit ==
  Next <=> \/ DirectoryAction
           \/ \E a \in Admins, m \in MarketIds, e \in EventIds, odds \in OptaOdds,
                 ts \in MatchTimes : CreateEvent(a, m, e, odds, ts)
           \/ \E a \in Admins, key \in EventKeys : EventAction(a, key)
BY Zenon DEF Next, DirectoryAction, EventAction

\* The event that an action leaves behind, and what becomes meanwhile of the
\* secondary_market account: nothing, or it is opened, or closed with an outcome.
KeepsEvent(old, new) ==
  /\ new \in Event
  /\ new.admin = old.admin
  /\ new.created_at = old.created_at
  /\ new.event_start_time = old.event_start_time
  /\ new.primary_market_close = old.primary_market_close
  /\ new.yes_share_price = old.yes_share_price
  /\ new.no_share_price = old.no_share_price
  /\ old.winning_outcome # "None" => new.winning_outcome # "None"

KeepsLink(key, old, new) ==
  \/ /\ UNCHANGED secondary_markets
     /\ new.secondary_market_state = old.secondary_market_state
  \/ /\ secondary_markets' = [secondary_markets EXCEPT ![key[2]] = "Open"]
     /\ new.secondary_market_state = TRUE
     /\ now >= old.primary_market_close
  \/ /\ secondary_markets' = [secondary_markets EXCEPT ![key[2]] = "Closed"]
     /\ secondary_markets[key[2]] = "Open"
     /\ new.secondary_market_state = old.secondary_market_state
     /\ new.winning_outcome # "None"

\* Every event action is such a change of one existing event.
LEMMA EventActionChanges ==
  ASSUME TypeOK, NEW a \in Admins, NEW key \in EventKeys, EventAction(a, key)
  PROVE  /\ Created(key)
         /\ \E new : /\ SetEvent(key, new)
                     /\ KeepsEvent(events[key], new)
                     /\ KeepsLink(key, events[key], new)
<1> DEFINE old == events[key]
           Goal == \E new : /\ SetEvent(key, new)
                            /\ KeepsEvent(old, new)
                            /\ KeepsLink(key, old, new)
<1>1. Created(key) /\ old \in Event
  BY DEF EventAction, UpdateEvent, ResolveEvent, CancelEvent, EndPrimaryMarket,
         OpenSecondaryMarket, ResolveSecondaryMarket, Manages, Created, TypeOK
<1>2. ASSUME NEW s \in EventStatus,
             SetEvent(key, [old EXCEPT !.status = s]), UNCHANGED secondary_markets
      PROVE  Goal
  <2> DEFINE new == [old EXCEPT !.status = s]
  <2>1. KeepsEvent(old, new) /\ KeepsLink(key, old, new)
    <3> HIDE DEF old
    <3> QED  BY <1>1, <1>2 DEF KeepsEvent, KeepsLink, Event
  <2> QED  BY <1>2, <2>1
<1>3. ASSUME NEW s \in AdminStatuses, UpdateEvent(a, key, s)
      PROVE  Goal
  BY <1>2, <1>3, DirectoryAssumption DEF UpdateEvent
<1>4. ASSUME CancelEvent(a, key) \/ EndPrimaryMarket(a, key)
      PROVE  Goal
  <2>1. "Settled" \in EventStatus /\ "PrimaryClosed" \in EventStatus
    BY DEF EventStatus
  <2> QED  BY <1>2, <1>4, <2>1 DEF CancelEvent, EndPrimaryMarket
<1>5. ASSUME NEW outcome \in Outcome, ResolveEvent(a, key, outcome)
      PROVE  Goal
  <2> DEFINE new == [old EXCEPT !.status = "Resolved", !.winning_outcome = outcome]
  <2>1. SetEvent(key, new) /\ UNCHANGED secondary_markets
    BY <1>5 DEF ResolveEvent
  <2>2. KeepsEvent(old, new) /\ KeepsLink(key, old, new)
    <3> HIDE DEF old
    <3> QED  BY <1>1, <2>1 DEF KeepsEvent, KeepsLink, Event, EventStatus, Outcome
  <2> QED  BY <2>1, <2>2
<1>6. ASSUME OpenSecondaryMarket(a, key)
      PROVE  Goal
  <2> DEFINE new == [old EXCEPT !.status = "SecondaryActive",
                                !.secondary_market_state = TRUE]
  <2>1. /\ SetEvent(key, new) /\ now >= old.primary_market_close
        /\ secondary_markets' = [secondary_markets EXCEPT ![key[2]] = "Open"]
    BY <1>6 DEF OpenSecondaryMarket
  <2>2. KeepsEvent(old, new) /\ new.secondary_market_state = TRUE
    <3> HIDE DEF old
    <3> QED  BY <1>1 DEF KeepsEvent, Event, EventStatus
  <2> HIDE DEF new
  <2>3. KeepsLink(key, old, new)
    BY <2>1, <2>2 DEF KeepsLink
  <2> QED  BY <2>1, <2>2, <2>3
<1>7. ASSUME NEW outcome \in Outcome, ResolveSecondaryMarket(a, key, outcome)
      PROVE  Goal
  <2> DEFINE new == [old EXCEPT !.status = "Resolved", !.winning_outcome = outcome]
  <2>1. /\ SetEvent(key, new) /\ secondary_markets[key[2]] = "Open"
        /\ secondary_markets' = [secondary_markets EXCEPT ![key[2]] = "Closed"]
    BY <1>7 DEF ResolveSecondaryMarket
  <2>2. KeepsEvent(old, new) /\ KeepsLink(key, old, new)
    <3> HIDE DEF old
    <3> QED  BY <1>1, <2>1 DEF KeepsEvent, KeepsLink, Event, EventStatus, Outcome
  <2> QED  BY <2>1, <2>2
<1> QED
  BY <1>1, <1>3, <1>4, <1>5, <1>6, <1>7 DEF EventAction

\* What such a change means for the functions.
LEMMA EventActionFacts ==
  ASSUME TypeOK, NEW key \in EventKeys, Created(key), NEW new,
         SetEvent(key, new), KeepsEvent(events[key], new)
  PROVE  /\ events'[key] = new /\ new \in Event /\ new # Absent
         /\ events[key] \in Event
         /\ \A l \in EventKeys : l # key => events'[l] = events[l]
         /\ \A l \in EventKeys : Created(l)' <=> Created(l)
         /\ events' \in [EventKeys -> Event \cup {Absent}]
         /\ UNCHANGED <<super_admins, now, total_events, markets, order_books>>
<1>1. /\ events' = [events EXCEPT ![key] = new]
      /\ UNCHANGED <<super_admins, now, total_events, markets, order_books>>
  BY DEF SetEvent, directoryVars
<1>2. new \in Event /\ new # Absent /\ events[key] \in Event
  BY DirectoryAssumption DEF KeepsEvent, Created, TypeOK
<1> QED
  BY <1>1, <1>2 DEF TypeOK, Created

\* The actions that leave the events, their order books and their secondary
\* markets alone.
LEMMA DirectoryActionFacts ==
  ASSUME TypeOK, DirectoryAction
  PROVE  /\ UNCHANGED <<events, order_books, secondary_markets>>
         /\ now' \in 0..EndOfTime /\ now' >= now
         /\ total_events' \in Nat \cup {Absent}
         /\ markets' \in [MarketIds -> Market \cup {Absent}]
         /\ AdminNext \/ UNCHANGED super_admins
<1>1. UNCHANGED <<events, order_books, secondary_markets>>
  BY DEF DirectoryAction, InitializeGlobalState, CreateMarket, UpdateMarket,
         DeactivateMarket, Tick, catalogVars, directoryVars
<1>2. now' \in 0..EndOfTime /\ now' >= now
  BY DirectoryAssumption
     DEF DirectoryAction, InitializeGlobalState, CreateMarket, UpdateMarket,
         DeactivateMarket, Tick, catalogVars, TypeOK
<1>3. total_events' \in Nat \cup {Absent}
  BY DEF DirectoryAction, InitializeGlobalState, CreateMarket, UpdateMarket,
         DeactivateMarket, Tick, catalogVars, directoryVars, TypeOK
<1>4. AdminNext \/ UNCHANGED super_admins
  BY DEF DirectoryAction, InitializeGlobalState, CreateMarket, UpdateMarket,
         DeactivateMarket, Tick
<1>5. markets' \in [MarketIds -> Market \cup {Absent}]
  <2>1. ASSUME NEW a \in Admins, NEW m \in MarketIds, CreateMarket(a, m)
        PROVE  markets' \in [MarketIds -> Market \cup {Absent}]
    BY <2>1 DEF CreateMarket, TypeOK, Market, MarketStatus
  <2>2. ASSUME NEW m \in MarketIds, NEW s \in MarketStatus, markets[m] # Absent,
               markets' = [markets EXCEPT ![m].status = s]
        PROVE  markets' \in [MarketIds -> Market \cup {Absent}]
    BY <2>2 DEF TypeOK, Market
  <2>3. ASSUME NEW a \in Admins, NEW m \in MarketIds, NEW s \in MarketStatus,
               UpdateMarket(a, m, s) \/ DeactivateMarket(a, m)
        PROVE  markets' \in [MarketIds -> Market \cup {Absent}]
    BY <2>2, <2>3 DEF UpdateMarket, DeactivateMarket, OwnsMarket, MarketStatus
  <2>4. ASSUME \/ AdminNext /\ UNCHANGED catalogVars
               \/ InitializeGlobalState
               \/ Tick
        PROVE  markets' = markets
    BY <2>4 DEF InitializeGlobalState, Tick, catalogVars, directoryVars
  <2>5. \A a \in Admins, m \in MarketIds : DeactivateMarket(a, m) =>
          markets' \in [MarketIds -> Market \cup {Absent}]
    BY <2>3 DEF MarketStatus
  <2> QED
    BY <2>1, <2>3, <2>4, <2>5 DEF DirectoryAction, TypeOK
<1> QED
  BY <1>1, <1>2, <1>3, <1>4, <1>5

\* The new event and all that create_event leaves alone.
LEMMA CreateEventFacts ==
  ASSUME TypeOK, NEW a \in Admins, NEW m \in MarketIds, NEW e \in EventIds,
         NEW odds \in OptaOdds, NEW ts \in MatchTimes, CreateEvent(a, m, e, odds, ts)
  PROVE  LET key == <<m, e>>
             new == CreatedEvent(a, EventPrices(odds), ts)
         IN  /\ key \in EventKeys /\ ~Created(key)
             /\ new \in Event /\ new # Absent
             /\ events'[key] = new
             /\ \A l \in EventKeys : l # key => events'[l] = events[l]
             /\ events' \in [EventKeys -> Event \cup {Absent}]
             /\ e \notin order_books /\ order_books' = order_books \cup {e}
             /\ UNCHANGED <<super_admins, now, secondary_markets>>
             /\ ts > now + LeadTime
             /\ CanMatchOrders(new.yes_share_price, new.no_share_price)
             /\ total_events' \in Nat
             /\ markets' \in [MarketIds -> Market \cup {Absent}]
<1> DEFINE key == <<m, e>>
           prices == EventPrices(odds)
           new == CreatedEvent(a, prices, ts)
<1>1. /\ total_events \in Nat /\ markets[m] \in Market
      /\ ~Created(key) /\ e \notin order_books
      /\ odds \in 0..BasisPoints /\ ts > now + LeadTime /\ CountEvent(m)
      /\ events' = [events EXCEPT ![key] = new]
      /\ order_books' = order_books \cup {e}
      /\ UNCHANGED <<super_admins, now, secondary_markets>>
  BY DirectoryAssumption, BasisPointsAssumption
     DEF CreateEvent, TypeOK, BookFree, OddsAccepted, EarlyEnough
<1>2. /\ prices.yes \in Nat /\ prices.no \in Nat
      /\ CanMatchOrders(prices.yes, prices.no)
  BY <1>1, EventPricesMakeOneSol
<1>3. now \in Nat /\ ts \in Nat /\ ts - CloseBefore \in Nat
  BY <1>1, DirectoryAssumption, LeadAssumption DEF TypeOK
<1>4. key \in EventKeys
  BY DEF EventKeys
<1> HIDE DEF prices, key
<1>5. new \in Event
  BY <1>2, <1>3 DEF CreatedEvent, Event, EventStatus
<1>6. new.yes_share_price = prices.yes /\ new.no_share_price = prices.no
  BY DEF CreatedEvent
<1> HIDE DEF new
<1>7. new # Absent
  BY <1>5, DirectoryAssumption
<1>8. /\ events'[key] = new
      /\ \A l \in EventKeys : l # key => events'[l] = events[l]
      /\ events' \in [EventKeys -> Event \cup {Absent}]
  BY <1>1, <1>4, <1>5 DEF TypeOK
<1>9. /\ total_events' \in Nat
      /\ markets' \in [MarketIds -> Market \cup {Absent}]
  BY <1>1 DEF CountEvent, TypeOK, Market
<1> QED
  BY <1>1, <1>2, <1>4, <1>5, <1>6, <1>7, <1>8, <1>9 DEF key, new, prices
-----------------------------------------------------------------------------
(***************************************************************************)
(* The inductive invariant: SecondaryLinked needs EventIdsUnique, for the  *)
(* secondary_market account of an event is found by the event id alone.    *)
(***************************************************************************)
CatalogInv ==
  /\ HierarchySound
  /\ TypeOK
  /\ EventIdsUnique
  /\ ReadyForPrimary
  /\ SecondaryLinked

\* An empty program satisfies the invariant.
LEMMA InitCatalogInv == Init => CatalogInv
<1> SUFFICES ASSUME Init PROVE CatalogInv
  OBVIOUS
<1>1. /\ ~Exists /\ \A key \in EventKeys : ~Created(key)
      /\ order_books = {} /\ \A e \in EventIds : secondary_markets[e] = Absent
  BY DEF Init, AdminInit, Exists, Created
<1>2. HierarchySound
  BY <1>1 DEF HierarchySound
<1>3. TypeOK
  BY <1>1, DirectoryAssumption DEF Init, TypeOK
<1>4. EventIdsUnique
  BY <1>1 DEF EventIdsUnique, EventKeys
<1>5. ReadyForPrimary /\ SecondaryLinked
  BY <1>1 DEF ReadyForPrimary, SecondaryLinked
<1> QED
  BY <1>2, <1>3, <1>4, <1>5 DEF CatalogInv

\* The instructions on admins and markets, and the clock, leave every event
\* alone; time only makes the conditions on it easier to meet.
LEMMA DirectoryKeepsInv ==
  ASSUME CatalogInv, DirectoryAction
  PROVE  CatalogInv'
<1>1. /\ UNCHANGED <<events, order_books, secondary_markets>>
      /\ now' \in 0..EndOfTime /\ now' >= now
      /\ total_events' \in Nat \cup {Absent}
      /\ markets' \in [MarketIds -> Market \cup {Absent}]
      /\ AdminNext \/ UNCHANGED super_admins
  BY DirectoryActionFacts DEF CatalogInv
<1>2. HierarchySound'
  BY <1>1, NextHierarchySound DEF CatalogInv
<1>3. TypeOK'
  BY <1>1, <1>2 DEF CatalogInv, TypeOK, HierarchySound
<1>4. EventIdsUnique' /\ ReadyForPrimary'
  BY <1>1 DEF CatalogInv, EventIdsUnique, ReadyForPrimary, Created
<1>5. SecondaryLinked'
  <2> SUFFICES ASSUME NEW key \in EventKeys, Created(key),
                      secondary_markets[key[2]] # Absent
               PROVE  now' >= events[key].primary_market_close
    BY <1>1 DEF CatalogInv, SecondaryLinked, Created
  <2>1. now >= events[key].primary_market_close
    BY DEF CatalogInv, SecondaryLinked
  <2>2. events[key].primary_market_close \in Nat /\ now \in Nat /\ now' \in Nat
    BY <1>1, DirectoryAssumption DEF CatalogInv, TypeOK, Created, Event
  <2> QED  BY <1>1, <2>1, <2>2
<1> QED
  BY <1>2, <1>3, <1>4, <1>5 DEF CatalogInv

\* create_event adds one event, under an id that no order book has, with a
\* lead and prices that suit the primary market.
LEMMA CreateEventKeepsInv ==
  ASSUME CatalogInv, NEW a \in Admins, NEW m \in MarketIds, NEW e \in EventIds,
         NEW odds \in OptaOdds, NEW ts \in MatchTimes, CreateEvent(a, m, e, odds, ts)
  PROVE  CatalogInv'
<1> DEFINE key == <<m, e>>
           new == CreatedEvent(a, EventPrices(odds), ts)
<1>1. /\ key \in EventKeys /\ ~Created(key) /\ key[1] = m /\ key[2] = e
      /\ new \in Event /\ new # Absent
      /\ events'[key] = new
      /\ \A l \in EventKeys : l # key => events'[l] = events[l]
      /\ events' \in [EventKeys -> Event \cup {Absent}]
      /\ e \notin order_books /\ order_books' = order_books \cup {e}
      /\ UNCHANGED <<super_admins, now, secondary_markets>>
      /\ ts > now + LeadTime
      /\ CanMatchOrders(new.yes_share_price, new.no_share_price)
      /\ total_events' \in Nat
      /\ markets' \in [MarketIds -> Market \cup {Absent}]
  BY CreateEventFacts DEF CatalogInv
<1>2. /\ new.created_at = now /\ new.event_start_time = ts
      /\ new.primary_market_close = ts - CloseBefore
      /\ new.secondary_market_state = FALSE
  BY DEF CreatedEvent
<1> HIDE DEF key, new
<1>3. HierarchySound'
  BY <1>1 DEF CatalogInv, HierarchySound, Exists
<1>4. TypeOK'
  BY <1>1, <1>3 DEF CatalogInv, TypeOK, HierarchySound
<1>5. \A l \in EventKeys : Created(l)' <=> Created(l) \/ l = key
  BY <1>1 DEF Created
<1>6. \A l \in EventKeys : Created(l) => l[2] # e
  <2> SUFFICES ASSUME NEW l \in EventKeys, Created(l) PROVE l[2] \in order_books
    BY <1>1
  <2>1. l = <<l[1], l[2]>> /\ l[1] \in MarketIds /\ l[2] \in EventIds
    BY DEF EventKeys
  <2> QED  BY <2>1 DEF CatalogInv, EventIdsUnique
<1>7. EventIdsUnique'
  <2>1. ASSUME NEW k \in EventKeys, NEW l \in EventKeys,
               Created(k)', Created(l)', k[2] = l[2]
        PROVE  k = l
    BY <1>1, <1>5, <1>6, <2>1 DEF CatalogInv, EventIdsUnique
  <2>2. ASSUME NEW d \in EventIds
        PROVE  d \in order_books' <=> \E p \in MarketIds : Created(<<p, d>>)'
    <3>1. \A p \in MarketIds : <<p, d>> \in EventKeys /\ (<<p, d>> = key => d = e)
      BY DEF EventKeys, key
    <3>2. CASE d = e
      BY <1>1, <1>5, <3>1, <3>2 DEF key
    <3>3. CASE d # e
      BY <1>1, <1>5, <3>1, <3>3 DEF CatalogInv, EventIdsUnique
    <3> QED  BY <3>2, <3>3
  <2> QED  BY <2>1, <2>2 DEF EventIdsUnique, Created
<1>8. ReadyForPrimary'
  <2>1. /\ now < ts - CloseBefore /\ ts - CloseBefore < ts
    BY <1>1, LeadAssumption, DirectoryAssumption DEF CatalogInv, TypeOK
  <2> SUFFICES ASSUME NEW l \in EventKeys, Created(l)'
               PROVE  /\ events'[l].created_at < events'[l].primary_market_close
                      /\ events'[l].primary_market_close < events'[l].event_start_time
                      /\ CanMatchOrders(events'[l].yes_share_price,
                                        events'[l].no_share_price)
    BY DEF ReadyForPrimary, CanMatchOrders
  <2>2. CASE l = key
    BY <1>1, <1>2, <2>1, <2>2
  <2>3. CASE l # key
    BY <1>1, <1>5, <2>3 DEF CatalogInv, ReadyForPrimary
  <2> QED  BY <2>2, <2>3
<1>9. SecondaryLinked'
  <2>1. secondary_markets[e] = Absent
    BY <1>1 DEF CatalogInv, SecondaryLinked
  <2>2. "Closed" # Absent /\ "Closed" # secondary_markets[e]
    BY <2>1, DirectoryAssumption
  <2>3. ASSUME NEW l \in EventKeys, Created(l)'
        PROVE  /\ events'[l].secondary_market_state <=> secondary_markets[l[2]] # Absent
               /\ secondary_markets[l[2]] # Absent =>
                    now >= events'[l].primary_market_close
               /\ secondary_markets[l[2]] = "Closed" =>
                    events'[l].winning_outcome # "None"
    <3>1. CASE l = key
      BY <1>1, <1>2, <2>1, <2>2, <3>1
    <3>2. CASE l # key
      BY <1>1, <1>5, <2>3, <3>2 DEF CatalogInv, SecondaryLinked
    <3> QED  BY <3>1, <3>2
  <2>4. \A d \in EventIds \ order_books' : secondary_markets[d] = Absent
    BY <1>1 DEF CatalogInv, SecondaryLinked
  <2> QED  BY <1>1, <2>3, <2>4 DEF SecondaryLinked, Created
<1> QED
  BY <1>3, <1>4, <1>7, <1>8, <1>9 DEF CatalogInv

\* An instruction on an event keeps its admin, times and prices, so that what
\* remains to be shown is its link to the secondary market.
LEMMA EventActionKeepsInv ==
  ASSUME CatalogInv, NEW a \in Admins, NEW key \in EventKeys, EventAction(a, key)
  PROVE  CatalogInv'
<1>1. /\ Created(key)
      /\ \E new : /\ SetEvent(key, new)
                  /\ KeepsEvent(events[key], new)
                  /\ KeepsLink(key, events[key], new)
  BY EventActionChanges DEF CatalogInv
<1>2. PICK new : /\ SetEvent(key, new)
                 /\ KeepsEvent(events[key], new)
                 /\ KeepsLink(key, events[key], new)
  BY <1>1
<1>3. /\ events'[key] = new /\ new \in Event /\ new # Absent
      /\ events[key] \in Event
      /\ \A l \in EventKeys : l # key => events'[l] = events[l]
      /\ \A l \in EventKeys : Created(l)' <=> Created(l)
      /\ events' \in [EventKeys -> Event \cup {Absent}]
      /\ UNCHANGED <<super_admins, now, total_events, markets, order_books>>
  BY <1>1, <1>2, EventActionFacts DEF CatalogInv
<1>4. key[2] \in EventIds
  BY DEF EventKeys
<1>5. secondary_markets' \in [EventIds -> {Absent, "Open", "Closed"}]
  BY <1>2, <1>4 DEF KeepsLink, CatalogInv, TypeOK
<1>6. HierarchySound'
  BY <1>3 DEF CatalogInv, HierarchySound, Exists
<1>7. TypeOK'
  BY <1>3, <1>5, <1>6 DEF CatalogInv, TypeOK, HierarchySound
<1>8. EventIdsUnique'
  <2>1. \A d \in EventIds, m \in MarketIds : <<m, d>> \in EventKeys
    BY DEF EventKeys
  <2>2. ASSUME NEW d \in EventIds
        PROVE  d \in order_books' <=> \E m \in MarketIds : Created(<<m, d>>)'
    BY <1>3, <2>1 DEF CatalogInv, EventIdsUnique
  <2>3. ASSUME NEW k \in EventKeys, NEW l \in EventKeys,
               Created(k)', Created(l)', k[2] = l[2]
        PROVE  k = l
    BY <1>3, <2>3 DEF CatalogInv, EventIdsUnique
  <2> QED  BY <2>2, <2>3 DEF EventIdsUnique, Created
<1>9. ReadyForPrimary'
  <2> SUFFICES ASSUME NEW l \in EventKeys, Created(l)'
               PROVE  /\ events'[l].created_at < events'[l].primary_market_close
                      /\ events'[l].primary_market_close < events'[l].event_start_time
                      /\ CanMatchOrders(events'[l].yes_share_price,
                                        events'[l].no_share_price)
    BY DEF ReadyForPrimary, CanMatchOrders
  <2>1. CASE l = key
    BY <1>1, <1>2, <1>3, <2>1 DEF KeepsEvent, CatalogInv, ReadyForPrimary
  <2>2. CASE l # key
    BY <1>3, <2>2 DEF CatalogInv, ReadyForPrimary
  <2> QED  BY <2>1, <2>2
<1>10. SecondaryLinked'
  <2>1. /\ events[key].secondary_market_state <=> secondary_markets[key[2]] # Absent
        /\ secondary_markets[key[2]] # Absent => now >= events[key].primary_market_close
        /\ secondary_markets[key[2]] = "Closed" => events[key].winning_outcome # "None"
    BY <1>1 DEF CatalogInv, SecondaryLinked
  <2>2. "Open" # Absent /\ "Closed" # Absent
    BY DirectoryAssumption
  <2>3. \A d \in EventIds : d # key[2] => secondary_markets'[d] = secondary_markets[d]
    BY <1>2 DEF KeepsLink, CatalogInv, TypeOK
  <2>4. /\ new.secondary_market_state <=> secondary_markets'[key[2]] # Absent
        /\ secondary_markets'[key[2]] # Absent => now >= new.primary_market_close
        /\ secondary_markets'[key[2]] = "Closed" => new.winning_outcome # "None"
    <3>1. /\ new.primary_market_close = events[key].primary_market_close
          /\ events[key].winning_outcome # "None" => new.winning_outcome # "None"
      BY <1>2 DEF KeepsEvent
    <3>2. CASE /\ UNCHANGED secondary_markets
               /\ new.secondary_market_state = events[key].secondary_market_state
      BY <2>1, <3>1, <3>2
    <3>3. CASE /\ secondary_markets' = [secondary_markets EXCEPT ![key[2]] = "Open"]
               /\ new.secondary_market_state = TRUE
               /\ now >= events[key].primary_market_close
      <4>1. secondary_markets'[key[2]] = "Open"
        BY <1>4, <3>3 DEF CatalogInv, TypeOK
      <4> QED  BY <2>2, <3>1, <3>3, <4>1
    <3>4. CASE /\ secondary_markets' = [secondary_markets EXCEPT ![key[2]] = "Closed"]
               /\ secondary_markets[key[2]] = "Open"
               /\ new.secondary_market_state = events[key].secondary_market_state
               /\ new.winning_outcome # "None"
      <4>1. secondary_markets'[key[2]] = "Closed"
        BY <1>4, <3>4 DEF CatalogInv, TypeOK
      <4> QED  BY <2>1, <2>2, <3>1, <3>4, <4>1
    <3> QED  BY <1>2, <3>2, <3>3, <3>4 DEF KeepsLink
  <2>5. ASSUME NEW l \in EventKeys, Created(l)'
        PROVE  /\ events'[l].secondary_market_state <=> secondary_markets'[l[2]] # Absent
               /\ secondary_markets'[l[2]] # Absent =>
                    now' >= events'[l].primary_market_close
               /\ secondary_markets'[l[2]] = "Closed" =>
                    events'[l].winning_outcome # "None"
    <3>1. CASE l = key
      BY <1>3, <2>4, <3>1
    <3>2. CASE l # key
      <4>1. l[2] # key[2] /\ l[2] \in EventIds /\ Created(l)
        BY <1>1, <1>3, <2>5, <3>2 DEF CatalogInv, EventIdsUnique, EventKeys
      <4> QED  BY <1>3, <2>3, <3>2, <4>1 DEF CatalogInv, SecondaryLinked
    <3> QED  BY <3>1, <3>2
  <2>6. \A d \in EventIds \ order_books' : secondary_markets'[d] = Absent
    <3>1. key[2] \in order_books
      <4>1. key = <<key[1], key[2]>> /\ key[1] \in MarketIds
        BY DEF EventKeys
      <4> QED  BY <1>1, <1>4, <4>1 DEF CatalogInv, EventIdsUnique
    <3> QED  BY <1>3, <2>3, <3>1 DEF CatalogInv, SecondaryLinked
  <2> QED  BY <2>5, <2>6 DEF SecondaryLinked, Created
<1> QED
  BY <1>6, <1>7, <1>8, <1>9, <1>10 DEF CatalogInv

\* CatalogInv is inductive.
LEMMA NextCatalogInv == CatalogInv /\ [Next]_vars => CatalogInv'
<1> SUFFICES ASSUME CatalogInv, [Next]_vars PROVE CatalogInv'
  OBVIOUS
<1>1. CASE UNCHANGED vars
  <2>1. HierarchySound' /\ TypeOK'
    BY <1>1 DEF CatalogInv, HierarchySound, Exists, TypeOK, vars
  <2>2. EventIdsUnique' /\ ReadyForPrimary' /\ SecondaryLinked'
    BY <1>1 DEF CatalogInv, EventIdsUnique, ReadyForPrimary, SecondaryLinked,
                Created, CanMatchOrders, vars
  <2> QED  BY <2>1, <2>2 DEF CatalogInv
<1>2. CASE Next
  BY <1>2, NextSplit, DirectoryKeepsInv, CreateEventKeepsInv, EventActionKeepsInv
<1> QED
  BY <1>1, <1>2

\* CatalogInv holds throughout every behaviour.
LEMMA SpecCatalogInv == Spec => []CatalogInv
<1> QED
  BY InitCatalogInv, NextCatalogInv, PTL DEF Spec
-----------------------------------------------------------------------------
\* Every account of the directory keeps its type: no price is negative and no
\* counter wraps.
THEOREM CatalogTypeCorrect == Spec => []TypeOK
<1>1. CatalogInv => TypeOK
  BY DEF CatalogInv
<1> QED
  BY <1>1, SpecCatalogInv, PTL

\* No two markets ever have an event of the same id.
THEOREM EventIdsAreUnique == Spec => []EventIdsUnique
<1>1. CatalogInv => EventIdsUnique
  BY DEF CatalogInv
<1> QED
  BY <1>1, SpecCatalogInv, PTL

\* Every event satisfies what PrimaryMarket assumes of its times and prices.
THEOREM EventsAreReady == Spec => []ReadyForPrimary
<1>1. CatalogInv => ReadyForPrimary
  BY DEF CatalogInv
<1> QED
  BY <1>1, SpecCatalogInv, PTL

\* An event and its secondary market account agree.
THEOREM SecondaryIsLinked == Spec => []SecondaryLinked
<1>1. CatalogInv => SecondaryLinked
  BY DEF CatalogInv
<1> QED
  BY <1>1, SpecCatalogInv, PTL

\* An event whose admin is no super admin stands still, but for the resolution
\* of its secondary market.
THEOREM OrphansStandStill == Spec => OrphanedEventsOnlyResolve
<1> DEFINE Still(key) ==
      Created(key) /\ events[key].admin \notin SuperAdmins =>
        \/ events'[key] = events[key]
        \/ /\ secondary_markets[key[2]] = "Open"
           /\ secondary_markets'[key[2]] = "Closed"
           /\ events'[key].status = "Resolved"
<1>1. ASSUME TypeOK, Next, NEW key \in EventKeys, Created(key),
             events[key].admin \notin SuperAdmins
      PROVE  Still(key)
  <2>1. CASE DirectoryAction
    BY <1>1, <2>1, DirectoryActionFacts
  <2>2. ASSUME NEW a \in Admins, NEW m \in MarketIds, NEW e \in EventIds,
               NEW odds \in OptaOdds, NEW ts \in MatchTimes,
               CreateEvent(a, m, e, odds, ts)
        PROVE  Still(key)
    <3>1. ~Created(<<m, e>>) /\ \A l \in EventKeys : l # <<m, e>> => events'[l] = events[l]
      BY <1>1, <2>2, CreateEventFacts
    <3> QED  BY <1>1, <3>1
  <2>3. ASSUME NEW a \in Admins, NEW l \in EventKeys, EventAction(a, l)
        PROVE  Still(key)
    <3>1. CASE l # key
      <4>1. Created(l) /\ \E new : SetEvent(l, new) /\ KeepsEvent(events[l], new)
        BY <1>1, <2>3, EventActionChanges
      <4>2. events'[key] = events[key]
        BY <1>1, <3>1, <4>1, EventActionFacts
      <4> QED  BY <4>2
    <3>2. CASE l = key
      <4>1. ~Manages(a, key)
        BY <1>1 DEF Manages, IsSuperAdmin
      <4>2. PICK outcome \in Outcome : ResolveSecondaryMarket(a, key, outcome)
        BY <2>3, <3>2, <4>1 DEF EventAction, UpdateEvent, ResolveEvent,
             CancelEvent, EndPrimaryMarket, OpenSecondaryMarket
      <4>3. /\ secondary_markets[key[2]] = "Open"
            /\ secondary_markets' = [secondary_markets EXCEPT ![key[2]] = "Closed"]
            /\ events' = [events EXCEPT ![key] =
                 [events[key] EXCEPT !.status = "Resolved",
                                     !.winning_outcome = outcome]]
        BY <4>2 DEF ResolveSecondaryMarket, SetEvent
      <4>4. key[2] \in EventIds /\ events[key] \in Event
        BY <1>1 DEF EventKeys, TypeOK, Created
      <4>5. secondary_markets'[key[2]] = "Closed"
        BY <1>1, <4>3, <4>4 DEF TypeOK
      <4>6. events'[key].status = "Resolved"
        BY <1>1, <4>3, <4>4 DEF TypeOK, Event
      <4> QED  BY <4>3, <4>5, <4>6
    <3> QED  BY <3>1, <3>2
  <2> HIDE DEF Still
  <2> QED  BY <1>1, <2>1, <2>2, <2>3, NextSplit
<1>2. TypeOK /\ [Next]_vars => \A key \in EventKeys : Still(key)
  <2> SUFFICES ASSUME TypeOK, [Next]_vars, NEW key \in EventKeys
               PROVE  Still(key)
    OBVIOUS
  <2>1. CASE UNCHANGED vars
    BY <2>1 DEF vars
  <2>2. CASE Next
    BY <1>1, <2>2
  <2> QED  BY <2>1, <2>2
<1> QED
  BY <1>2, CatalogTypeCorrect, PTL DEF OrphanedEventsOnlyResolve, Spec
-----------------------------------------------------------------------------
(***************************************************************************)
(* The counters.  Finitely many events exist at any time, and no market    *)
(* before the global state: the two facts without which CountsAgree is not *)
(* inductive.                                                              *)
(***************************************************************************)
FinitelyManyEvents == IsFiniteSet(EventsOf(MarketIds))
GlobalStateFirst == total_events = Absent => \A m \in MarketIds : markets[m] = Absent

CountInv ==
  /\ CatalogInv
  /\ CountsAgree
  /\ FinitelyManyEvents
  /\ GlobalStateFirst

\* A step that creates no event counts right if it leaves the counters of
\* what exists alone, and starts the new ones at zero.
LEMMA CountsKept ==
  ASSUME CountInv, \A key \in EventKeys : Created(key)' <=> Created(key),
         total_events' # total_events => total_events = Absent /\ total_events' = 0,
         \A m \in MarketIds :
           \/ markets[m] = Absent /\ markets'[m] = Absent
           \/ /\ markets[m] = Absent /\ total_events # Absent
              /\ markets'[m] # Absent /\ markets'[m].total_events = 0
           \/ /\ markets[m] # Absent /\ markets'[m] # Absent
              /\ markets'[m].total_events = markets[m].total_events
  PROVE  CountsAgree' /\ FinitelyManyEvents' /\ GlobalStateFirst'
<1>1. \A M \in SUBSET MarketIds : EventsOf(M)' = EventsOf(M)
  BY DEF EventsOf, EventKeys
<1>2. /\ EventsOf(MarketIds)' = EventsOf(MarketIds)
      /\ \A m \in MarketIds : EventsOf({m})' = EventsOf({m})
  BY <1>1 DEF EventsOf
<1>3. FinitelyManyEvents'
  BY <1>2 DEF CountInv, FinitelyManyEvents
<1>4. ASSUME total_events' # Absent
      PROVE  total_events' = Cardinality(EventsOf(MarketIds))
  <2>1. CASE total_events' = total_events
    BY <1>4, <2>1 DEF CountInv, CountsAgree
  <2>2. CASE total_events' # total_events
    <3>1. \A m \in MarketIds : markets[m] = Absent
      BY <2>2 DEF CountInv, GlobalStateFirst
    <3>2. \A m \in MarketIds : EventsOf({m}) = {}
      BY <3>1 DEF CountInv, CountsAgree
    <3>3. EventsOf(MarketIds) = {}
      BY <3>2 DEF EventsOf
    <3> QED  BY <2>2, <3>3, FS_EmptySet
  <2> QED  BY <2>1, <2>2
<1>5. ASSUME NEW m \in MarketIds
      PROVE  IF markets'[m] = Absent THEN EventsOf({m}) = {}
             ELSE markets'[m].total_events = Cardinality(EventsOf({m}))
  BY FS_EmptySet DEF CountInv, CountsAgree
<1>6. GlobalStateFirst'
  BY DirectoryAssumption DEF CountInv, GlobalStateFirst
<1> QED
  BY <1>2, <1>3, <1>4, <1>5, <1>6 DEF CountsAgree

\* What becomes of the counters in the actions on the administration and on
\* the markets.
LEMMA DirectoryKeepsCounts ==
  ASSUME CountInv, DirectoryAction
  PROVE  CountsAgree' /\ FinitelyManyEvents' /\ GlobalStateFirst'
<1>1. TypeOK
  BY DEF CountInv, CatalogInv
<1>2. \A key \in EventKeys : Created(key)' <=> Created(key)
  BY <1>1, DirectoryActionFacts DEF Created
<1>3. total_events' # total_events => total_events = Absent /\ total_events' = 0
  BY DEF DirectoryAction, InitializeGlobalState, CreateMarket, UpdateMarket,
         DeactivateMarket, Tick, catalogVars, directoryVars
<1> DEFINE Kept(m) ==
      \/ markets[m] = Absent /\ markets'[m] = Absent
      \/ /\ markets[m] = Absent /\ total_events # Absent
         /\ markets'[m] # Absent /\ markets'[m].total_events = 0
      \/ /\ markets[m] # Absent /\ markets'[m] # Absent
         /\ markets'[m].total_events = markets[m].total_events
<1>4. ASSUME markets' = markets, NEW m \in MarketIds
      PROVE  Kept(m)
  BY <1>4
<1>5. ASSUME NEW a \in Admins, NEW k \in MarketIds, CreateMarket(a, k),
             NEW m \in MarketIds
      PROVE  Kept(m)
  <2> DEFINE new == [admin |-> a, status |-> "Created", total_events |-> 0]
  <2>1. /\ total_events # Absent /\ markets[k] = Absent
        /\ markets' = [markets EXCEPT ![k] = new]
    BY <1>5 DEF CreateMarket
  <2>2. new # Absent /\ new.total_events = 0
    BY DirectoryAssumption DEF Market, MarketStatus
  <2> HIDE DEF new
  <2> QED  BY <1>1, <2>1, <2>2 DEF TypeOK
<1>6. ASSUME NEW k \in MarketIds, NEW s \in MarketStatus, markets[k] # Absent,
             markets' = [markets EXCEPT ![k].status = s], NEW m \in MarketIds
      PROVE  Kept(m)
  <2>1. CASE m = k
    <3>1. /\ markets[m] \in Market /\ markets'[m] = [markets[m] EXCEPT !.status = s]
      BY <1>1, <1>6, <2>1 DEF TypeOK
    <3>2. markets'[m] \in Market /\ markets'[m].total_events = markets[m].total_events
      BY <3>1 DEF Market
    <3> QED  BY <3>1, <3>2, DirectoryAssumption
  <2>2. CASE m # k
    BY <1>1, <1>6, <2>2 DEF TypeOK
  <2> QED  BY <2>1, <2>2
<1>7. ASSUME NEW m \in MarketIds
      PROVE  Kept(m)
  <2> HIDE DEF Kept
  <2>1. ASSUME NEW a \in Admins, NEW k \in MarketIds, DeactivateMarket(a, k)
        PROVE  Kept(m)
    BY <1>6, <2>1 DEF DeactivateMarket, OwnsMarket, MarketStatus
  <2>2. ASSUME NEW a \in Admins, NEW k \in MarketIds, NEW s \in MarketStatus,
               UpdateMarket(a, k, s)
        PROVE  Kept(m)
    BY <1>6, <2>2 DEF UpdateMarket, OwnsMarket
  <2>3. ASSUME \/ AdminNext /\ UNCHANGED catalogVars
               \/ InitializeGlobalState
               \/ Tick
        PROVE  Kept(m)
    BY <1>4, <2>3 DEF InitializeGlobalState, Tick, catalogVars, directoryVars
  <2> QED  BY <1>5, <2>1, <2>2, <2>3 DEF DirectoryAction
<1> QED
  BY <1>2, <1>3, <1>7, CountsKept

\* create_event counts its event in the global state and in its own market.
LEMMA CreateEventCounts ==
  ASSUME CountInv, NEW a \in Admins, NEW m \in MarketIds, NEW e \in EventIds,
         NEW odds \in OptaOdds, NEW ts \in MatchTimes, CreateEvent(a, m, e, odds, ts)
  PROVE  CountsAgree' /\ FinitelyManyEvents' /\ GlobalStateFirst'
<1> DEFINE key == <<m, e>>
<1>1. /\ key \in EventKeys /\ ~Created(key) /\ Created(key)'
      /\ \A l \in EventKeys : l # key => (Created(l)' <=> Created(l))
      /\ total_events' \in Nat
      /\ markets' \in [MarketIds -> Market \cup {Absent}]
  BY CreateEventFacts DEF CountInv, CatalogInv, Created
<1>2. /\ total_events # Absent /\ markets[m] # Absent /\ CountEvent(m)
  BY DEF CreateEvent
<1>3. /\ total_events' = total_events + 1
      /\ markets'[m] \in Market
      /\ markets'[m].total_events = markets[m].total_events + 1
      /\ \A k \in MarketIds \ {m} : markets'[k] = markets[k]
  <2>1. markets[m] \in Market /\ markets' = [markets EXCEPT ![m].total_events = @ + 1]
    BY <1>2 DEF CountInv, CatalogInv, TypeOK, CountEvent
  <2>2. markets'[m] = [markets[m] EXCEPT !.total_events = @ + 1]
    BY <2>1 DEF CountInv, CatalogInv, TypeOK
  <2> QED
    BY <1>2, <2>1, <2>2 DEF CountEvent, Market, CountInv, CatalogInv, TypeOK
<1>4. ASSUME NEW M \in SUBSET MarketIds, m \in M
      PROVE  /\ EventsOf(M)' = EventsOf(M) \cup {key}
             /\ key \notin EventsOf(M)
             /\ IsFiniteSet(EventsOf(M))
             /\ IsFiniteSet(EventsOf(M)')
             /\ Cardinality(EventsOf(M)') = Cardinality(EventsOf(M)) + 1
  <2>1. EventsOf(M)' = EventsOf(M) \cup {key} /\ key \notin EventsOf(M)
    BY <1>1, <1>4 DEF EventsOf, EventKeys
  <2>2. EventsOf(M) \in SUBSET EventsOf(MarketIds)
    BY DEF EventsOf
  <2>3. IsFiniteSet(EventsOf(M))
    BY <2>2, FS_Subset DEF CountInv, FinitelyManyEvents
  <2> HIDE DEF key
  <2> QED  BY <2>1, <2>3, FS_AddElement
<1>5. \A k \in MarketIds \ {m} : EventsOf({k})' = EventsOf({k})
  BY <1>1 DEF EventsOf, EventKeys
<1>6. FinitelyManyEvents'
  BY <1>4 DEF FinitelyManyEvents
<1>7. GlobalStateFirst'
  BY <1>1, DirectoryAssumption DEF GlobalStateFirst
<1>8. total_events' = Cardinality(EventsOf(MarketIds)')
  BY <1>2, <1>3, <1>4 DEF CountInv, CountsAgree
<1>9. ASSUME NEW k \in MarketIds
      PROVE  IF markets'[k] = Absent THEN EventsOf({k})' = {}
             ELSE markets'[k].total_events = Cardinality(EventsOf({k})')
  <2>1. CASE k = m
    BY <1>2, <1>3, <1>4, <2>1, DirectoryAssumption DEF CountInv, CountsAgree
  <2>2. CASE k # m
    BY <1>3, <1>5, <2>2 DEF CountInv, CountsAgree
  <2> QED  BY <2>1, <2>2
<1> QED
  BY <1>6, <1>7, <1>8, <1>9 DEF CountsAgree

\* The instructions on one event count nothing.
LEMMA EventActionKeepsCounts ==
  ASSUME CountInv, NEW a \in Admins, NEW key \in EventKeys, EventAction(a, key)
  PROVE  CountsAgree' /\ FinitelyManyEvents' /\ GlobalStateFirst'
<1>1. TypeOK
  BY DEF CountInv, CatalogInv
<1>2. Created(key) /\ \E new : SetEvent(key, new) /\ KeepsEvent(events[key], new)
  BY <1>1, EventActionChanges
<1>3. /\ \A l \in EventKeys : Created(l)' <=> Created(l)
      /\ UNCHANGED <<total_events, markets>>
  BY <1>1, <1>2, EventActionFacts
<1> QED
  BY <1>3, CountsKept

\* The counters of the global state and of every market say at any time how
\* many events there are.
THEOREM CountersAgree == Spec => []CountsAgree
<1>1. Init => CountInv
  <2> SUFFICES ASSUME Init PROVE CountInv
    OBVIOUS
  <2>1. /\ \A M \in SUBSET MarketIds : EventsOf(M) = {}
        /\ total_events = Absent /\ \A m \in MarketIds : markets[m] = Absent
    BY DEF Init, EventsOf, EventKeys, Created
  <2>2. EventsOf(MarketIds) = {} /\ \A m \in MarketIds : EventsOf({m}) = {}
    BY <2>1
  <2> QED
    BY <2>1, <2>2, InitCatalogInv, FS_EmptySet
    DEF CountInv, CountsAgree, FinitelyManyEvents, GlobalStateFirst
<1>2. CountInv /\ [Next]_vars => CountInv'
  <2> SUFFICES ASSUME CountInv, [Next]_vars PROVE CountInv'
    OBVIOUS
  <2>1. CatalogInv'
    BY NextCatalogInv DEF CountInv
  <2>2. CASE UNCHANGED vars
    <3>1. CountsAgree' /\ FinitelyManyEvents' /\ GlobalStateFirst'
      BY <2>2 DEF CountInv, CountsAgree, FinitelyManyEvents, GlobalStateFirst,
                  EventsOf, Created, vars
    <3> QED  BY <2>1, <3>1 DEF CountInv
  <2>3. CASE Next
    BY <2>1, <2>3, NextSplit, DirectoryKeepsCounts, CreateEventCounts,
       EventActionKeepsCounts DEF CountInv
  <2> QED  BY <2>2, <2>3
<1>3. CountInv => CountsAgree
  BY DEF CountInv
<1> QED
  BY <1>1, <1>2, <1>3, PTL DEF Spec
=============================================================================
