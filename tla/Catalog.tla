------------------------------ MODULE Catalog ------------------------------
(***************************************************************************)
(* The directory of the program: the global state, the markets (matches),  *)
(* their events and order books, and who may move an event through its     *)
(* phases.  It composes the AdminHierarchy, which every action consults,   *)
(* with the accounts it controls.                                          *)
(*                                                                         *)
(* An event here is what an administrator sees of it; PrimaryMarket is     *)
(* what goes on inside one.  Names, questions and the market's own         *)
(* match_timestamp are read by no instruction and are left out, and so is  *)
(* max_shares (PrimaryMarket has it as a constant).                        *)
(***************************************************************************)
EXTENDS AdminHierarchy, Pricing

CONSTANTS
  MarketIds,       \* the market ids in use
  EventIds,        \* the event ids in use
  Absent,          \* what a PDA holds before `init`
  OptaOdds,        \* the odds that admins pass to create_event
  MatchTimes,      \* the match timestamps that admins pass to create_event
  AdminStatuses,   \* the statuses that admins pass to update_event
  LeadTime,        \* 3600, how long before the match an event is created
  CloseBefore,     \* 300, how long before the match the primary market closes
  MaxU8,           \* 255, the width of market.total_events
  EndOfTime        \* the clock is not followed beyond this point

MarketStatus == {"Created", "Active", "Resolved"}
EventStatus == {"Created", "Active", "PrimaryClosed", "SecondaryActive",
                "Settled", "Resolved"}
Outcome == {"Yes", "No"}
Market == [admin : Admins, status : MarketStatus, total_events : Nat]
Event == [admin : Admins, status : EventStatus,
          winning_outcome : Outcome \cup {"None"},
          created_at : Nat, event_start_time : Nat, primary_market_close : Nat,
          yes_share_price : Nat, no_share_price : Nat,
          secondary_market_state : BOOLEAN]  \* whether it is Some(_)
EventKeys == MarketIds \X EventIds

ASSUME DirectoryAssumption ==
  /\ Absent \notin Market /\ Absent \notin Event /\ Absent \notin Nat
  /\ Absent \notin {"Open", "Closed"}
  /\ OptaOdds \subseteq Nat /\ MatchTimes \subseteq Nat
  /\ AdminStatuses \subseteq EventStatus
  /\ MaxU8 \in Nat /\ EndOfTime \in Nat
ASSUME LeadAssumption ==
  /\ LeadTime \in Nat /\ CloseBefore \in Nat \ {0}
  /\ CloseBefore <= LeadTime

VARIABLES
  now,                \* Clock::get()?.unix_timestamp
  total_events,       \* global_state.total_events, Absent before `init`
  markets,            \* market PDAs, by market id
  events,             \* event PDAs, by market id and event id
  order_books,        \* the event ids that have an order book PDA
  secondary_markets   \* secondary_market PDAs, by event id: Absent, Open, Closed

directoryVars == <<total_events, markets, order_books>>
catalogVars == <<now, directoryVars, events, secondary_markets>>
vars == <<super_admins, now, total_events, markets, events, order_books,
          secondary_markets>>
-----------------------------------------------------------------------------
Created(key) == events[key] # Absent

CreatedEvent(a, prices, ts) ==
  [admin |-> a, status |-> "Created", winning_outcome |-> "None",
   created_at |-> now, event_start_time |-> ts,
   primary_market_close |-> ts - CloseBefore,
   yes_share_price |-> prices.yes, no_share_price |-> prices.no,
   secondary_market_state |-> FALSE]

Init ==
  /\ AdminInit
  /\ now = 0
  /\ total_events = Absent
  /\ markets = [m \in MarketIds |-> Absent]
  /\ events = [key \in EventKeys |-> Absent]
  /\ order_books = {}
  /\ secondary_markets = [e \in EventIds |-> Absent]

\* initialize_global_state, open to whoever comes first.
InitializeGlobalState ==
  /\ total_events = Absent
  /\ total_events' = 0
  /\ UNCHANGED <<super_admins, now, markets, events, order_books,
                 secondary_markets>>

CreateMarket(a, m) ==
  /\ total_events # Absent
  /\ IsSuperAdmin(a)
  /\ markets[m] = Absent
  /\ markets' = [markets EXCEPT ![m] =
       [admin |-> a, status |-> "Created", total_events |-> 0]]
  /\ UNCHANGED <<super_admins, now, total_events, events, order_books,
                 secondary_markets>>

OwnsMarket(a, m) == markets[m] # Absent /\ markets[m].admin = a /\ IsSuperAdmin(a)

UpdateMarket(a, m, status) ==
  /\ OwnsMarket(a, m)
  /\ markets' = [markets EXCEPT ![m].status = status]
  /\ UNCHANGED <<super_admins, now, total_events, events, order_books,
                 secondary_markets>>

DeactivateMarket(a, m) ==
  /\ OwnsMarket(a, m)
  /\ markets' = [markets EXCEPT ![m].status = "Resolved"]
  /\ UNCHANGED <<super_admins, now, total_events, events, order_books,
                 secondary_markets>>

\* An event that is on the order books of no other market, as `init` of the
\* order book demands.  Faulty: the book is `init_if_needed`.
FaultyBookFree(e) == e \in EventIds
BookFree(e) == e \notin order_books

\* Faulty: the match only has to lie in the future.
FaultyEarlyEnough(ts) == ts > now
EarlyEnough(ts) == ts > now + LeadTime

\* The counter of the market is not touched.
FaultyCountEvent(m) == total_events' = total_events + 1 /\ markets' = markets
CountEvent(m) ==
  /\ markets[m].total_events + 1 <= MaxU8
  /\ total_events' = total_events + 1
  /\ markets' = [markets EXCEPT ![m].total_events = @ + 1]

\* normalize_opta_odds subtracts with overflow checks, so odds above
\* BasisPoints end the instruction.  Faulty: the checks are off.
FaultyOddsAccepted(odds) == odds > 0
OddsAccepted(odds) == odds > 0 /\ odds <= BasisPoints

\* Any super admin, in a market of any other.
CreateEvent(a, m, e, odds, ts) ==
  /\ total_events # Absent
  /\ IsSuperAdmin(a)
  /\ markets[m] # Absent /\ markets[m].status = "Created"
  /\ ~Created(<<m, e>>)
  /\ BookFree(e)
  /\ OddsAccepted(odds)
  /\ EarlyEnough(ts)
  /\ CountEvent(m)
  /\ events' = [events EXCEPT ![<<m, e>>] = CreatedEvent(a, EventPrices(odds), ts)]
  /\ order_books' = order_books \cup {e}
  /\ UNCHANGED <<super_admins, now, secondary_markets>>
-----------------------------------------------------------------------------
\* update_event, resolve_event, cancel_event, end_primary_market and
\* open_secondary_market: the event's own admin, as long as he is super admin.
\* Faulty: he stays in control of the event when he is removed.
FaultyManages(a, key) == Created(key) /\ events[key].admin = a
Manages(a, key) == Created(key) /\ events[key].admin = a /\ IsSuperAdmin(a)

SetEvent(key, event) ==
  /\ events' = [events EXCEPT ![key] = event]
  /\ UNCHANGED <<super_admins, now, directoryVars>>

\* Any status, whatever the event went through before.
UpdateEvent(a, key, status) ==
  /\ Manages(a, key)
  /\ SetEvent(key, [events[key] EXCEPT !.status = status])
  /\ UNCHANGED secondary_markets

ResolveEvent(a, key, outcome) ==
  /\ Manages(a, key)
  /\ events[key].status # "Resolved"
  /\ SetEvent(key, [events[key] EXCEPT !.status = "Resolved",
                                       !.winning_outcome = outcome])
  /\ UNCHANGED secondary_markets

CancelEvent(a, key) ==
  /\ Manages(a, key)
  /\ events[key].status # "Resolved"
  /\ SetEvent(key, [events[key] EXCEPT !.status = "Settled"])
  /\ UNCHANGED secondary_markets

EndPrimaryMarket(a, key) ==
  /\ total_events # Absent
  /\ Manages(a, key)
  /\ events[key].status = "Active"
  /\ now >= events[key].event_start_time
  /\ SetEvent(key, [events[key] EXCEPT !.status = "PrimaryClosed"])
  /\ UNCHANGED secondary_markets

\* Without the test against event.primary_market_close.
FaultyOpenSecondaryMarket(a, key) ==
  /\ total_events # Absent
  /\ Manages(a, key)
  /\ events[key].status = "PrimaryClosed"
  /\ secondary_markets[key[2]] = Absent
  /\ ~events[key].secondary_market_state
  /\ secondary_markets' = [secondary_markets EXCEPT ![key[2]] = "Open"]
  /\ SetEvent(key, [events[key] EXCEPT !.status = "SecondaryActive",
                                       !.secondary_market_state = TRUE])

\* The secondary_market PDA is found by the event id alone.
OpenSecondaryMarket(a, key) ==
  /\ total_events # Absent
  /\ Manages(a, key)
  /\ events[key].status = "PrimaryClosed"
  /\ secondary_markets[key[2]] = Absent
  /\ ~events[key].secondary_market_state
  /\ now >= events[key].primary_market_close
  /\ secondary_markets' = [secondary_markets EXCEPT ![key[2]] = "Open"]
  /\ SetEvent(key, [events[key] EXCEPT !.status = "SecondaryActive",
                                       !.secondary_market_state = TRUE])

\* Any super admin.
ResolveSecondaryMarket(a, key, outcome) ==
  /\ total_events # Absent
  /\ IsSuperAdmin(a)
  /\ Created(key)
  /\ events[key].status = "SecondaryActive"
  /\ secondary_markets[key[2]] = "Open"
  /\ now >= events[key].event_start_time
  /\ secondary_markets' = [secondary_markets EXCEPT ![key[2]] = "Closed"]
  /\ SetEvent(key, [events[key] EXCEPT !.status = "Resolved",
                                       !.winning_outcome = outcome])

Tick ==
  /\ now < EndOfTime
  /\ now' = now + 1
  /\ UNCHANGED <<super_admins, directoryVars, events, secondary_markets>>

Next ==
  \/ AdminNext /\ UNCHANGED catalogVars
  \/ InitializeGlobalState
  \/ \E a \in Admins, m \in MarketIds : CreateMarket(a, m)
  \/ \E a \in Admins, m \in MarketIds, s \in MarketStatus : UpdateMarket(a, m, s)
  \/ \E a \in Admins, m \in MarketIds : DeactivateMarket(a, m)
  \/ \E a \in Admins, m \in MarketIds, e \in EventIds, odds \in OptaOdds,
        ts \in MatchTimes : CreateEvent(a, m, e, odds, ts)
  \/ \E a \in Admins, key \in EventKeys, s \in AdminStatuses :
        UpdateEvent(a, key, s)
  \/ \E a \in Admins, key \in EventKeys, outcome \in Outcome :
        ResolveEvent(a, key, outcome)
  \/ \E a \in Admins, key \in EventKeys : CancelEvent(a, key)
  \/ \E a \in Admins, key \in EventKeys : EndPrimaryMarket(a, key)
  \/ \E a \in Admins, key \in EventKeys : OpenSecondaryMarket(a, key)
  \/ \E a \in Admins, key \in EventKeys, outcome \in Outcome :
        ResolveSecondaryMarket(a, key, outcome)
  \/ Tick

Spec == Init /\ [][Next]_vars
-----------------------------------------------------------------------------
(***************************************************************************)
(* Properties.                                                             *)
(***************************************************************************)
TypeOK ==
  /\ Exists => super_admins \in Seq(Admins)
  /\ now \in 0..EndOfTime
  /\ total_events \in Nat \cup {Absent}
  /\ markets \in [MarketIds -> Market \cup {Absent}]
  /\ events \in [EventKeys -> Event \cup {Absent}]
  /\ order_books \subseteq EventIds
  /\ secondary_markets \in [EventIds -> {Absent, "Open", "Closed"}]

\* No two markets have an event of the same id.  The event PDA would allow it,
\* and the secondary_market PDA, found by the event id alone, depends on it;
\* only the order book that create_event opens, and nothing reads, forbids it.
EventIdsUnique ==
  /\ \A k, l \in EventKeys : Created(k) /\ Created(l) /\ k[2] = l[2] => k = l
  /\ \A e \in EventIds :
       e \in order_books <=> \E m \in MarketIds : Created(<<m, e>>)

\* The counters of the global state and of each market say how many event
\* accounts there are, although they are kept by separate checked additions
\* with different widths.
EventsOf(M) == {key \in M \X EventIds : Created(key)}
CountsAgree ==
  /\ total_events # Absent => total_events = Cardinality(EventsOf(MarketIds))
  /\ \A m \in MarketIds :
       IF markets[m] = Absent THEN EventsOf({m}) = {}
       ELSE markets[m].total_events = Cardinality(EventsOf({m}))

\* Every event is fit for the primary market: it takes orders for some time
\* before the primary market closes, that is before the match, and its two
\* prices make one SOL.  (These are assumptions of PrimaryMarket.)
ReadyForPrimary ==
  \A key \in EventKeys : Created(key) =>
    /\ events[key].created_at < events[key].primary_market_close
    /\ events[key].primary_market_close < events[key].event_start_time
    /\ CanMatchOrders(events[key].yes_share_price, events[key].no_share_price)

\* The event and its secondary market, which is a separate account, agree:
\* the market exists when the event refers to it, never before the primary
\* market's closing time, and it is closed only with an outcome recorded,
\* whatever statuses the admin writes in between.
SecondaryLinked ==
  /\ \A key \in EventKeys : Created(key) =>
       /\ events[key].secondary_market_state <=> secondary_markets[key[2]] # Absent
       /\ secondary_markets[key[2]] # Absent => now >= events[key].primary_market_close
       /\ secondary_markets[key[2]] = "Closed" => events[key].winning_outcome # "None"
  /\ \A e \in EventIds \ order_books : secondary_markets[e] = Absent

\* When the admin of an event has lost his role, nobody can move the event but
\* in one way: any super admin may still resolve an open secondary market.
OrphanedEventsOnlyResolve ==
  [][\A key \in EventKeys :
       Created(key) /\ events[key].admin \notin SuperAdmins =>
         \/ events'[key] = events[key]
         \/ /\ secondary_markets[key[2]] = "Open"
            /\ secondary_markets'[key[2]] = "Closed"
            /\ events'[key].status = "Resolved"]_vars
-----------------------------------------------------------------------------
(***************************************************************************)
(* What the repository says of the program and the code does not do.       *)
(***************************************************************************)

\* "Event already resolved": an event is resolved once, and its outcome stays.
OutcomeIsFinal ==
  [][\A key \in EventKeys :
       Created(key) /\ events[key].winning_outcome # "None" =>
         events'[key].winning_outcome = events[key].winning_outcome]_vars
=============================================================================
