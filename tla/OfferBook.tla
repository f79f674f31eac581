----------------------------- MODULE OfferBook -----------------------------
(***************************************************************************)
(* What the secondary market promises about the shares offered in it,      *)
(* whatever its locks, bids, statuses and expiries are.  An offer is backed*)
(* by one holding, which backs no other; it is sold bit by bit until it is *)
(* sold out, or withdrawn for good; and a closed market stays closed.      *)
(* SecondaryMarket implements it (ImplementsOfferBook there).              *)
(***************************************************************************)
EXTENDS Naturals

CONSTANTS
  Offers,   \* the names of offers
  Holdings, \* what offers are backed by
  NoOffer   \* in place of an offer that was not made

VARIABLES
  held,  \* shares, by holding
  book,  \* [holding, left, withdrawn] by offer, or NoOffer
  closed

vars == <<held, book, closed>>

Made(o) == book[o] # NoOffer
Open(o) == Made(o) /\ ~book[o].withdrawn /\ book[o].left > 0
Backs(h, o) == Made(o) /\ book[o].holding = h /\ ~book[o].withdrawn

Init ==
  /\ held = [h \in Holdings |-> 0]
  /\ book = [o \in Offers |-> NoOffer]
  /\ closed = FALSE

\* Holdings are filled once, two at a time with the same number of shares, and
\* also after the market was closed.
Fill(g, h) ==
  /\ g # h /\ held[g] = 0 /\ held[h] = 0
  /\ held'[g] = held'[h]
  /\ held' = [held EXCEPT ![g] = held'[g], ![h] = held'[h]]
  /\ UNCHANGED <<book, closed>>

Make(o, h) ==
  /\ ~closed
  /\ ~Made(o)
  /\ \A p \in Offers : ~Backs(h, p)
  /\ \E n \in 1..held[h] :
       book' = [book EXCEPT ![o] = [holding |-> h, left |-> n, withdrawn |-> FALSE]]
  /\ UNCHANGED <<held, closed>>

Sell(o) ==
  /\ ~closed
  /\ Open(o)
  /\ \E left \in 0..(book[o].left - 1) : book' = [book EXCEPT ![o].left = left]
  /\ UNCHANGED <<held, closed>>

Withdraw(o) ==
  /\ ~closed
  /\ Open(o)
  /\ book' = [book EXCEPT ![o].withdrawn = TRUE]
  /\ UNCHANGED <<held, closed>>

Close ==
  /\ closed' = TRUE
  /\ UNCHANGED <<held, book>>

Next ==
  \/ \E g, h \in Holdings : Fill(g, h)
  \/ \E o \in Offers, h \in Holdings : Make(o, h)
  \/ \E o \in Offers : Sell(o) \/ Withdraw(o)
  \/ Close

Spec == Init /\ [][Next]_vars
=============================================================================
