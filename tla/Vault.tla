------------------------------- MODULE Vault -------------------------------
(***************************************************************************)
(* What the primary market promises to those who entrust lamports to it,   *)
(* whatever orders, escrows, pairs and statuses are: a stake leaves the    *)
(* vault to buy shares or goes back, entirely, to the one who placed it.   *)
(* PrimaryMarket implements it (ImplementsVault there).                    *)
(***************************************************************************)
EXTENDS Naturals

CONSTANTS
  Slots,      \* the places at which stakes are held
  Owners,     \* who may place a stake
  Nobody,     \* the owner of a free slot
  Collector,  \* who receives the fees
  ShareValue, \* what a YES and a NO share cost together
  Capacity    \* how many such pairs of shares there are

VARIABLES
  owner, \* of the stake, by slot
  stake, \* in lamports, by slot
  sold,  \* pairs of shares sold
  funds  \* lamports outside the vault, by account

vars == <<owner, stake, sold, funds>>
Accounts == Owners \cup {Collector}

Init ==
  /\ owner = [s \in Slots |-> Nobody]
  /\ stake = [s \in Slots |-> 0]
  /\ sold = 0
  /\ funds \in [Accounts -> Nat]

\* A fee may be asked for on top of the stake; nobody else pays or receives.
Deposit(s, o) ==
  /\ owner[s] = Nobody
  /\ owner' = [owner EXCEPT ![s] = o]
  /\ \E amount \in 0..funds[o] :
       /\ stake' = [stake EXCEPT ![s] = amount]
       /\ \E fee \in 0..(funds[o] - amount) :
            funds' = [w \in Accounts |->
              funds[w] - (IF w = o THEN amount + fee ELSE 0)
                       + (IF w = Collector THEN fee ELSE 0)]
  /\ UNCHANGED sold

\* Two owners pay for n pairs of shares, together exactly what they cost, and
\* each no more than his stake.  Whom they pay is not promised.
Sell(s, t) ==
  /\ {owner[s], owner[t]} \subseteq Owners /\ owner[s] # owner[t]
  /\ \E n \in 1..(Capacity - sold) :
       /\ sold' = sold + n
       /\ \E paid \in 0..stake[s] :
            /\ paid <= n * ShareValue
            /\ n * ShareValue - paid <= stake[t]
            /\ stake' = [stake EXCEPT ![s] = @ - paid,
                                      ![t] = @ - (n * ShareValue - paid)]
            /\ \E a, b \in Accounts :
                 funds' = [w \in Accounts |->
                   funds[w] + (IF w = a THEN n * ShareValue - paid ELSE 0)
                            + (IF w = b THEN paid ELSE 0)]
  /\ UNCHANGED owner

\* The whole stake goes back, and the slot may become free or stay taken.
Return(s) ==
  /\ owner[s] \in Owners
  /\ funds' = [funds EXCEPT ![owner[s]] = @ + stake[s]]
  /\ stake' = [stake EXCEPT ![s] = 0]
  /\ owner' \in {owner, [owner EXCEPT ![s] = Nobody]}
  /\ UNCHANGED sold

\* Lamports from elsewhere, of which the vault knows nothing.
Income(a) ==
  /\ funds'[a] \in Nat /\ funds'[a] >= funds[a]
  /\ funds' = [funds EXCEPT ![a] = funds'[a]]
  /\ UNCHANGED <<owner, stake, sold>>

Next ==
  \/ \E s \in Slots, o \in Owners : Deposit(s, o)
  \/ \E s, t \in Slots : Sell(s, t)
  \/ \E s \in Slots : Return(s)
  \/ \E a \in Accounts : Income(a)

Spec == Init /\ [][Next]_vars
=============================================================================
