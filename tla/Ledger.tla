------------------------------- MODULE Ledger -------------------------------
(***************************************************************************)
(* What the trading server promises about the holdings of its subjects,    *)
(* with no book, no clock and no stages: shares change hands one at a time *)
(* and only from a subject that has one, a share is created only against a *)
(* derivative and a margin the creator can pay, and each round pays its    *)
(* dividend once, in order.                                                *)
(***************************************************************************)
EXTENDS Integers

CONSTANTS Subjects, Creators, InitCash, InitShares, NRounds, Dividend,
          MarginReq, PriceLimit

VARIABLES
  folio,     \* the holdings of every subject
  started,   \* the initial holdings have been handed out
  paid       \* number of rounds whose dividend has been paid

vars == <<folio, started, paid>>

NoHolding == [Cash |-> 0, Shares |-> 0, Margin |-> 0, Derivatives |-> 0]

Init ==
  /\ folio = [p \in Subjects |-> NoHolding]
  /\ started = FALSE
  /\ paid = 0

Allocate ==
  /\ ~started
  /\ started' = TRUE
  /\ folio' = [p \in Subjects |->
                [Cash |-> InitCash[p], Shares |-> InitShares[p],
                 Margin |-> 0, Derivatives |-> 0]]
  /\ UNCHANGED paid

Transfer(buyer, seller, price) ==
  /\ started
  /\ buyer # seller
  /\ folio[seller].Shares > 0
  /\ folio' = [folio EXCEPT ![buyer].Shares  = @ + 1,
                            ![seller].Shares = @ - 1,
                            ![buyer].Cash    = @ - price,
                            ![seller].Cash   = @ + price]
  /\ UNCHANGED <<started, paid>>

Create(p, margin) ==
  /\ started
  /\ folio[p].Cash >= margin
  /\ folio' = [folio EXCEPT ![p].Derivatives = @ + 1,
                            ![p].Shares      = @ + 1,
                            ![p].Margin      = @ + margin,
                            ![p].Cash        = @ - margin]
  /\ UNCHANGED <<started, paid>>

PayDividend(dividend) ==
  /\ started
  /\ folio' = [p \in Subjects |->
                [Cash        |-> folio[p].Cash + folio[p].Shares * dividend,
                 Shares      |-> folio[p].Shares,
                 Margin      |-> folio[p].Margin
                                   - folio[p].Derivatives * dividend,
                 Derivatives |-> folio[p].Derivatives]]
  /\ paid' = paid + 1
  /\ UNCHANGED started

Next ==
  \/ Allocate
  \/ \E buyer, seller \in Subjects, price \in 0..PriceLimit :
       Transfer(buyer, seller, price)
  \/ paid < NRounds /\ \E p \in Creators : Create(p, MarginReq[paid + 1])
  \/ paid < NRounds /\ PayDividend(Dividend[paid + 1])

Spec == Init /\ [][Next]_vars

=============================================================================
