------------------------------ MODULE TextForms ------------------------------
(***************************************************************************)
(* The text forms of what the messages carry: the operators << and >> that *)
(* to_string and from_string call.  A text is the sequence of its words;   *)
(* blanks and line ends only part them, as >> skips both.  What getline    *)
(* reads is a word of its own, a line, that knows its leading blanks.      *)
(* Reading looks at no more words than it needs.                           *)
(***************************************************************************)
EXTENDS Integers, Sequences

CONSTANT Modulus   \* how many values an unsigned int has; 2^32 in the code

ASSUME ModulusAssumption ==
  Modulus \in Nat /\ Modulus > 0 /\ Modulus = 2 * (Modulus \div 2)

\* The words of w from the k-th on
From(w, k) == SubSeq(w, k, Len(w))

\* The only element of a set that stands for a std::optional
TheOnly(opt) == CHOOSE x \in opt : TRUE

-----------------------------------------------------------------------------
(* Numbers, enumerators and lines                                          *)

\* The values of an int
IntRange == -(Modulus \div 2)..((Modulus \div 2) - 1)

\* operator>> into an unsigned int takes a minus sign and wraps around.
AsUnsigned(i) == IF i < 0 THEN i + Modulus ELSE i

\* static_cast<int>
AsInt(u) == IF u >= Modulus \div 2 THEN u - Modulus ELSE u

\* A Time is written in milliseconds, with its sign, and read as unsigned.
WriteTime(ms) == <<ms>>

ReadTime(w) == AsUnsigned(w[1])

\* static_cast<int> of an enumerator, and static_cast to the enum
Code(enum, e) == (CHOOSE i \in DOMAIN enum : enum[i] = e) - 1

Enumerator(enum, n) == enum[n + 1]

OfferValidity ==
  <<"Accepted", "RejectedNoTradeoff", "RejectedInsufficientUnits",
    "RejectedInsufficientCash", "RejectedNonImproving", "RejectedTradeWithSelf",
    "RejectedPriceOutOfRange", "RejectedMarketClosed">>

RetractValidities ==
  <<"RetractAccepted", "RetractRejectedNonExistent",
    "RetractRejectedOwnerMismatch", "RetractRejectedMarketClosed">>

\* A name is written after a blank, which getline takes for a part of it.
ReadLine(line) == [line EXCEPT !.blanks = @ + 1]

-----------------------------------------------------------------------------
(* Offers, trades and retractions                                          *)

WriteOffer(o) == <<o.id, o.player_id, o.price, o.time_elapsed>>

ReadOffer(w) ==
  [id |-> w[1], player_id |-> w[2], price |-> w[3], time_elapsed |-> w[4]]

\* Trade::timestamp, which is shown with a trade and decides nothing, is left
\* out.
WriteTrade(t) == <<t.buyer, t.seller, t.price, t.bid_id, t.ask_id>>

ReadTrade(w) ==
  [buyer |-> w[1], seller |-> w[2], price |-> w[3], bid_id |-> w[4], ask_id |-> w[5]]

WriteRetractRequest(rr) == <<rr.id, rr.offer_id>>

ReadRetractRequest(w) == [id |-> w[1], offer_id |-> w[2]]

WriteRetractResult(rr) ==
  <<Code(RetractValidities, rr.validity)>> \o WriteRetractRequest(rr.request)

ReadRetractResult(w) ==
  [validity |-> Enumerator(RetractValidities, w[1]),
   request  |-> ReadRetractRequest(From(w, 2))]

\* A vector: its length, and three words for each retraction
WriteRetracts(rrs) ==
  <<Len(rrs)>> \o [k \in 1..(3 * Len(rrs)) |->
                     WriteRetractResult(rrs[(k + 2) \div 3])[((k - 1) % 3) + 1]]

ReadRetracts(w) ==
  [i \in 1..w[1] |->
     ReadRetractResult(<<w[3 * i - 1], w[3 * i], w[3 * i + 1]>>)]

\* trade is optional, retracts a vector
WriteMarketSubmissionResult(res) ==
  <<Code(OfferValidity, res.validity)>> \o WriteOffer(res.offer)
    \o (IF res.trade = {} THEN <<FALSE>>
        ELSE <<TRUE>> \o WriteTrade(TheOnly(res.trade)))
    \o WriteRetracts(res.retracts)

ReadMarketSubmissionResult(w) ==
  [validity |-> Enumerator(OfferValidity, w[1]),
   offer    |-> ReadOffer(From(w, 2)),
   trade    |-> IF w[6] THEN {ReadTrade(From(w, 7))} ELSE {},
   retracts |-> ReadRetracts(From(w, IF w[6] THEN 12 ELSE 7))]

-----------------------------------------------------------------------------
(* Portfolios, settings and subjects                                       *)

Items == <<"Cash", "Shares", "Margin", "Derivatives">>

\* The order of the map's items is not determined, and an item that is not in
\* the map is the same to every reader as one with a count of nothing.
WritePortfolio(port) ==
  <<Len(Items)>> \o [k \in 1..(2 * Len(Items)) |->
                       IF k % 2 = 1 THEN Items[(k + 1) \div 2]
                       ELSE port[Items[k \div 2]]]

\* Every count is read as unsigned and added, as an int, to an empty portfolio.
ReadPortfolio(w) ==
  [item \in {"Cash", "Shares", "Margin", "Derivatives"} |->
     LET at == {i \in 1..w[1] : w[2 * i] = item}
     IN IF at = {} THEN 0 ELSE AsInt(AsUnsigned(w[2 * TheOnly(at) + 1]))]

WriteSubjectPortfolio(id, port) == <<id>> \o WritePortfolio(port)

ReadSubjectPortfolio(w) == [id |-> w[1], port |-> ReadPortfolio(From(w, 2))]

\* instructions_filename is optional, and a line.
WriteSubjectConfiguration(c) ==
  (IF c.instructions_filename = {} THEN <<FALSE>>
   ELSE <<TRUE, TheOnly(c.instructions_filename)>>)
    \o WritePortfolio(c.init_alloc) \o <<c.is_creator, c.eperdollar>>

ReadSubjectConfiguration(w) ==
  LET rest == From(w, IF w[1] THEN 3 ELSE 2)
      port == 2 * rest[1] + 1
  IN [instructions_filename |-> IF w[1] THEN {ReadLine(w[2])} ELSE {},
      init_alloc            |-> ReadPortfolio(rest),
      is_creator            |-> rest[port + 1],
      eperdollar            |-> rest[port + 2]]

WriteRoundConfiguration(c) ==
  <<c.round, c.can_create, c.dividend, c.margin_req, c.margin_max>>

ReadRoundConfiguration(w) ==
  [round |-> w[1], can_create |-> w[2], dividend |-> w[3],
   margin_req |-> w[4], margin_max |-> w[5]]

\* The name is a line between words.
WriteSubject(s) == <<s.id, s.name, s.student_id, s.payoff_cents>>

ReadSubject(w) ==
  [id |-> w[1], name |-> ReadLine(w[2]), student_id |-> w[3], payoff_cents |-> w[4]]

-----------------------------------------------------------------------------
(* The answers to the admin                                                *)

ConfigError ==
  <<"FileDoesNotExist", "InvalidFormat", "MissingValue", "TooFewRoleAssignments",
    "UnknownRole", "InvalidDividendRealization", "TooFewDividendRealizations",
    "TooFewMarginRequirements">>

ConfigWarning ==
  <<"UnusedRoles", "TooManyRoleAssignments", "MustIgnoreInstructions",
    "TooManyDividendRealizations", "TooManyMarginRequirements">>

\* error is optional, warnings a vector
WriteConfigResult(res) ==
  (IF res.error = {} THEN <<FALSE, Len(res.warnings)>>
   ELSE <<TRUE, Code(ConfigError, TheOnly(res.error)), Len(res.warnings)>>)
    \o [i \in 1..Len(res.warnings) |-> Code(ConfigWarning, res.warnings[i])]

\* operator>> of a ConfigError has no return; built without optimisation it
\* comes back, and what it returns is thrown away.
ReadConfigResult(w) ==
  LET n == IF w[1] THEN 3 ELSE 2
  IN [error    |-> IF w[1] THEN {Enumerator(ConfigError, w[2])} ELSE {},
      warnings |-> [i \in 1..w[n] |-> Enumerator(ConfigWarning, w[n + i])]]

=============================================================================
