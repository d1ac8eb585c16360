# Verification of the asset market experiment

TLA+ models, TLC runs and TLAPS proofs for the program in `src/`: a server that
runs an economics experiment (a double-auction asset market over several
rounds, with dividends, reviews and payouts), and the programs of its subjects
and of its admin. Path names below are relative to the repository; `ecp` is
`temp_src/experiment_command_processor.hh`, `opm` is
`temp_src/offer_processor_market.cc`.

## 1. The system

One server process. `src/sample_experiment.cc` wires it up: one `io_context`
thread runs every network handler, every timer callback and everything posted,
each to its end, and a second thread reads the console. All handlers share, by
pointer, one `Market`, `PortfolioSet`, `ExperimentState`, `Configuration`,
`Experiment` and `PausableTimer`.

| Component | State it keeps | Operations | What makes it correct |
|---|---|---|---|
| Order book: `Offer`, `OfferQueue`, `Market` | bids, asks | add, retract by id, standing offer, pop a trade | never crossed; ids unique over both sides; the best offer trades, at the price of the earlier one |
| `OfferProcessorMarket` | the book and the portfolios | offer, retract, create, dividend | no subject promises what it has not; the rules for improving and replacing offers hold |
| `ClientController` | next offer id | one handler per subject request | ids and time stamps agree with the order of submission; news goes out in an order clients can follow |
| `Experiment`, `ExperimentCommandProcessor`, `ExperimentController` | stage, round, status, counter, subjects, portfolios, configuration | start, rounds, review, payouts, end early, ready, name, load, pause, resume | rounds in order, each ended once and paid once; no lookup out of range; the experiment gets to its payouts |
| `PausableTimer` | duration, elapsed time, state, callbacks | clear, start, pause, set duration, update the time, register, `OnStop` | a phase lasts its time and ends once, through pauses |
| `MessageDirector`, `ConnectionController` | none of their own | dispatch, role of a connection | every subject counted has a connection |
| `AsioServer` | connections, clients, admins, processors | accept, add a role, send, stop | one role for each connection, every subject reachable |
| `AsioConnection`, `Message` | queue, header and body in progress | send, write, read, disconnect | FIFO, nothing lost or repeated before a failure, the writer never falls asleep |
| `AsioClient` | its connection, the progress of the dial | connect, send, disconnect | it gives up after the last endpoint only; what is sent while it dials is written once it is connected |
| Client program | a copy of the book, the portfolio, the settings and the clock | a handler per server message | the copy agrees with the server once caught up; the time shown is never less than what is left |
| Admin program | a copy of the book and of every portfolio | as above, for all subjects | as above |
| Configuration reader | none | read, check, report | what it accepts can be indexed without further checks |
| Text forms, enums | none | stream operators, PrettyPrint | what is read is what was written, whatever follows it |

How they interact: a message read by `AsioConnection` goes to
`AsioServer::ProcessMessage`, on to `MessageDirector`, and from there to
`ClientController` (market requests), `ExperimentController` (admin commands,
ready, name) or `ConnectionController` (role of a connection). Handlers answer
with `Send` and `SendAll`, which post to the connections. The timer calls back
into `ExperimentController`, which starts the next phase and its timer. The
console thread calls `Send`, `SendAll` and `Stop` directly.

The repository is in the middle of a refactoring: `MessageDirector` overrides
`AddSubject` and `ProcessSubjectMessage`, where the interface in `src/src` has
`AddClient` and `ProcessClientMessage`. The models take them to be the same.

What is hard here: a timer callback that meets an early end, a pause or an
already queued completion; a peer that is gone before it is accepted; subjects
that join late or say Ready twice; a configuration replaced while it is in use; checks made when an offer is
submitted that must still hold when it trades; two threads on one registry;
write and read chains of a connection under failures; clients that lag behind.
`PROJECT.json` lists each such place with its line and its properties.

## 2. Modules

| Module | Models | Composed with |
|---|---|---|
| `Market` | the order of offers, matching and retraction, as operators on sets of offers | used by `Trading` |
| `ExperimentState` | stages, status, round, and how the experiment changes them | used by `Trading` and `Lifecycle` |
| `Trading` | `opm` behind `ClientController`, with rounds, dividends and payouts | implements `Ledger` |
| `Ledger` | abstract: holdings that change by transfer, creation and dividend | |
| `ConfigurationReader` | `ReadConfigurationFile`: errors in their order, and what is read | used by `Lifecycle` |
| `Lifecycle` | joining, loading, starting, rounds, payouts, Ready and Name, and every exception that escapes a handler | |
| `RoundTimer` | `PausableTimer` and the phases that it drives, with Pause and Resume | |
| `Registry` | `AsioServer`'s books, with the io thread and the console thread | |
| `Connection` | one direction of a TCP connection, both `AsioConnection`s | implements `Channel` |
| `Channel` | abstract: a FIFO channel | |
| `TextForms` | the operators `<<` and `>>` of what messages carry, as sequences of words | used by the four below |
| `Announcements` | what each handler of `Trading` sends, to whom, in which order | extends `Trading` |
| `ClientMirror` | the subject's program: what it keeps, and its handlers | extends `Announcements` |
| `AdminMirror` | the admin's program, likewise | extends `ClientMirror` |
| `Mirror` | server, messages on their way, and one of the two programs | extends `AdminMirror` |
| `ClientClock` | the time a program shows, next to the server's timer | extends `RoundTimer` |
| `AsioClient` | dialling, and the client's end of a connection | extends `Connection` |
| `FoldProofs` | facts about the folds the models are written with: sums over sets, flattened sequences | used by `TradingProofs`, `ConnectionProofs`, `RegistryProofs` |
| `*Proofs` | theorems | extend the module they are about; `TimerProofs` is about `RoundTimer` and `ClientClock`, `ConnectionProofs` about `AsioClient` too |
| `MirrorProofs` | theorems about `Mirror` | extends `TradingProofs` and `TextFormsProofs`, whose theorems it uses |
| `MC*` | small instances | extend the module they instantiate |

### Trading

The state is that of the code: `bids` and `asks` are the two `OfferQueue`s as
sets (the queue is a vector kept sorted by `Offer::operator<=>`, and nothing
looks at more than its first element, an id, or a whole side), `folio` is the
`PortfolioSet`, `exp` the `ExperimentState`, `callback` the callback that is
registered on the running timer, `clock` the elapsed time that stamps offers,
`id` the next offer id, and `result` what the last handler reports. Asks have
negative prices, as in the code. The sort is not stable, so the standing offer
is any offer that no other beats; replaced and traded offers leave by id.

`MakeOffer` and `TakeOffer` are whole handlers: the id and the time stamp, the
checks of `ProcessOffer` in the order of its early returns, the retraction of
what the offer replaces, the insertion, the one trade that is popped and its
settlement. `EndRound` is the chain `EndRound`, `StartDividends`,
`StartReview` that one timer callback runs through; `EndReview` starts the
next round or the payouts. A trade's amounts are integers of any size: prices
are limited to 999 by the code and holdings grow by dividends only. The
exchange rate is a whole number, and the payoff is truncated towards zero as by
the cast.

Subjects are fixed here, configured and present: everything that goes wrong
otherwise is in `Lifecycle`. Names and the status Ended are there too.

### Lifecycle and ConfigurationReader

Subjects are numbers given in the order they join; `holders` says how many of
them have a portfolio. An exception that escapes a handler leaves
`io_context::run` and ends the server: `up` becomes FALSE. `at()` on a missing
subject always throws; the unchecked `per_configs[round - 1]` reads past the
end, and the model lets it go well or end the server. `orderly` is history: it
stays TRUE while everybody keeps to the script (all join and a configuration
with rounds is loaded before anything starts, each is Ready once, during the
instructions, gives a name once, after the last round, and nobody ends early).
`ready` is history, too.

A file is a record of what the checks of the reader look at; `"Malformed"` is
whatever makes the parser or a `get<>` throw. `Read` says which players and
rounds can be looked up in the `Configuration` that results: it is computed
from the tables of the file, not assumed from the checks.

### RoundTimer

The `steady_timer` is what the code sees of it: a deadline, a wait that is
pending, and completions that are `queued` in the io_context and that
`cancel()` no longer takes back. Instants matter by their differences only and
are kept relative to the present. `meddled` is history: `Resume` was called
outside a paused phase or with the ending completion queued. In that case two
completions can be under way and a phase can be cut short; no message reaches
`Resume` today, so this is stated as a limit of the properties, not as a finding.
`ran` counts the time a phase has run.

### Connection and Channel

`Send` posts; `RunPosted` queues and starts a write if none is under way;
`Transmit` moves cells from the buffer of an `async_write` into the wire;
`Written`, `HeaderRead`, `BodyRead` are the completion handlers, with
`WriteFails` and `ReadFails` as their error paths; either side may disconnect
and the network may cut the stream and drop what is under way. `received` is
what the message handler has been called with.

### Registry

The vectors are sequences of connection ids, `clients` a function. `Erase`
follows `std::erase_if` with a predicate that reads the id to compare with out
of the vector it compacts. The console is a thread of its own: `Command` starts
to use the books and `Sent`, `Stop` finish, and whatever the io thread does to
them in between is a `Race`, after which nothing is said of the server any
more. `lost` says that the peer of the connection to be accepted next has reset
it: `remote_endpoint` then throws in the handler of the accept, and again in
`ConnectToClient` should the reset come between, and the exception leaves
`io_context::run`. `Accept` goes down in that case, whether the connection would
have been refused or not. An accept that fails with an error code changes
nothing. `reading` stands for all that a connection has under way, its writes and
posted sends too: what `Stop` does to their handlers is the same. A `close()`
that throws is not modelled. The sample program stops the `io_context` after
`Stop`; the model lets it run on for the handlers of the reads that `Stop` has aborted.

### TextForms

A text is the sequence of its words. `>>` skips blanks and line ends, so these
only part the words; what `getline` reads is a word that knows its leading
blanks. Three conversions are not the identity and are modelled by what they
do: an int that is read into an `unsigned` wraps around (and is cast back by
the reader of a portfolio, but not by that of a `Time`), an enumerator goes
through its number, and a line gains the blank that parts it from the word
before, once for each time it is sent. `Modulus` is how many values an
`unsigned` has; the model-checked instances have 64, the theorems any even one.

### Announcements, ClientMirror, AdminMirror and Mirror

`Announcements` extends every handler of `Trading` by the messages it sends, in
the order of the calls: a message to all, or to one subject with a copy to the
admins that has the subject's number at its end. `Delivered` is the part that
reaches the one program that is followed, a subject's or an admin's, chosen in
the initial state. Bodies are texts of `TextForms`; `ClientHandle` and
`AdminHandle` read them and do what the two processors do. Between server and
program is a queue, as `Connection` justifies. `MaxInFlight` bounds how far
behind the program may be when the server acts; one handler may send several
messages. The two processors differ where the code does: the admin's stores a
portfolio under the number in the text, has no portfolios of the round's ends,
and takes a traded offer out of both sides in another order.

### ClientClock

`RoundTimer` with the messages by which a program knows its phase and its
time: `RoundStarted` and `ReviewStarted`, each followed by the time of the timer
just started, and the time sent with every accepted offer or retraction.
`ProcessTimeUpdate` pauses the program's own `PausableTimer` and calls
`UpdateTime` with the time as it was read; nothing starts that timer, so it
stands still between messages. `late` is history: an offer or retraction was
accepted after the deadline, before the callback that closes the market had
run. The time sent with it is below zero and is read as a huge one.

### AsioClient

`Connect` opens the socket and dials; `EndpointRefuses`, `LastEndpointRefuses`
and `EndpointAnswers` are the outcomes of one endpoint of the host, as
`asio::async_connect` goes through them (it is external: it closes the socket
after a refusal, which aborts a write that waits, and opens it anew for the next).
`IsConnected` only asks whether the socket is open, so a message that is sent
while the client still dials is posted and its write is started; if the
endpoint then refuses, the aborted write's handler closes the socket under the
dial. `Disconnect` releases the connection without deleting it.

## 3. Runs

| Run | Question | Bounds |
|---|---|---|
| `trading_plain` | the book, cover of offers, fair trades, closed market, without rules | 2 subjects, 2 rounds, 4 offers, prices around holdings and beyond the limit, two instants |
| `trading_rules` | with both rules and creation: the inductive invariant, rules, conservation, refinement of the ledger | same, one creator |
| `trading_overdraft` | finding: cash below zero | 1 round, 3 offers |
| `trading_replace` | finding: improving bid refused | 1 round, 3 offers |
| `trading_tie` | finding: price of a tie | 1 round, 3 offers |
| `trading_end_early` | finding: payouts undone | 1 round, 3 offers |
| `lifecycle` | what makes a handler of the experiment terminate the server, order of rounds, counter, payouts | 3 subjects, 5 counted messages, ten files |
| `lifecycle_ready` | finding: Ready counts messages | 2 subjects, 3 messages |
| `connection` | the dial, FIFO refinement, nothing lost, progress, under every failure | 3 messages of 0, 1 or 2 cells, 1 or 2 endpoints |
| `client_mirror` | the copies of a subject's and of an admin's program | 2 subjects, 2 rounds, 3 offers, one message behind |
| `round_timer` | phases under pauses and late completions, and the time a client shows | 2 rounds, 3 and 2 time units, delay 2, 4 pauses, one accepted offer per round |
| `registry` | roles, reachability, what makes connections and the console terminate the server | 4 connections, each asks twice, one is reset before it is accepted |

Why the bounds are enough. A crossed book, a double promise or an unfair
trade involves two offers that rest and one that comes in; the fourth offer
lets one be replaced or retracted before. Two instants give a tie and an order.
Two rounds give a round with another before it and one that is the last; the
files of `lifecycle` hold each error of the reader once, at its boundary, and
the loadable ones replace one another. Three subjects are one more than the
configuration has. With four connections erasing one moves up to three
others, two of which are compared with an id that has moved. Three
messages are one being written, one queued behind it and one posted. Two
endpoints are one that refuses with another to follow, and the last. Four
calls of Pause and Resume are two pauses in one phase, or one in each of two.
A delay of two lets an offer be accepted after the deadline. In
`round_timer` the news on their way are bounded by what is sent only, so a
client may learn of a round when the next is over. In `client_mirror` the server
acts only while at most one message is on its way (`MaxInFlight`), so the run
shows a client that is one handler behind; the theorems of `MirrorProofs` hold
for any number. A sum of the counts in
`client_mirror` stays far from the ends of a 6-bit int, so that only what the
code does to a negative number wraps around.

`CHECK_DEADLOCK FALSE` is used where the system does stop: a server taken down,
a connection closed, an experiment over, or bounds used up.

The five runs that end in a violation each check one sentence of the
instructions or messages of the program that its code does not keep; see
`findings` in `PROJECT.json`.

## 4. Fairness

* `Lifecycle`: weak fairness of the timer callbacks. The `io_context` thread
  does nothing but run handlers, so a started timer expires and its callback
  runs. Nothing is assumed of subjects or the admin.
* `RoundTimer`: weak fairness of the clock, of the expiry and of the handler
  that has been queued. Pause and Resume are not fair.
* `ClientClock`: the same three, each together with the messages it sends. The
  client is not fair: nothing is promised of when a message is handled.
* `Connection`: weak fairness of the two `io_context` threads and of TCP while it
  is connected. Failures are not fair.
* `AsioClient`: the same, and of the dial: TCP answers, refuses or times out
  every attempt. Connecting, sending and disconnecting are not fair.
* `Trading`, `Registry` and `Mirror` state safety only.

## 5. What is proved

Assumptions are the named `ASSUME`s of the modules: numbers are naturals, the
dividend and margin tables cover the rounds, subjects are finitely many. No
bound is used as anything but a natural number.

* `FoldProofs`. A fold is defined as the function that solves its equation, so
  that it does is itself a theorem (`FoldExists`), and facts about it are
  inductions. The library's induction theorems cannot be instantiated by the
  prover; every induction here, over a position of a sequence or over a finite
  set, takes a minimal counterexample instead (`NatLeast`, `SubsetLeast`). From
  that follow how a sum changes with one term, that it is linear, that a transfer
  leaves it alone and that a part of nonnegative terms is no more than the whole
  (`SumRemove`, `SumLinear`, `SumTransfer`, `SumSubset`), and what flattening
  does to an appended or a first element (`FlattenAppend`, `FlattenConcat`).
* `TradingProofs`. `MarketInvariant` is inductive (`MarketAlways`). Its first
  part is `BookInvariant` (`BookAlways`). `Uncrossed` alone is not inductive: it
  needs the invariant that ids are unique and older than the next one (so the
  pop removes exactly the pair), that an incoming offer is compared with the
  standing offer of the other side, and that the book is empty unless a round's
  timer runs. `AsksCovered` needs the bound on asks through a trade, where the
  seller loses a share and an ask together. From it follow types, the uncrossed
  and keyed book, covered asks, the two rules (`NewestAlwaysBest`,
  `OneOfferEach`), fair trades, the closed market, and
  `Spec => HoldingsLedger!Spec`: every step of the server is a transfer, a
  creation, a dividend, the allocation or a stutter of the ledger. The second
  part, `BidsCovered`, is about sums: a subject without the right to create has
  at least the cash of all its bids together (`BidsAlwaysCovered`). A trade takes
  a bid out of the sum and no more than its price out of the cash; a replaced bid
  leaves the sum before the new one enters. So a subject overdraws its cash, as
  the run `trading_overdraft` shows, only if it creates shares
  (`OnlyCreatorsOverdraw`). The third part, `DerivativesOK`, ties the shares there
  are to those handed out, and with it money enters by dividends only, by as
  much as the configuration says (`MoneyIsConserved`).
* `LifecycleProofs`. What the reader accepts describes every player and round
  (`LoadedDescribesAll`). `SessionInvariant` adds to the types that a running
  timer means an experiment that started with a configuration, and, on script,
  that what the start checked is still so. From it: what terminates the server
  (`DownHasCause`), that an orderly session never does, and the order of rounds.
  `CountInvariant` adds that on script the shared counter is the number of
  subjects who are ready during the instructions, and of those who have given a
  name after the last round, with the reset between them; `CounterIsRight`
  follows because sets of subjects of equal size, one inside the other, are equal.
* `TimerProofs`, on the server's timer. `TimerInvariant` ties the timer to the
  phase: unless `Resume` meddled, elapsed and remaining time add up to the
  duration and the one completion, pending or queued, belongs to the phase. From
  it: types, one completion, no early end, and time stamps that never run
  backwards.
* `TimerProofs`, on the clock of a program, any number of messages behind.
  Every step of the timer either keeps the phase, with less time left, or begins
  a later phase with its whole time (`PhaseStep`: phases are ordered by round
  and, within it, as they follow). `ClockInvariant` says of each message on its
  way which phase has been told before it (`Told`), that this is never a phase
  after the present one, that the last told is the present one, and that a time
  told in a phase is not less than what is left of it, nor, unless an offer was
  late, more than its length (`Right`). Sending keeps this because a new phase
  is later than all that were told (`NewPhase`, `NewTime`), handling because the
  queue without its first message has told the same (`Handled`). The misread
  time does no harm to `NeverTooShort`: it is only ever read as a larger one.
* `ConnectionProofs`. `WriterInvariant`: the writer is awake. `ClientInvariant`
  carries it through the dial, where a write may be aborted with the socket it
  was on: the writer is awake there too (`ClientAwake`), and a client that holds
  its connection gives up its dial after the last endpoint or with the message
  in its queue that was sent too early (`ClientGivesUpLast`).
  `FlowInvariant` says where the bytes are: what has been handled and the rest are
  what was sent; what is read in part, the wire and what is still to be written
  are the stream of the rest; and until an operation fails, what is to be written
  is what is left of the write under way, the queue and what is posted. With it
  nothing is lost or repeated (`ConnectionLosesNothing`), the types hold, a header
  and a body in progress have the length their reader waits for, and what is
  handled is a beginning of what was sent: the refinement `ConnectionIsFifo`, one
  step of `Channel` or a stutter for every step of either end. It is carried
  through the dial as well (`ClientTypes`, `ClientLosesNothing`, `ClientIsFifo`).
  Messages are assumed to be no more than their type and body.
* `RegistryProofs`. Whatever the two threads do to the vectors, the map of
  clients and the count of subjects grow together until `Stop`
  (`SubjectsAlwaysReachable`). `Erase` removes exactly the slot it is asked to,
  although the id it compares with moves, provided no id is in the vector twice
  (`EraseIsWithout`). `RegistryInvariant` therefore carries `OneRole`, which gives
  that proviso, together with the types, and says who has asked for a role: a
  connection that asks once is in `connections_`, and what it asks for cannot
  bring the server down. What remains is the console, a second request, and a
  connection reset before it is accepted (`RegistryTypes`, `RegistryOneRole`,
  `RegistryStaysUp`).
* `TextFormsProofs`, for texts of any length: an int survives being read as
  unsigned, a remaining time does unless it is below zero; offers, trades, round
  settings, portfolios, the vector of retractions, the market's whole answer to
  an offer and the reader's answer are read back whatever follows them in the
  text; a subject is read back but for its name, which gains a blank, and so are
  a subject's settings but for the line with the name of its instructions. A
  count that is no int is read back as the one it wraps around to (`Wrapped`).
  Each proof first lists the words of a text by position, then looks up the ones
  that are read; texts in parts are regrouped so that the part to be read comes
  first (`AnyGrouping`).
* `MirrorProofs`, for any subjects, rounds, offers and any number of messages on
  their way. Nothing simpler than the way itself is inductive: `MirrorInvariant`
  says that the messages in the queue lead from the view to one that has been
  told everything (`Told`), by way of views of the right type all of which are
  books (`Leads`, `IsTrail`). Handling the first message walks one step of that
  way (`HandledStep`); a handler of the server adds to its end. For this each
  message has a lemma that says what reading it does to either program, by the
  read-back theorem of its text (`PortfolioSent`, `ConfigurationSent`, `RoundSent`,
  `OfferSent`, `RetractionSent` and others), and each handler one that composes
  them in the order of the code (`OfferCatchesUp`, `EndRoundCatchesUp` and
  others), with a lemma for its loops over the subjects (`BringsToEach`). That
  the client's one pass over an accepted offer, its trade and what it replaces
  gives the server's book rests on the new offer's id being none of those
  replaced, and that every view on the way is a book on `BookInvariant`, after
  each of the server's steps. `Caught`, a fold, is the end of the way
  (`LeadsToCaught`). From it: `ViewAlwaysABook`, `BookAlwaysCatchesUp`,
  `ViewAlwaysCatchesUp`, `AdminAlwaysCatchesUp` and `ReviewAlwaysAddsUp`. All but
  the first two are about counts and say `CountsFit`: while no count of the server's is beyond an int,
  where the code would be undefined. The model's counts have no bound, and one
  beyond an int would not come back from its text.
The theorems on `Spec` of `RoundTimer` and `Connection` are checked by runs
of `ClockSpec` and `ClientSpec`, which contain their steps: `ClockNext` and
`ClientNext` add actions that leave the timer alone, or the dial before and
around the connection.

Only model-checked: every liveness property (`ReachesPayouts`, `PhasesEnd`,
`EveryMessageArrives`), as fairness is beyond the prover. Every other property of
a passing run is a theorem, those of `Mirror` that are about counts under
`CountsFit`; the runs check them without it, on counts that fit.

## 6. Not modelled

* The dispatch on `client_ids_`. In the present code that vector is never filled
  and no message is sent on accepting, so a subject's requests would not reach
  the director. The models start where the director has found the subject, as
  its handlers are written for.
* What programs only show: `SubjectData`, rejections, the answers to the
  admin's commands, their consoles, `PrettyPrint`, the text of `MarketState`.
  The members of the admin's state are taken from how `AdminsideProcessor` uses
  them, as `admin_state.hh` lists only some of them.
* A second `Connect` of an `AsioClient`, which no program makes.
* Warnings of the reader and the instructions with their files; the flag
  `valid_instructions` is never read.
* `PausableTimer::Restart`, which nothing calls; the system clock and the steady
  clock of a timer are taken to agree.
* `Trade::timestamp` is sent and shown with every trade and decides nothing; the
  texts and the trades of the models are without it. `Portfolio::Diff` is called
  by `GetPortfolioDifference` only, and that by nothing.
* A socket whose `close()` fails, which would throw out of a handler.
* Two operators lack their `return` (`temp_src/market/retract_request.cc:39` and
  `temp_src/configuration_reader.cc:243`). CMake sets no build type, so the code
  is compiled unoptimised and they come back; their value is not used. The
  models take that outcome.

## 7. Plan

Done: the server (`Trading`, `Lifecycle`, `RoundTimer`, `Registry`, the reader),
the connections with the dial, what is sent and its text forms, and the
programs of subjects and of the admin with their clocks; every safety property
of them is proved. What would come next:

1. A bound on what a session can pay, from the prices, dividends and number of
   rounds, that would turn `CountsFit` into a condition on the configuration.
2. The handshake, once the server fills `client_ids_` and sends the message that
   the client waits for: `AsioClient` composed with `Registry`.
3. The warnings of the reader, and how the admin's program shows them.
