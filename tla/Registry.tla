------------------------------ MODULE Registry ------------------------------
(***************************************************************************)
(* AsioServer's books on its connections: accepting them, turning them     *)
(* into subjects and admins (MessageDirector, ConnectionController), and   *)
(* sending.  Two threads use the books without a lock: the one that runs   *)
(* the io_context, and the console in main.                                *)
(*                                                                         *)
(* A connection is the id it was accepted with.  Once an undefined step or *)
(* an exception has taken the server down, up is FALSE and nothing more is *)
(* said of it.  An outstanding read stands for all that a connection has   *)
(* under way, and closing a socket is taken to succeed.                    *)
(***************************************************************************)
EXTENDS Naturals, SequencesExt

CONSTANTS
  MaxConnections,   \* bound: connections that come in
  MaxAsks           \* bound: ClientType messages of one connection

ASSUME BoundsAssumption == MaxConnections \in Nat /\ MaxAsks \in Nat

VARIABLES
  next_id,      \* the id of the next connection
  accepting,    \* accepting_conns_
  connections,  \* connections_: accepted, and neither subject nor admin
  clients,      \* clients_: from subject ids to connections
  admins,       \* admins_
  n_subjects,   \* Experiment::subjects_
  reading,      \* connections with an outstanding read
  console,      \* what the console thread is doing to the books
  stopped,      \* Stop has returned, the io_context runs on
  up,           \* the server has not been taken down
  lost,         \* the peer has reset the connection to be accepted next
  asks          \* history: ClientType messages of each connection

vars == <<next_id, accepting, connections, clients, admins, n_subjects,
          reading, console, stopped, up, lost, asks>>

books == <<accepting, connections, clients, admins>>

Connections == 0..(MaxConnections - 1)

Init ==
  /\ next_id = 0 /\ accepting = TRUE
  /\ connections = <<>> /\ clients = <<>> /\ admins = <<>>
  /\ n_subjects = 0
  /\ reading = {}
  /\ console = "Idle" /\ stopped = FALSE
  /\ up = TRUE /\ lost = FALSE
  /\ asks = [c \in Connections |-> 0]

\* An undefined step, or an exception that is not caught
GoDown ==
  /\ up' = FALSE
  /\ UNCHANGED <<next_id, books, n_subjects, reading, console, stopped, lost>>

-----------------------------------------------------------------------------
(* Vectors of connections                                                  *)

\* Mutant: nothing is erased.
EraseNothing(v, i) == v

\* std::erase_if with a predicate that compares with the id in slot i of the
\* very vector that is being compacted: once the next element has been moved
\* into the slot, the rest is compared with that one.
Erase(v, i) ==
  LET Step(acc, c) ==
        IF c = acc.slot THEN acc
        ELSE [kept |-> Append(acc.kept, c),
              slot |-> IF Len(acc.kept) = i - 1 THEN c ELSE acc.slot]
  IN FoldLeft(Step, [kept |-> SubSeq(v, 1, i - 1), slot |-> v[i]],
              SubSeq(v, i + 1, Len(v))).kept

-----------------------------------------------------------------------------
(* The thread of the io_context                                            *)

\* Mutant: the id is not counted up.
AcceptSameId ==
  /\ up /\ ~lost /\ next_id < MaxConnections
  /\ connections' = Append(connections, next_id)
  /\ reading' = reading \cup {next_id}
  /\ UNCHANGED <<next_id, accepting, clients, admins, n_subjects, console,
                 stopped, up, lost, asks>>

\* Mutant: a refused connection is read, too.
AcceptReading ==
  /\ up /\ ~lost /\ next_id < MaxConnections
  /\ next_id' = next_id + 1
  /\ connections' = IF accepting THEN Append(connections, next_id) ELSE connections
  /\ reading' = reading \cup {next_id}
  /\ UNCHANGED <<accepting, clients, admins, n_subjects, console, stopped, up,
                 lost, asks>>

\* The handler of async_accept.  A connection that is refused gets an id, and
\* is destroyed before anything is read from it.  remote_endpoint throws when
\* the peer has gone, out of io_context::run; it is called after the id has
\* been given, and by ConnectToClient again, which ends the server likewise.
\* An accept that fails changes nothing.
Accept ==
  /\ up /\ next_id < MaxConnections
  /\ next_id' = next_id + 1
  /\ \/ lost /\ up' = FALSE /\ UNCHANGED <<connections, reading>>
     \/ /\ ~lost /\ accepting
        /\ connections' = Append(connections, next_id)
        /\ reading' = reading \cup {next_id}
        /\ UNCHANGED up
     \/ ~lost /\ ~accepting /\ UNCHANGED <<connections, reading, up>>
  /\ UNCHANGED <<accepting, clients, admins, n_subjects, console, stopped, lost, asks>>

Asks(c) ==
  /\ up /\ c \in reading /\ asks[c] < MaxAsks
  /\ asks' = [asks EXCEPT ![c] = @ + 1]

AddAdmin(c) ==
  /\ Asks(c)
  /\ \E i \in DOMAIN connections :
       /\ connections[i] = c
       /\ admins' = Append(admins, c)
       /\ connections' = Erase(connections, i)
  /\ UNCHANGED <<next_id, accepting, clients, n_subjects, reading, console,
                 stopped, up, lost>>

\* Mutant: subjects are counted from one.
AcceptSubjectFromOne(c) ==
  /\ Asks(c)
  /\ n_subjects' = n_subjects + 1
  /\ \E i \in DOMAIN connections :
       /\ connections[i] = c
       /\ clients' = [s \in DOMAIN clients \cup {n_subjects'} |->
                        IF s \in DOMAIN clients THEN clients[s] ELSE c]
       /\ connections' = Erase(connections, i)
  /\ UNCHANGED <<next_id, accepting, admins, reading, console, stopped, up, lost>>

\* AcceptSubject and AddClient; emplace keeps an entry that is there.
AcceptSubject(c) ==
  /\ Asks(c)
  /\ n_subjects' = n_subjects + 1
  /\ \E i \in DOMAIN connections :
       /\ connections[i] = c
       /\ clients' = [s \in DOMAIN clients \cup {n_subjects} |->
                        IF s \in DOMAIN clients THEN clients[s] ELSE c]
       /\ connections' = Erase(connections, i)
  /\ UNCHANGED <<next_id, accepting, admins, reading, console, stopped, up, lost>>

\* ClientType of a connection that is not in connections_, as one that has a
\* role already: find_if returns end(), which is read.
AddNobody(c) ==
  /\ Asks(c)
  /\ \A i \in DOMAIN connections : connections[i] # c
  /\ GoDown

\* The io thread changes the books while the console uses them, or uses them
\* while the console changes them.
Race ==
  /\ up /\ console # "Idle"
  /\ \/ accepting /\ next_id < MaxConnections /\ UNCHANGED asks
     \/ \E c \in reading : Asks(c)
     \/ console = "Stop" /\ n_subjects > 0 /\ UNCHANGED asks
  /\ GoDown

\* A handler sends to a subject of the experiment; InvalidClientException
\* leaves io_context::run.
SendToSubject ==
  /\ up
  /\ \E s \in 0..(n_subjects - 1) : s \notin DOMAIN clients
  /\ GoDown
  /\ UNCHANGED asks

\* The other end closes, or an error occurs: the socket is closed, and the
\* books are left as they are.
Hangup(c) ==
  /\ up /\ c \in reading
  /\ reading' = reading \ {c}
  /\ UNCHANGED <<next_id, books, n_subjects, console, stopped, up, lost, asks>>

\* The handlers of the reads that Stop has aborted run: they use connections
\* that have been destroyed.
AbortedRead ==
  /\ up /\ stopped
  /\ reading \ Range(admins) # {}
  /\ \/ GoDown
     \/ /\ reading' = reading \cap Range(admins)
        /\ UNCHANGED <<next_id, books, n_subjects, console, stopped, up, lost>>
  /\ UNCHANGED asks

IoThread ==
  \/ Accept \/ Race \/ SendToSubject \/ AbortedRead
  \/ \E c \in reading : \/ AddAdmin(c) \/ AcceptSubject(c) \/ AddNobody(c)
                        \/ Hangup(c)

-----------------------------------------------------------------------------
(* The console                                                             *)

\* "testall" and "test" read the books, "stop" changes them.
Command ==
  /\ up /\ console = "Idle" /\ ~stopped
  /\ console' \in {"SendAll", "Send", "Stop"}
  /\ UNCHANGED <<next_id, books, n_subjects, reading, stopped, up, lost, asks>>

\* SendAll returns, or Send to a subject that is there.
Sent ==
  /\ up
  /\ \/ console = "SendAll"
     \/ console = "Send" /\ DOMAIN clients # {}
  /\ console' = "Idle"
  /\ UNCHANGED <<next_id, books, n_subjects, reading, stopped, up, lost, asks>>

\* Nobody catches the exception of a Send to another subject.
SentToNobody ==
  /\ up /\ console = "Send"
  /\ GoDown
  /\ UNCHANGED asks

\* Stop leaves the admins, and destroys the other connections.
Stop ==
  /\ up /\ console = "Stop"
  /\ console' = "Idle" /\ stopped' = TRUE
  /\ accepting' = FALSE
  /\ connections' = <<>> /\ clients' = <<>>
  /\ UNCHANGED <<next_id, admins, n_subjects, reading, up, lost, asks>>

\* StartAcceptingConnections and StopAcceptingConnections
SetAccepting ==
  /\ up /\ console = "Idle" /\ ~stopped
  /\ accepting' = ~accepting
  /\ UNCHANGED <<next_id, connections, clients, admins, n_subjects, reading,
                 console, stopped, up, lost, asks>>

Console == SetAccepting \/ Command \/ Sent \/ SentToNobody \/ Stop

-----------------------------------------------------------------------------
(* The network                                                             *)

\* The peer of the connection to be accepted next resets it.
PeerResets ==
  /\ up /\ ~lost /\ next_id < MaxConnections
  /\ lost' = TRUE
  /\ UNCHANGED <<next_id, books, n_subjects, reading, console, stopped, up, asks>>

Next == IoThread \/ Console \/ PeerResets

Spec == Init /\ [][Next]_vars

-----------------------------------------------------------------------------
(* Properties                                                              *)

Subjects == Range(clients)

\* The types; ids are given out once, so every id in the books is below next_id.
TypeOK ==
  /\ next_id \in 0..MaxConnections
  /\ accepting \in BOOLEAN /\ stopped \in BOOLEAN
  /\ up \in BOOLEAN /\ lost \in BOOLEAN
  /\ connections \in Seq(0..(next_id - 1)) /\ admins \in Seq(0..(next_id - 1))
  /\ Subjects \subseteq 0..(next_id - 1)
  /\ n_subjects \in 0..next_id
  /\ reading \subseteq 0..(next_id - 1)
  /\ console \in {"Idle", "SendAll", "Send", "Stop"}
  /\ asks \in [Connections -> 0..MaxAsks]

\* Until the server is stopped, every connection it reads from is in one of
\* its books and in one only: the vector is compacted correctly although the
\* predicate looks into it.
OneRole ==
  ~stopped =>
    /\ IsInjective(connections) /\ IsInjective(admins) /\ IsInjective(clients)
    /\ Range(connections) \cap Subjects = {}
    /\ Range(connections) \cap Range(admins) = {}
    /\ Subjects \cap Range(admins) = {}
    /\ reading \subseteq Range(connections) \cup Subjects \cup Range(admins)

\* Until then every subject the experiment counts can be sent to, so no
\* handler runs into InvalidClientException, whoever has hung up.
SubjectsReachable == ~stopped => DOMAIN clients = 0..(n_subjects - 1)

\* As long as the console is silent and no client asks for a role twice, only
\* a connection that is reset before it is accepted takes the server down, and
\* it does so when its turn comes.
StaysUp ==
  [][up' # up => \/ stopped \/ console # "Idle"
                 \/ \E c \in Connections : asks'[c] > 1
                 \/ lost /\ next_id' # next_id]_vars

=============================================================================
