------------------------------ MODULE AsioClient ------------------------------
(***************************************************************************)
(* AsioClient: it dials a server and then holds one end of a Connection,   *)
(* here as the end that sends.  The host may have several endpoints, which *)
(* asio::async_connect tries one after the other with the same socket:     *)
(* when one refuses, the socket is closed and opened anew for the next.    *)
(*                                                                         *)
(* The socket is open from the first attempt on, so IsConnected is true    *)
(* and Send posts its message while the client is still dialling; the      *)
(* write that is started waits for the connection.                         *)
(***************************************************************************)
EXTENDS Connection

CONSTANT MaxEndpoints   \* bound: endpoints of the host

ASSUME EndpointsAssumption == MaxEndpoints \in Nat \ {0}

VARIABLES
  dial,       \* async_connect: None before, then Dialing, Connected or Failed
  left,       \* endpoints that have not refused yet
  aborted,    \* the outstanding write was aborted with the socket it was on
  held        \* m_connection points to the connection

dialVars == <<dial, left, aborted, held>>
clientVars == <<vars, dialVars>>

IsConnected == held /\ sender_open

\* A connection is made once; the name of the host has been resolved.
Connect ==
  /\ dial = "None"
  /\ dial' = "Dialing" /\ held' = TRUE
  /\ left' \in 1..MaxEndpoints
  /\ sender_open' = TRUE
  /\ UNCHANGED <<posted, queue, writing, unsent, sent, wire, cut, receiver, aborted>>

\* A message for a client that is not connected is dropped.
ClientSend(m) == IsConnected /\ Send(m) /\ UNCHANGED dialVars

\* Mutant: the pointer is kept.
DisconnectHolding ==
  /\ held
  /\ IF sender_open THEN CloseSender ELSE UNCHANGED vars
  /\ UNCHANGED dialVars

\* The connection is released, not deleted: its handlers still run.
Disconnect ==
  /\ held /\ held' = FALSE
  /\ IF sender_open THEN CloseSender ELSE UNCHANGED vars
  /\ UNCHANGED <<dial, left, aborted>>

-----------------------------------------------------------------------------
(* The dial                                                                *)

\* There is another endpoint: a write that waits for the connection is aborted.
EndpointRefuses ==
  /\ dial = "Dialing" /\ sender_open /\ ~aborted /\ left > 1
  /\ left' = left - 1
  /\ aborted' = (writing # "None")
  /\ UNCHANGED <<vars, dial, held>>

\* The last one leaves a socket that is open and cannot be written to.
LastEndpointRefuses ==
  /\ dial = "Dialing" /\ sender_open /\ ~aborted /\ left = 1
  /\ left' = 0
  /\ dial' = "Failed" /\ cut' = TRUE
  /\ UNCHANGED <<sender, wire, receiver, aborted, held>>

\* The connect handler reads, and so does the end that has accepted.
EndpointAnswers ==
  /\ dial = "Dialing" /\ sender_open /\ ~aborted
  /\ dial' = "Connected"
  /\ reading' = "Header" /\ receiver_open' = TRUE
  /\ UNCHANGED <<sender, wire, cut, temp, received, left, aborted, held>>

\* The handler of the aborted write closes the socket, by now the next one.
AbortedWrite ==
  /\ aborted /\ aborted' = FALSE
  /\ writing' = "None" /\ unsent' = <<>>
  /\ sender_open' = FALSE
  /\ UNCHANGED <<posted, queue, sent, wire, cut, receiver, dial, left, held>>

\* async_connect gives up when the socket is closed.
DialAborted ==
  /\ dial = "Dialing" /\ ~sender_open
  /\ dial' = "Failed"
  /\ UNCHANGED <<vars, left, aborted, held>>

Dial == EndpointRefuses \/ LastEndpointRefuses \/ EndpointAnswers \/ DialAborted

-----------------------------------------------------------------------------
\* The bytes of a write move only over a connection.
Write ==
  /\ \/ RunPosted
     \/ Written
     \/ ~aborted /\ WriteFails
     \/ dial = "Connected" /\ Transmit
  /\ UNCHANGED dialVars

Read == ReadingThread /\ UNCHANGED dialVars

Break == dial = "Connected" /\ Failure /\ UNCHANGED dialVars

ClientInit ==
  /\ posted = <<>> /\ queue = <<>>
  /\ writing = "None" /\ unsent = <<>>
  /\ sender_open = FALSE
  /\ wire = <<>> /\ cut = FALSE
  /\ reading = "None"
  /\ temp = [type |-> "None", body |-> <<>>, size |-> 0]
  /\ receiver_open = TRUE
  /\ sent = <<>> /\ received = <<>>
  /\ dial = "None" /\ left = 0 /\ aborted = FALSE /\ held = FALSE

ClientNext ==
  Connect \/ Disconnect \/ Dial \/ AbortedWrite \/ Write \/ Read \/ Break
    \/ \E m \in Messages : ClientSend(m)

\* Every attempt to connect is answered, refused or timed out by TCP.
ClientFairness ==
  /\ WF_clientVars(Dial) /\ WF_clientVars(AbortedWrite)
  /\ WF_clientVars(Write) /\ WF_clientVars(Read)

ClientSpec == ClientInit /\ [][ClientNext]_clientVars /\ ClientFairness

-----------------------------------------------------------------------------
(* Properties                                                              *)

\* A client that is not disconnected gives up only when every endpoint has
\* refused.  The exception is a message that was sent while an endpoint was
\* about to refuse: its write takes the whole dial down, and it stays in the
\* queue.  Nothing else ends a dial early.
GivesUpLast ==
  dial = "Failed" /\ held => left = 0 \/ queue # <<>>

=============================================================================
