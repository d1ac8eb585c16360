----------------------------- MODULE Connection -----------------------------
(***************************************************************************)
(* One direction of an AsioConnection: the end that sends and the end that *)
(* reads, each with its io_context, and the TCP stream between them.       *)
(*                                                                         *)
(* A message is a record [type, body].  On the stream it is a header, here *)
(* one cell [type, size], followed by the cells of its body.               *)
(***************************************************************************)
EXTENDS Naturals, SequencesExt

CONSTANTS
  Messages,     \* messages that may be sent
  MaxMessages   \* bound: calls of Send

ASSUME MessagesAssumption ==
  /\ \A m \in Messages :
       m = [type |-> m.type, body |-> m.body] /\ m.body \in Seq(Range(m.body))
  /\ MaxMessages \in Nat

VARIABLES
  posted,         \* lambdas that Send has posted to the io_context
  queue,          \* m_qMessagesOut
  writing,        \* the outstanding async_write
  unsent,         \* what the stream has not taken of its buffer yet
  sender_open,    \* socket_ of the sending end
  wire,           \* what the stream holds
  cut,            \* the peer or the network has dropped the connection
  reading,        \* the outstanding async_read
  temp,           \* m_msgTemporaryIn
  receiver_open,  \* socket_ of the reading end
  sent,           \* history: messages given to Send
  received        \* history: messages given to do_handle_message_

sender == <<posted, queue, writing, unsent, sender_open, sent>>
receiver == <<reading, temp, receiver_open, received>>
vars == <<sender, wire, cut, receiver>>

HeaderOf(m) == [type |-> m.type, size |-> Len(m.body)]

Init ==
  /\ posted = <<>> /\ queue = <<>>
  /\ writing = "None" /\ unsent = <<>>
  /\ sender_open = TRUE
  /\ wire = <<>> /\ cut = FALSE
  /\ reading = "Header"
  /\ temp = [type |-> "None", body |-> <<>>, size |-> 0]
  /\ receiver_open = TRUE
  /\ sent = <<>> /\ received = <<>>

-----------------------------------------------------------------------------
(* The sending end                                                         *)

\* Send may be called by any thread, on a closed connection too.
Send(m) ==
  /\ Len(sent) < MaxMessages
  /\ sent' = Append(sent, m)
  /\ posted' = Append(posted, m)
  /\ UNCHANGED <<queue, writing, unsent, sender_open, wire, cut, receiver>>

\* WriteHeader for the message at the front of q, or nothing
WriteNext(q) ==
  IF q = <<>> THEN writing' = "None" /\ unsent' = <<>>
  ELSE writing' = "Header" /\ unsent' = <<HeaderOf(Head(q))>>

\* Mutant: a write is started for every message.
RunPostedAlwaysWriting ==
  /\ posted # <<>>
  /\ posted' = Tail(posted)
  /\ queue' = Append(queue, Head(posted))
  /\ WriteNext(queue')
  /\ UNCHANGED <<sender_open, sent, wire, cut, receiver>>

\* The posted lambda: only one write is outstanding at a time.
RunPosted ==
  /\ posted # <<>>
  /\ posted' = Tail(posted)
  /\ queue' = Append(queue, Head(posted))
  /\ IF queue = <<>> THEN WriteNext(queue') ELSE UNCHANGED <<writing, unsent>>
  /\ UNCHANGED <<sender_open, sent, wire, cut, receiver>>

\* The stream takes a part of the buffer.
Transmit ==
  /\ unsent # <<>> /\ sender_open /\ ~cut
  /\ wire' = Append(wire, Head(unsent))
  /\ unsent' = Tail(unsent)
  /\ UNCHANGED <<posted, queue, writing, sender_open, sent, cut, receiver>>

\* Mutant: after a message with a body nothing more is written.
WrittenOnce ==
  /\ writing # "None" /\ unsent = <<>>
  /\ IF writing = "Header" /\ Len(Head(queue).body) > 0
     THEN writing' = "Body" /\ unsent' = Head(queue).body /\ UNCHANGED queue
     ELSE /\ queue' = Tail(queue)
          /\ IF writing = "Header" THEN WriteNext(queue') ELSE WriteNext(<<>>)
  /\ UNCHANGED <<posted, sender_open, sent, wire, cut, receiver>>

\* The completion handlers of WriteHeader and WriteBody, without an error
Written ==
  /\ writing # "None" /\ unsent = <<>>
  /\ IF writing = "Header" /\ Len(Head(queue).body) > 0
     THEN writing' = "Body" /\ unsent' = Head(queue).body /\ UNCHANGED queue
     ELSE queue' = Tail(queue) /\ WriteNext(queue')
  /\ UNCHANGED <<posted, sender_open, sent, wire, cut, receiver>>

\* The same handlers with an error.  The queue is left as it is, so later
\* messages are appended to it and never written.
WriteFails ==
  /\ unsent # <<>> /\ (~sender_open \/ cut)
  /\ writing' = "None" /\ unsent' = <<>>
  /\ sender_open' = FALSE
  /\ UNCHANGED <<posted, queue, sent, wire, cut, receiver>>

-----------------------------------------------------------------------------
(* The reading end                                                         *)

Deliver(type, body) == received' = Append(received, [type |-> type, body |-> body])

\* std::string::resize: cut off, or padded with zeros
Resized(body, size) ==
  [i \in 1..size |-> IF i \in DOMAIN body THEN body[i] ELSE 0]

\* Mutant: the body of the previous message is kept.
HeaderReadStale ==
  /\ reading = "Header" /\ receiver_open /\ wire # <<>>
  /\ wire' = Tail(wire)
  /\ temp' = [temp EXCEPT !.type = Head(wire).type, !.size = Head(wire).size]
  /\ IF Head(wire).size > 0 THEN reading' = "Body" /\ UNCHANGED received
     ELSE reading' = "Header" /\ Deliver(temp'.type, temp'.body)
  /\ UNCHANGED <<receiver_open, sender, cut>>

\* The completion handler of ReadHeader.  The body is resized before it is
\* read; a body of size zero is not read at all.
HeaderRead ==
  /\ reading = "Header" /\ receiver_open /\ wire # <<>>
  /\ wire' = Tail(wire)
  /\ temp' = [type |-> Head(wire).type, size |-> Head(wire).size,
              body |-> Resized(temp.body, Head(wire).size)]
  /\ IF Head(wire).size > 0 THEN reading' = "Body" /\ UNCHANGED received
     ELSE reading' = "Header" /\ Deliver(temp'.type, temp'.body)
  /\ UNCHANGED <<receiver_open, sender, cut>>

\* The completion handler of ReadBody
BodyRead ==
  /\ reading = "Body" /\ receiver_open /\ Len(wire) >= temp.size
  /\ wire' = SubSeq(wire, temp.size + 1, Len(wire))
  /\ temp' = [temp EXCEPT !.body = SubSeq(wire, 1, temp.size)]
  /\ reading' = "Header"
  /\ Deliver(temp'.type, temp'.body)
  /\ UNCHANGED <<receiver_open, sender, cut>>

\* Mutant: what has been read of a body is delivered.
ReadFailsDelivering ==
  /\ reading # "None"
  /\ \/ ~receiver_open
     \/ /\ ~sender_open \/ cut
        /\ IF reading = "Header" THEN wire = <<>> ELSE Len(wire) < temp.size
  /\ reading' = "None"
  /\ receiver_open' = FALSE
  /\ IF reading = "Body" THEN Deliver(temp.type, temp.body) ELSE UNCHANGED received
  /\ UNCHANGED <<temp, sender, wire, cut>>

\* Either handler with an error: the socket was closed, or the stream has
\* ended before the buffer was full.
ReadFails ==
  /\ reading # "None"
  /\ \/ ~receiver_open
     \/ /\ ~sender_open \/ cut
        /\ IF reading = "Header" THEN wire = <<>> ELSE Len(wire) < temp.size
  /\ reading' = "None"
  /\ receiver_open' = FALSE
  /\ UNCHANGED <<temp, received, sender, wire, cut>>

-----------------------------------------------------------------------------
(* Failures                                                                *)

\* Disconnect, Stop, or an error of the other direction
CloseSender ==
  /\ sender_open
  /\ sender_open' = FALSE
  /\ UNCHANGED <<posted, queue, writing, unsent, sent, wire, cut, receiver>>

CloseReceiver ==
  /\ receiver_open
  /\ receiver_open' = FALSE
  /\ cut' = TRUE
  /\ UNCHANGED <<reading, temp, received, sender, wire>>

\* The connection is reset; what has not been read by then may be lost.
Reset ==
  /\ ~cut
  /\ cut' = TRUE
  /\ \E n \in 0..Len(wire) : wire' = SubSeq(wire, 1, n)
  /\ UNCHANGED <<sender, receiver>>

Failure == CloseSender \/ CloseReceiver \/ Reset

-----------------------------------------------------------------------------
SendingThread == RunPosted \/ Transmit \/ Written \/ WriteFails

ReadingThread == HeaderRead \/ BodyRead \/ ReadFails

Next == SendingThread \/ ReadingThread \/ Failure \/ \E m \in Messages : Send(m)

\* Both ends run their io_context, and TCP transmits while it is connected.
Fairness == WF_vars(SendingThread) /\ WF_vars(ReadingThread)

Spec == Init /\ [][Next]_vars /\ Fairness

-----------------------------------------------------------------------------
(* Properties                                                              *)

Failed == cut \/ ~sender_open \/ ~receiver_open

TypeOK ==
  /\ posted \in Seq(Messages) /\ queue \in Seq(Messages)
  /\ writing \in {"None", "Header", "Body"}
  /\ reading \in {"None", "Header", "Body"}
  /\ sender_open \in BOOLEAN /\ receiver_open \in BOOLEAN /\ cut \in BOOLEAN
  /\ temp.size \in Nat
  /\ sent \in Seq(Messages) /\ received \in Seq(Messages)

\* While the socket is open a write is outstanding whenever a message waits,
\* so none waits for a later one to get it going; and the message that is
\* being written stays at the front of the queue, which owns its buffer.
WriterIsAwake ==
  /\ sender_open => (queue # <<>> <=> writing # "None")
  /\ writing # "None" => queue # <<>>
  /\ unsent # <<>> => writing # "None"

Encode(m) == <<HeaderOf(m)>> \o m.body

Stream(msgs) == FlattenSeq([i \in 1..Len(msgs) |-> Encode(msgs[i])])

\* What has still to be written of the messages in the queue
Remaining ==
  CASE writing = "Header" -> unsent \o Head(queue).body \o Stream(Tail(queue))
    [] writing = "Body"   -> unsent \o Stream(Tail(queue))
    [] OTHER              -> Stream(queue)

\* What has been read of a message that is not complete
PartlyRead ==
  IF reading = "Body" THEN <<[type |-> temp.type, size |-> temp.size]>> ELSE <<>>

\* Until the connection fails, nothing is lost, repeated or reordered between
\* Send and the handler: what is read, under way and waiting is what was sent.
NothingLost ==
  ~Failed =>
    Stream(sent) = Stream(received) \o PartlyRead \o wire \o Remaining
                     \o Stream(posted)

\* Whatever happens, the other end sees a FIFO channel.
FifoChannel == INSTANCE Channel

ImplementsChannel == FifoChannel!Spec

\* Unless the connection fails, every message arrives.
EveryMessageArrives ==
  \A n \in 1..MaxMessages : Len(sent) >= n ~> Len(received) >= n \/ Failed

=============================================================================
