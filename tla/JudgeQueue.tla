------------------------------ MODULE JudgeQueue ------------------------------
(****************************************************************************)
(* The process's one channel to RabbitMQ. A publish sends its message and   *)
(* then takes the next confirmation, whichever message it is about; it does *)
(* not wait for longer than five seconds. Confirmations and deliveries come *)
(* over one connection, which the client library reads in order: while q's  *)
(* channel of confirmations, with room for one, is full, it reads no more.  *)
(* JudgePipeline has what may come of a single publish (Outcomes) and not   *)
(* why.                                                                     *)
(****************************************************************************)
EXTENDS Integers, Sequences

CONSTANTS
  Callers,       \* goroutines that publish: requests, the ticker, the consumer
  Consumer,
  MaxPublishes   \* bound

VARIABLES
  open,       \* the connection
  waiting,    \* by caller: the message whose publish it is in, 0 if none
  published,  \* messages sent so far; they are numbered
  fate,       \* what the broker did with each
  answer,     \* what publish answered for each
  confirmed,  \* the broker has confirmed messages up to this one
  unacked,    \* the delivery the consumer has not acknowledged (prefetch 1), or 0
  delivered,  \* messages that have reached the consumer
  forward,    \* the message it published because it could not judge unacked, or 0
  inbound,    \* what the broker sent and the library has not read
  confirms,   \* q.confirms
  behind      \* history: publishes that took no confirmation

vars == <<open, waiting, published, fate, answer, confirmed, unacked, delivered, forward,
          inbound, confirms, behind>>

Messages == 1..MaxPublishes
Kept     == {"queued", "dead"}   \* dead: on the dead letter queue, which nobody consumes
Frame    == [kind : {"confirm", "deliver"}, message : Messages]

TypeOK ==
  /\ open \in BOOLEAN
  /\ waiting \in [Callers -> 0..MaxPublishes]
  /\ published \in 0..MaxPublishes /\ confirmed \in 0..published /\ behind \in 0..published
  /\ fate \in [Messages -> {"none", "sent", "refused"} \cup Kept]
  /\ answer \in [Messages -> {"none", "ok", "error"}]
  /\ unacked \in 0..MaxPublishes /\ forward \in 0..MaxPublishes /\ delivered \subseteq Messages
  /\ inbound \in Seq(Frame)
  /\ confirms \in Seq(Messages) /\ Len(confirms) <= 1

Init ==
  /\ open = TRUE
  /\ waiting = [c \in Callers |-> 0]
  /\ published = 0 /\ confirmed = 0 /\ unacked = 0 /\ forward = 0 /\ behind = 0
  /\ fate = [m \in Messages |-> "none"]
  /\ answer = [m \in Messages |-> "none"]
  /\ delivered = {} /\ inbound = <<>> /\ confirms = <<>>

----------------------------------------------------------------------------
(* publish                                                                  *)

Quiet == \A c \in Callers : waiting[c] = 0

\* The consumer publishes a message it could not judge to the retry queue, which
\* gives it back, or to that of dead letters.
Send(c) ==
  /\ open /\ waiting[c] = 0 /\ published < MaxPublishes
  /\ published' = published + 1
  /\ fate' = [fate EXCEPT ![published + 1] = "sent"]
  /\ waiting' = [waiting EXCEPT ![c] = published + 1]
  /\ IF c = Consumer
     THEN unacked \in delivered /\ forward = 0 /\ forward' = published + 1
     ELSE UNCHANGED forward
  /\ UNCHANGED <<open, answer, confirmed, unacked, delivered, inbound, confirms, behind>>

\* Slip: calls publish beside each other.
SendUnlocked(c) == Send(c)

\* q.mu is held until the answer. Without a connection the call fails at once.
Publish(c) == Quiet /\ Send(c)

Answer(c, a) ==
  /\ answer' = [answer EXCEPT ![waiting[c]] = a]
  /\ waiting' = [waiting EXCEPT ![c] = 0]

\* Slip: a negative confirmation is a confirmation.
TakeAny(c) ==
  /\ waiting[c] # 0 /\ confirms # <<>>
  /\ Answer(c, "ok")
  /\ confirms' = <<>>
  /\ UNCHANGED <<open, published, fate, confirmed, unacked, delivered, forward, inbound, behind>>

\* The confirmation need not be that of the message of this call.
TakeConfirm(c) ==
  /\ waiting[c] # 0 /\ confirms # <<>>
  /\ Answer(c, IF fate[Head(confirms)] \in Kept THEN "ok" ELSE "error")
  /\ confirms' = <<>>
  /\ UNCHANGED <<open, published, fate, confirmed, unacked, delivered, forward, inbound, behind>>

\* Five seconds are over (they began before the call got the lock, and a
\* confirmation may have come as well), or the channel is closed.
GiveUp(c) ==
  /\ waiting[c] # 0
  /\ Answer(c, "error")
  /\ behind' = behind + 1
  /\ UNCHANGED <<open, published, fate, confirmed, unacked, delivered, forward, inbound, confirms>>

----------------------------------------------------------------------------
(* The broker, the library, the consumer                                    *)

\* The broker puts the next message on a queue or refuses it.
Handle(m) ==
  /\ open /\ fate[m] = "sent" /\ \A n \in 1..m - 1 : fate[n] # "sent"
  /\ \E f \in {"refused"} \cup Kept : fate' = [fate EXCEPT ![m] = f]
  /\ UNCHANGED <<open, waiting, published, answer, confirmed, unacked, delivered, forward,
                 inbound, confirms, behind>>

Arrives(kind, m) == inbound' = Append(inbound, [kind |-> kind, message |-> m])

\* Confirmations reach the program in the order of the messages.
Confirm ==
  /\ open /\ confirmed < published
  /\ fate[confirmed + 1] # "sent"
  /\ confirmed' = confirmed + 1
  /\ Arrives("confirm", confirmed + 1)
  /\ UNCHANGED <<open, waiting, published, fate, answer, unacked, delivered, forward, confirms,
                 behind>>

\* A message may be delivered before it is confirmed.
Deliver(m) ==
  /\ open /\ unacked = 0
  /\ fate[m] = "queued" /\ m \notin delivered
  /\ unacked' = m
  /\ Arrives("deliver", m)
  /\ UNCHANGED <<open, waiting, published, fate, answer, confirmed, delivered, forward, confirms,
                 behind>>

\* Slip: q.confirms has no room, so somebody must be waiting.
ReadUnbuffered ==
  /\ open /\ inbound # <<>>
  /\ inbound' = Tail(inbound)
  /\ LET f == Head(inbound) IN
       IF f.kind = "deliver"
       THEN delivered' = delivered \cup {f.message} /\ UNCHANGED confirms
       ELSE ~Quiet /\ confirms = <<>> /\ confirms' = <<f.message>> /\ UNCHANGED delivered
  /\ UNCHANGED <<open, waiting, published, fate, answer, confirmed, unacked, forward, behind>>

\* The library reads a frame, a confirmation when there is room for it.
Read ==
  /\ open /\ inbound # <<>>
  /\ inbound' = Tail(inbound)
  /\ LET f == Head(inbound) IN
       IF f.kind = "deliver"
       THEN delivered' = delivered \cup {f.message} /\ UNCHANGED confirms
       ELSE confirms = <<>> /\ confirms' = <<f.message>> /\ UNCHANGED delivered
  /\ UNCHANGED <<open, waiting, published, fate, answer, confirmed, unacked, forward, behind>>

Acknowledged == unacked \in delivered /\ unacked' = 0 /\ forward' = 0

\* The message is judged, or handed on.
Ack ==
  /\ open /\ Acknowledged
  /\ forward # 0 => answer[forward] = "ok"
  /\ UNCHANGED <<open, waiting, published, fate, answer, confirmed, delivered, inbound,
                 confirms, behind>>

\* It could not be handed on, as far as publish knows: back to its queue.
Nack ==
  /\ open /\ Acknowledged
  /\ forward # 0 /\ answer[forward] = "error"
  /\ delivered' = delivered \ {unacked}
  /\ UNCHANGED <<open, waiting, published, fate, answer, confirmed, inbound, confirms, behind>>

\* Nothing connects again. What q.confirms held can still be taken.
Lose ==
  /\ open
  /\ open' = FALSE /\ inbound' = <<>>
  /\ UNCHANGED <<waiting, published, fate, answer, confirmed, unacked, delivered, forward, confirms,
                 behind>>

Next ==
  \/ \E c \in Callers : Publish(c) \/ TakeConfirm(c) \/ GiveUp(c)
  \/ \E m \in Messages : Handle(m) \/ Deliver(m)
  \/ Confirm \/ Read \/ Ack \/ Nack \/ Lose

Spec == Init /\ [][Next]_vars

\* Calls end, since their time does; broker and library go on, and the consumer
\* ends what it has begun. Nobody need publish.
Going ==
  \/ \E c \in Callers : TakeConfirm(c) \/ GiveUp(c)
  \/ \E m \in Messages : Handle(m) \/ Deliver(m)
  \/ Confirm \/ Read \/ Ack \/ Nack

----------------------------------------------------------------------------
\* Confirmations are counted, not matched: the one a call finds is that of as
\* many messages ago as calls have given up.
ConfirmsInStep ==
  \A c \in Callers : waiting[c] # 0 /\ confirms # <<>> => Head(confirms) = waiting[c] - behind

\* A message whose publish succeeds is on its queue, or one that was sent before
\* it, no more messages ago than calls have given up.
OkIsKept ==
  \A m \in Messages : answer[m] = "ok" =>
    \E n \in 1..m : n >= m - behind /\ fate[n] \in Kept

\* The library can read no more.
Stuck == inbound # <<>> /\ Head(inbound).kind = "confirm" /\ confirms # <<>>

\* Until two calls have given up, it is stuck only while a call is about to
\* make room.
StuckAfterTwo == Stuck /\ Quiet => behind >= 2

\* Broker, library and consumer do not wait for each other: until two calls have
\* given up, and with no call to wait for, the broker can deliver, or the library
\* read on, or the consumer end with the message it has.
DeliveryGoesOn ==
  open /\ Quiet /\ behind < 2 =>
    \/ unacked = 0
    \/ inbound # <<>> /\ ~Stuck
    \/ unacked \in delivered /\ (forward # 0 => answer[forward] # "none")

QueueInStep == ConfirmsInStep /\ OkIsKept /\ StuckAfterTwo /\ DeliveryGoesOn

\* A message that is to be judged reaches the consumer, unless two calls gave up:
\* from then on deliveries wait behind confirmations that only a publish takes.
QueuedIsDelivered ==
  \A m \in Messages : fate[m] = "queued" ~> m \in delivered \/ ~open \/ behind >= 2
=============================================================================
