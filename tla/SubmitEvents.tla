----------------------------- MODULE SubmitEvents -----------------------------
(****************************************************************************)
(* How a verdict reaches the page of its author: a judge, or the consumer   *)
(* of dead letters, writes the row, keeps the status in Redis and publishes *)
(* it to the channels that are subscribed; a handler for each channel       *)
(* forwards to its page, and a page that has no stream asks for the list    *)
(* every ten seconds. A row may be taken from a judge, which tells its      *)
(* verdict all the same. The channels are copied under a lock and sent to   *)
(* after it, with a goroutine that nobody recovers: sending to a channel    *)
(* that was closed ends the process. One user, whose submissions and pages  *)
(* these are.                                                               *)
(****************************************************************************)
EXTENDS Naturals, Sequences, FiniteSets, SequencesExt

CONSTANTS
  Submissions, Pages,
  Judges,          \* bound: calls of judgeAsync and MarkSubmitSystemError that change a row
  Finals,          \* statuses that are final; "system error" is one
  Capacity,        \* of a channel; 16 in the code
  MaxWire,         \* events a connection takes before the page reads them
  MaxStreams       \* bound: streams ever opened

VARIABLES
  row,       \* question_submit
  runtime,   \* the status in Redis
  judging,   \* by judge: the submission it has, what it tells of it, and to whom it still must
  subs,      \* submitSubs: channels of the user
  channel,   \* channels ever made
  wire,      \* by page: what was written to it
  page,      \* by page: its stream, the list it shows, the list on its way
  missed,    \* history: by page, verdicts whose event or list did not reach it or was undone
  overruled  \* history: submissions whose row was taken from a judge

vars == <<row, runtime, judging, subs, channel, wire, page, missed, overruled>>

Statuses == {"none", "pending", "running"} \cup Finals
Told     == {"running"} \cup Finals
Event    == [submission : Submissions, status : Told]
Streams  == 1..MaxStreams
List     == [Submissions -> Statuses]
Nothing  == [s \in Submissions |-> "none"]
Closed   == [buffer |-> <<>>, closed |-> TRUE]   \* what is in it is read by nobody
Opened   == [submission |-> CHOOSE s \in Submissions : TRUE, status |-> "open"]

\* judge: all were told that it is running.
Places == {"call", "tell", "send", "judge", "done"}
Call   == [at |-> "call", of |-> CHOOSE s \in Submissions : TRUE, tells |-> "running", to |-> {}]
Done   == [Call EXCEPT !.at = "done"]

TypeOK ==
  /\ row \in List /\ runtime \in [Submissions -> {"none"} \cup Told]
  /\ judging \in [Judges -> [at : Places, of : Submissions, tells : Told, to : SUBSET Streams]]
  /\ subs \subseteq DOMAIN channel /\ Len(channel) <= MaxStreams
  /\ \A c \in DOMAIN channel :
       /\ Len(channel[c].buffer) <= Capacity /\ Range(channel[c].buffer) \subseteq Event
       /\ channel[c].closed = (c \notin subs)
  /\ \A p \in Pages : Range(wire[p]) \subseteq Event \cup {Opened}
  /\ page \in [Pages -> [stream : 0..MaxStreams, shown : List, auto : BOOLEAN,
                         load : {"no", "asked", "answered"}, list : List, submitted : BOOLEAN,
                         me : {"unasked", "asked", "unknown"}]]
  /\ missed \in [Pages -> SUBSET Submissions] /\ overruled \subseteq Submissions

\* Every page has been opened and asks for its list.
Init ==
  /\ row = Nothing /\ runtime = Nothing
  /\ judging = [j \in Judges |-> Call]
  /\ subs = {} /\ channel = <<>>
  /\ wire = [p \in Pages |-> <<>>]
  /\ page = [p \in Pages |-> [stream |-> 0, shown |-> Nothing, auto |-> FALSE, load |-> "asked",
                              list |-> Nothing, submitted |-> FALSE, me |-> "unasked"]]
  /\ missed = [p \in Pages |-> {}] /\ overruled = {}

----------------------------------------------------------------------------
\* The judges.
Working(j, s) == judging[j].at \in {"tell", "send", "judge"} /\ judging[j].of = s /\ judging[j].tells = "running"

\* A judge sets out to tell a status.
Announce(j, s, t) == judging' = [judging EXCEPT ![j] = [at |-> "tell", of |-> s, tells |-> t, to |-> {}]]

\* The row changes under whoever works on it.
Take(s) == overruled' = IF \E j \in Judges : Working(j, s) THEN overruled \cup {s} ELSE overruled

Claim(j, s) ==
  /\ judging[j] = Call /\ row[s] = "pending"
  /\ row' = [row EXCEPT ![s] = "running"]
  /\ Announce(j, s, "running")
  /\ UNCHANGED <<runtime, subs, channel, wire, page, missed, overruled>>

Miss(s, streams) == [p \in Pages |-> IF page[p].stream \in streams THEN missed[p] \cup {s} ELSE missed[p]]

\* To the channels that are left; thereafter the judge goes on, or is done.
Sending(j, to) ==
  IF to # {} THEN [judging[j] EXCEPT !.at = "send", !.to = to]
  ELSE IF judging[j].tells = "running" THEN [judging[j] EXCEPT !.at = "judge", !.to = {}] ELSE Done

\* The status is set in Redis, which may fail unseen, and the channels are copied
\* under the lock. Between the two the row says what Redis says, or is overruled.
publishSubmitRuntimeEvent(j) ==
  /\ judging[j].at = "tell"
  /\ \/ runtime' = [runtime EXCEPT ![judging[j].of] = judging[j].tells]
     \/ UNCHANGED runtime
  /\ judging' = [judging EXCEPT ![j] = Sending(j, subs)]
  /\ missed' = IF judging[j].tells \in Finals THEN Miss(judging[j].of, (0..MaxStreams) \ subs) ELSE missed
  /\ UNCHANGED <<row, subs, channel, wire, page, overruled>>

\* And after it: to each channel in turn, unless its buffer is full.
SendTo(j, c) ==
  /\ c \in judging[j].to /\ ~channel[c].closed
  /\ judging' = [judging EXCEPT ![j] = Sending(j, @.to \ {c})]
  /\ IF Len(channel[c].buffer) < Capacity
     THEN /\ channel' = [channel EXCEPT ![c].buffer =
               Append(@, [submission |-> judging[j].of, status |-> judging[j].tells])]
          /\ UNCHANGED missed
     ELSE /\ missed' = IF judging[j].tells \in Finals THEN Miss(judging[j].of, {c}) ELSE missed
          /\ UNCHANGED channel
  /\ UNCHANGED <<row, runtime, subs, wire, page, overruled>>

\* The verdict is written if the row is still running, and told whether it is or not.
Finish(j, v) ==
  LET s == judging[j].of IN
  /\ judging[j].at = "judge"
  /\ row' = IF row[s] = "running" THEN [row EXCEPT ![s] = v] ELSE row
  /\ Announce(j, s, v)
  /\ UNCHANGED <<runtime, subs, channel, wire, page, missed, overruled>>

\* Slip: the verdict is told although it was not written.
FailTold(j) ==
  /\ judging[j].at = "judge"
  /\ \E v \in Finals : Announce(j, judging[j].of, v)
  /\ UNCHANGED <<row, runtime, subs, channel, wire, page, missed, overruled>>

\* The submission cannot be read, or the verdict not be written: nothing is told.
Fail(j) ==
  /\ judging[j].at \in {"tell", "judge"} /\ judging[j].tells = "running"
  /\ judging' = [judging EXCEPT ![j] = Done]
  /\ UNCHANGED <<row, runtime, subs, channel, wire, page, missed, overruled>>

\* Ten minutes after a claim, whether its judge is still at it or not.
requeueStuckSubmits(s) ==
  /\ row[s] = "running"
  /\ row' = [row EXCEPT ![s] = "pending"]
  /\ Take(s)
  /\ UNCHANGED <<runtime, judging, subs, channel, wire, page, missed>>

\* After the last attempt, or a dead letter; without the submission, which is read
\* again, nobody is told.
MarkSubmitSystemError(j, s) ==
  /\ judging[j] = Call /\ row[s] \in {"pending", "running"}
  /\ row' = [row EXCEPT ![s] = "system error"]
  /\ Take(s)
  /\ \/ Announce(j, s, "system error") /\ UNCHANGED missed
     \/ judging' = [judging EXCEPT ![j] = Done] /\ missed' = Miss(s, 0..MaxStreams)
  /\ UNCHANGED <<runtime, subs, channel, wire, page>>

\* A send to a closed channel: the process ends, and with it every judge and stream.
Panic(j) ==
  /\ \E c \in judging[j].to : channel[c].closed
  /\ judging' = [k \in Judges |-> IF judging[k] = Call THEN Call ELSE Done]
  /\ subs' = {} /\ channel' = [c \in DOMAIN channel |-> Closed]
  /\ wire' = [p \in Pages |-> <<>>]
  /\ page' = [p \in Pages |-> [page[p] EXCEPT !.stream = 0, !.auto = @ \/ page[p].stream # 0]]
  /\ missed' = [p \in Pages |-> missed[p] \cup {s \in Submissions : row[s] \in Finals}]
  /\ UNCHANGED <<row, runtime, overruled>>

----------------------------------------------------------------------------
\* The stream of a page, which is opened when its user is known.
Subscribe(p) ==
  /\ page[p].me = "asked" /\ page[p].stream = 0 /\ Len(channel) < MaxStreams
  /\ channel' = Append(channel, [buffer |-> <<>>, closed |-> FALSE])
  /\ subs' = subs \cup {Len(channel')}
  /\ page' = [page EXCEPT ![p].stream = Len(channel')]
  /\ wire' = [wire EXCEPT ![p] = <<Opened>>]
  /\ UNCHANGED <<row, runtime, judging, missed, overruled>>

Forward(p) ==
  LET c == page[p].stream IN
  /\ c # 0 /\ ~channel[c].closed /\ channel[c].buffer # <<>> /\ Len(wire[p]) < MaxWire
  /\ wire' = [wire EXCEPT ![p] = Append(@, Head(channel[c].buffer))]
  /\ channel' = [channel EXCEPT ![c].buffer = Tail(@)]
  /\ UNCHANGED <<row, runtime, judging, subs, page, missed, overruled>>

IsVerdict(e, s) == e.submission = s /\ e.status \in Finals

\* A verdict that a judge is about to tell, or that the stream has for the page.
Announced(s) ==
  \E j \in Judges : judging[j].at = "tell" /\ judging[j].of = s /\ judging[j].tells \in Finals

Undelivered(p) ==
  {s \in Submissions :
     \/ \E e \in Range(wire[p]) \cup Range(channel[page[p].stream].buffer) : IsVerdict(e, s)
     \/ \E j \in Judges :
          /\ judging[j].at = "send" /\ judging[j].of = s /\ judging[j].tells \in Finals
          /\ page[p].stream \in judging[j].to}

ToCome(p, s) == Announced(s) \/ (page[p].stream # 0 /\ s \in Undelivered(p))

\* The connection breaks: what is on the wire is lost, the page polls until its
\* next stream is open.
Break(p) ==
  /\ page[p].stream # 0
  /\ wire' = [wire EXCEPT ![p] = <<>>]
  /\ page' = [page EXCEPT ![p].stream = 0, ![p].auto = TRUE]
  /\ missed' = [missed EXCEPT ![p] = @ \cup Undelivered(p)]
  /\ UNCHANGED <<row, runtime, judging, subs, channel, overruled>>

\* Slip: the channel is closed and stays in submitSubs.
CloseOnly(c) ==
  /\ c \in subs /\ \A p \in Pages : page[p].stream # c
  /\ ~channel[c].closed /\ channel' = [channel EXCEPT ![c].closed = TRUE]
  /\ UNCHANGED <<row, runtime, judging, subs, wire, page, missed, overruled>>

\* The handler hears of it.
Unsubscribe(c) ==
  /\ c \in subs /\ \A p \in Pages : page[p].stream # c
  /\ subs' = subs \ {c}
  /\ channel' = [channel EXCEPT ![c] = Closed]
  /\ UNCHANGED <<row, runtime, judging, wire, page, missed, overruled>>

----------------------------------------------------------------------------
\* The page.
Submit(p, s) ==
  /\ row[s] = "none" /\ page[p].load = "no"
  /\ row' = [row EXCEPT ![s] = "pending"]
  /\ page' = [page EXCEPT ![p].load = "asked", ![p].submitted = TRUE]
  /\ UNCHANGED <<runtime, judging, subs, channel, wire, missed, overruled>>

Poll(p) ==
  /\ page[p].auto /\ page[p].load = "no"
  /\ page' = [page EXCEPT ![p].load = "asked"]
  /\ UNCHANGED <<row, runtime, judging, subs, channel, wire, missed, overruled>>

\* What is not final is what Redis says, if it says anything.
Listed(s) == {row[s]} \cup IF row[s] \in {"pending", "running"} THEN {runtime[s]} \ {"none"} ELSE {}

QuestionSubmitList(p) ==
  /\ page[p].load = "asked"
  /\ \E list \in List :
       /\ \A s \in Submissions : list[s] \in Listed(s)
       /\ page' = [page EXCEPT ![p].load = "answered", ![p].list = list]
  /\ UNCHANGED <<row, runtime, judging, subs, channel, wire, missed, overruled>>

\* A query fails, or a row's judgeInfo is no JSON and nothing can be answered. The
\* page shows what it showed; of its first list depends that it knows its user.
ListLost(p) ==
  /\ page[p].load = "asked"
  /\ page' = [page EXCEPT ![p].load = "no", ![p].submitted = FALSE,
                          ![p].me = IF @ = "unasked" THEN "unknown" ELSE @]
  /\ missed' = [missed EXCEPT ![p] = @ \cup {s \in Submissions :
       row[s] \in Finals /\ page[p].shown[s] \notin Finals /\ ~ToCome(p, s)}]
  /\ UNCHANGED <<row, runtime, judging, subs, channel, wire, overruled>>

Overtaken(p) == {s \in Submissions : page[p].shown[s] \in Finals /\ page[p].list[s] \notin Finals}

\* The list replaces what is shown, newer or not, and decides whether to poll; the
\* submit button polls in any case. After the first one the user is asked for.
Loaded(p) ==
  /\ page[p].load = "answered"
  /\ page' = [page EXCEPT
       ![p].load = "no", ![p].shown = page[p].list, ![p].list = Nothing, ![p].submitted = FALSE,
       ![p].me = IF @ = "unasked" THEN "asked" ELSE @,
       ![p].auto = page[p].submitted \/ \E s \in Submissions : page[p].list[s] \in {"pending", "running"}]
  /\ missed' = [missed EXCEPT ![p] = @ \cup Overtaken(p)]
  /\ UNCHANGED <<row, runtime, judging, subs, channel, wire, overruled>>

\* Slip: an event for a submission that is not in the list is dropped.
ReceiveKnown(p) ==
  /\ wire[p] # <<>>
  /\ wire' = [wire EXCEPT ![p] = Tail(@)]
  /\ LET e == Head(wire[p]) IN
     page' = IF e # Opened /\ page[p].shown[e.submission] # "none"
             THEN [page EXCEPT ![p].auto = FALSE, ![p].shown[e.submission] = e.status]
             ELSE [page EXCEPT ![p].auto = FALSE]
  /\ UNCHANGED <<row, runtime, judging, subs, channel, missed, overruled>>

\* Another judge's progress, told after a verdict.
Undone(p, e) ==
  {s \in overruled : e = [submission |-> s, status |-> "running"] /\ page[p].shown[s] \in Finals}

\* An event ends the polling; one for a submission that is not in the list asks
\* for the list (two requests at once are one here).
Receive(p) ==
  /\ wire[p] # <<>>
  /\ wire' = [wire EXCEPT ![p] = Tail(@)]
  /\ LET e == Head(wire[p]) IN
     /\ page' = IF e = Opened THEN [page EXCEPT ![p].auto = FALSE]
                ELSE IF page[p].shown[e.submission] # "none"
                THEN [page EXCEPT ![p].auto = FALSE, ![p].shown[e.submission] = e.status]
                ELSE [page EXCEPT ![p].auto = FALSE, ![p].load = "asked", ![p].list = Nothing]
     /\ missed' = [missed EXCEPT ![p] = @ \cup Undone(p, e)]
  /\ UNCHANGED <<row, runtime, judging, subs, channel, overruled>>

----------------------------------------------------------------------------
Tell(j)   == publishSubmitRuntimeEvent(j) \/ Panic(j) \/ \E c \in Streams : SendTo(j, c)
Reader(p) == QuestionSubmitList(p) \/ Loaded(p) \/ Poll(p)
Stream(p) == Forward(p) \/ Receive(p)

Next ==
  \/ \E j \in Judges :
       \/ Tell(j) \/ Fail(j) \/ \E v \in Finals : Finish(j, v)
       \/ \E s \in Submissions : Claim(j, s) \/ MarkSubmitSystemError(j, s)
  \/ \E s \in Submissions : requeueStuckSubmits(s) \/ \E p \in Pages : Submit(p, s)
  \/ \E p \in Pages : Subscribe(p) \/ Break(p) \/ Forward(p) \/ Receive(p) \/ Reader(p) \/ ListLost(p)
  \/ \E c \in Streams : Unsubscribe(c)

Spec == Init /\ [][Next]_vars

\* Judges that tell, handlers and pages go on.
FairSpec ==
  /\ Spec
  /\ \A j \in Judges : WF_vars(Tell(j))
  /\ \A p \in Pages : WF_vars(Reader(p)) /\ WF_vars(Forward(p)) /\ WF_vars(Receive(p))

----------------------------------------------------------------------------
\* A verdict that a page shows is the one the row has, though events and lists overtake
\* each other and writes fail, unless the row was taken from a judge: what such a
\* judge tells is not in the row.
VerdictIsCommitted ==
  \A p \in Pages, s \in Submissions \ overruled :
    page[p].shown[s] \in Finals => row[s] = page[p].shown[s]

\* And no verdict gets lost between the two: unless it was missed, a page that does
\* not show a verdict has one before it, at a judge, in its channel or on its wire,
\* or a list that has one.
VerdictOnItsWay ==
  \A p \in Pages, s \in Submissions :
    row[s] \in Finals /\ s \notin missed[p] =>
      \/ page[p].shown[s] \in Finals
      \/ ToCome(p, s)
      \/ page[p].load = "asked"
      \/ page[p].load = "answered" /\ page[p].list[s] \in Finals

\* A verdict reaches every page, by its event or by the list, unless it was missed:
\* the page had no stream, its buffer was full, the stream broke, the list could not
\* be had, nobody was told, or a list or a progress that was older was put over it.
VerdictReachesPage ==
  \A p \in Pages, s \in Submissions : row[s] \in Finals ~> page[p].shown[s] \in Finals \/ s \in missed[p]
=============================================================================
