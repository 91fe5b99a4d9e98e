# KKG: models, checks and proofs

KKG is a blog and an online judge in one Go process (`kkg-backend`), with a
sandbox service that runs submitted programs (`kkg-sandbox`), a Next.js client
(`apps/web`), and MySQL, Redis, RabbitMQ, Elasticsearch and MinIO behind them.
This directory holds TLA+ modules of the parts whose correctness depends on
what runs at the same time, on what fails and in which order, the TLC
configurations that check them on small instances, and proofs for every
instance.

Paths below are relative to `kkg-backend/internal/` unless they begin with a
`kkg-` or `apps/` directory.

## Inventory

| Part | State it keeps | Operations | What is hard about it |
|---|---|---|---|
| Judge pipeline: `oj/handler/judge_service.go`, `handlers.go`, `router/oj_queue.go` | rows of `question_submit` (status), `question.acceptedNum`, the status copy in Redis | `judgeAsync` (claim, execute, finish), `requeueStuckSubmits` every 30 s, `MarkSubmitSystemError` for dead letters | a consumer goroutine, goroutines of their own and the ticker act on one row; each statement can fail, the process can die after each |
| Judge queue: `oj/infra/mq/rabbitmq.go` | three durable queues, an unacknowledged delivery, a channel of confirms | `Publish`, `Consume`, `retryOrDeadLetter` | at-least-once delivery, confirms that come late or belong to an earlier message, no reconnection |
| Submission intake: `oj/handler/question_submit_handler.go`, `submitAgentCodeAndJudge` | rows, `question.submitNum` | `QuestionSubmitDo` | check, insert and count in separate statements |
| First accepted ranking: `oj/handler/question_rank_handler.go` | two Redis sorted sets | `recordFirstAccepted24h`, `applyExpiredFirstACEvents` | the expiry loop is run by every caller, over the others |
| Sessions: `session/manager.go`, `service/auth_service.go`, `handler/auth_handler.go` | token pairs in Redis, cookies in the browser | login, refresh, logout | a browser refreshes once for each call that got 401; commands fail one at a time |
| Agent solutions: `oj/handler/agent_handler.go` | `agent_solution_task`, posts, bindings | `runAgentSolutionTask`, the internal requests of `handler/internal_handler.go` | a long task without recovery, judged beside the queue, that gives up waiting for a blog that goes on |
| Posts: `service/post_*.go`, `repository/post_*.go` | `posts`, `post_versions`, the Elasticsearch index, Redis caches | draft, copy, save, publish, unpublish, delete, meta data | transactions that read a row and save all of it; index and caches written after the commit |
| Engagement: `service/post_engagement_service.go`, `comment_service.go`, `notification_service.go`, `tweet_service.go` | join tables, counts in Redis, the index of tweets | toggles, `Create`, `MarkRead` | read, write, then delete a cache a reader may be filling; an index written inside a transaction |
| Solution bindings: `oj/handler/question_solution_handler.go` | `question_solution_post` | bind, unbind | no unique key; look, then write |
| Users: `service/user_admin_service.go`, `oj/service/user_shared_service.go` | `users`, the judge's `user`, `user_identity_map` | profile, password, role, status; each half creates the other's account | whole-row saves; roles copied both ways; accounts matched by name, or by a mail address that is one |
| Submission events: `subscribeSubmitEvents` and its neighbours | channels per user | subscribe, publish, unsubscribe | sends to a channel another goroutine closes; a full buffer drops |
| Sandbox: `kkg-sandbox/main.go`, `oj/integration/judge/sandbox.go` | none between requests, but containers that may outlive theirs | `executeCode`, `Judge` | three ways to run, with different limits, checks and deadlines; faults told by words in a message |
| Web client: `apps/web` | cookies, the list a question's page shows | pages, `lib/api.ts` | calls in parallel; events and lists that overtake each other |

How they interact: the intake inserts a row and publishes its id; the consumer
(or a goroutine when publishing fails) claims the row, calls the sandbox over
HTTP, writes the verdict and, for the first accepted submission of an author on
a question, gives the author a point in the ranking; the status goes to Redis
and to subscribers. The agent's task inserts submissions and judges them in its
own goroutine. A session's user is looked up or created in the judge's user
table. Posts are written to MySQL first and to the index afterwards.

What makes each part correct:

* pipeline: a verdict is never changed; the counter of accepted submissions is
  exact; one submission is the first accepted; one judge at a time; every
  submission is judged in the end; what Redis announces is true;
* intake: the rate limit holds; every row is counted;
* ranking: nobody has more points than accepted problems of the last day;
* sessions: a token pair is whole or gone; a login has one pair; a browser is
  not signed out by its own refreshes; what has ended stays ended;
* posts: a published post shows its published version; a version is left; the
  versions agree on title, summary and tags; a search finds a post while it is
  published, under its title;
* engagement: caches agree with the rows; a reply is notified once; a tweet that
  is kept is found;
* agent: a task ends; an article comes from accepted code; the agent has one
  account;
* bindings: an article is listed once and removed by who may;
* users: a call changes what it was asked to; roles come from super
  administrators; a user of both halves is one account;
* sandbox: a verdict is what the program deserves, and there always is one;
* events: a page shows no verdict but the row's, unless the row was taken from its
  judge, and every page shows it in the end, or missed it for a reason that can be
  named; until then the verdict is never lost on its way.

## Modules

| Module | What it is |
|---|---|
| `SubmitLifecycle` | abstract: a submission's row and the counter of its question, six atomic steps |
| `JudgePipeline` | the pipeline, every statement, command and publish a step |
| `JudgeQueue` | the channel to RabbitMQ that publishes, confirmations and deliveries share |
| `FirstACRank` | the ranking, command by command |
| `SessionManager` | login, refresh, logout against Redis and a browser's cookies |
| `SubmitIntake` | rate limit, insert, count |
| `SubmitEvents` | from the judge's events to the list on a page |
| `TaskLifecycle` | abstract: a task of the agent, its accepted code, its article |
| `AgentTask` | the task's goroutine, the blog that serves it, others that judge its rows |
| `SolutionBinding` | bind and unbind |
| `Publication` | abstract: a post as author and readers know it, each change made at once |
| `PostVersions` | a post and its versions, one transaction per operation |
| `PostSearch` | `PostVersions` (extended) with the index of posts |
| `PostEngagement` | marks, comments, notifications and the two caches |
| `TweetIndex` | tweets and their index |
| `UserRows` | one person's row of `users` and of the judge's `user` |
| `IdentityMap` | which account of the judge a user is served as |
| `Sandbox` | a program judged in a container, directly, or by the judge itself |
| `MC*` | instances for TLC |
| `SubmitLifecycle_proofs` | proofs about the life cycle and the agent's tasks (of `MCSubmitLifecycle`, which has both) |
| `JudgePipeline_proofs` | about the pipeline and the channel to RabbitMQ (of `MCJudgedInTheEnd`) |
| `FirstACRank_proofs`, `SessionManager_proofs`, `SubmitIntake_proofs` | about the modules of these names |
| `Blog_proofs` | about posts, their index, tweets, bindings and engagement (of `MCBlog`) |
| `Accounts_proofs` | about people's rows and the identity map (of `MCAccounts`) |
| `Answers_proofs` | about the sandbox and the submission events (of `MCAnswers`) |

An operator whose comment begins with "Slip:" is a plausible mistake in the
definition that follows it; nothing in the specifications uses it. Replacing the
definition by its slip breaks the property named beside it in `PROJECT.json`.

Where a component promises several things of its state, they are conjuncts of
one invariant, each named and commented in its module: `LifecycleInv`,
`TaskSafety`, `PipelineInv`, `PostWhole`, `SearchRight`, `RolesInPlace`,
`OneUser`, `VerdictIsEarned`, `VerdictIsOnItsWay`, `QueueInStep`,
`SessionsWhole`. The runs of several components check their type invariants
together, as `TypesOK`.

### JudgePipeline and SubmitLifecycle

`status`, `acceptedNum`, `deleted` and `lock` are MySQL (the last one is the
lock of `SELECT ... FOR UPDATE`); `runtime` and `recorded` are Redis; `main`,
`retry` and `dlq` the queues, with the number of copies of each message; `pc`,
`verdict` and `first` the local state of each goroutine in `judgeAsync`: the
consumer's, and one per submission for `go h.judgeAsync` and the agent's call;
`delivery` the consumer's unacknowledged message; `ticker` and `batch` the
requeue. One action is one statement: `Claim` the conditional UPDATE,
`LoadSubmit`, `LoadQuestion`, `Execute`, `FinishJudgeSubmit`, the transaction of
an accepted verdict as `LockQuestion`, `CountAccepted`, `CommitAccepted` and
`Rollback`, then `RecordFirstAccepted` and `PublishVerdict`; `Return` is an error
that `judgeAsync` hands to its caller. The consumer's loop is `Deliver`, `Ack`,
`RetryOrDeadLetter`, `MarkSubmitSystemError`, `AnnounceSystemError`; the ticker's
is `ScanPending`, `Republish`, `ResetRunning`.

A publish has an outcome with two halves, what the broker did and what the
caller was told: the confirm may be late (queued, reported as failed) or belong
to an earlier message (lost, reported as confirmed). Failing statements, late
and lost publishes, crashes, a lost connection, an execution of more than ten
minutes and a deleted question each use a unit of `MaxTrouble`. The row is reset
after ten minutes whether its judge is dead (free of charge) or slow.

`SubmitLifecycle` has neither queues nor goroutines: `Create`, `Claim`,
`Requeue`, `Finish`, `Accept` and `GiveUp` act on the row and the counter at
once. `Promise!Spec` in `JudgePipeline` is that specification with the same
names; the transaction of `finishAcceptedJudgeSubmit` maps to a stutter until
its commit, which is `Accept`.

### JudgeQueue

Where those outcomes come from. `Publish` sends a message under `q.mu` and the
call then takes whatever confirmation comes next (`TakeConfirm`), or stops
waiting (`GiveUp`); nothing compares the confirmation with the message.
`behind` counts the calls that took none. `inbound` is what the broker sent, in
order; `Read` is the client library, which passes a delivery on and puts a
confirmation into `q.confirms` when its one place is free. `Ack` and `Nack` end
a delivery, after the consumer has published the message again (`forward`) if
it could not judge it. The consumer's publishes and everybody else's are one
sequence. The broker and the library (`Handle`, `Confirm`, `Read`) are
external: what is assumed of them is that confirmations come in the order of
messages and that the library waits for room in a channel it was given.

### FirstACRank

`rank` and `live`/`due` are the two sorted sets; each caller (a judge with its
event, or a request for the ranking) is at a place in
`applyExpiredFirstACEvents`, with the part of its batch it has not dealt with.
`Decrement` and `Remove` are the ZINCRBY and the ZREM, which the code does not
group; `Record` is a MULTI. Errors the code ignores may happen to either. The
property that holds whatever overlaps is the bound in one direction: events
taken back twice cost points, and nothing ever adds one. Exactness holds as long
as no two loops overlap and nothing fails.

### SessionManager

`access` and `refresh` are the keys in Redis by token pair, `jar` a browser's
cookies. A request carries the cookies of the moment it was sent, and its answer
replaces or clears them when it arrives. `ReadKey`, `DeletePair`, `SetAccess`,
`SetRefresh`, `UndoAccess` and `CheckUser` are the commands of `Manager.Refresh`,
`IssuePair` and `AuthService.Refresh`; a command that reports an error may have
been carried out. `root` follows each pair to the login it descends from. The
judge's own login and logout (`oj/handler/auth_cookies.go`) take the same steps,
the login after a check of its own on the account.
Randomness is modelled as tokens that are never used twice.

### SubmitIntake

`now` is the clock of the process; a row has the stamp the process gave it
before the INSERT. A read that fails is taken for an author without rows, as in
the code. The agent's submissions skip the check.

### SubmitEvents

`subs` and `channel` are `submitSubs` and the channels ever made; `judging` is
the local state of each judge (a goroutine in `judgeAsync`, or the dead letter
handler): what it is about to tell of a submission, and the channels
`publishSubmitEvent` copied under the lock and has not sent to yet. A row may
be taken from a judge, by the requeue after ten minutes (`requeueStuckSubmits`,
and another judge claims it) or by a dead letter (`MarkSubmitSystemError`); the
judge it was taken from finds its UPDATE hit no row and tells its verdict all
the same (`Finish`). `overruled` records the submissions this happened to. The
SETEX of the status and the copy of the channels are one step
(`publishSubmitRuntimeEvent`): what a list reads between them is what it reads
before or after.

`wire` is what the handler of a stream has written; `page` is the state of the
React component: its stream, the list it shows, whether its ten second timer
runs, the list on its way, and whether its user is known, without which it
opens no stream. `QuestionSubmitList` is the answer to a list request;
`ListLost` is one that fails, because a query does
(`question_submit_handler.go:107`) or because one row's `judgeInfo` is no JSON
and the response cannot be encoded (line 123). `Panic` is the send on a channel
that was closed after the copy: nothing recovers it in the judge's goroutine,
so the process ends. The timer stops when a stream opens or an event arrives,
and a list replaces what events have set; `missed` records for which pages that
went wrong.

### AgentTask and TaskLifecycle

`at` is the place of the task's goroutine in `runAgentSolutionTask`, `round` its
loop counter, `submits` the rows it inserts, `server` what the blog is doing for
its request, `posts` the article of each task. The blog is the same process but
is reached over HTTP: `GiveUp` ends the client's wait and not the work. With a
token one internal request finds or makes the author, drafts and publishes
(`FindAuthor`, `CreateAuthor`, `CreateDraft`, `PublishDraft`); without one the
agent logs in, registers, logs in again, drafts and publishes by requests of
their own. `JudgedElsewhere` stands for the queue's consumer and the ticker,
which act on the same rows. What the language model answers is any outcome: an
error, code that is accepted or not, a title that fits the blog or not.

`TaskLifecycle` has neither rounds nor requests: a task is asked for, runs, has
code accepted, an article drafted, then published, and ends. `ImplementsTask` is
its specification under the mapping of the three variables.

### SolutionBinding

One question's rows. `LookToBind` and `Bind` are the SELECT and the INSERT of
`QuestionSolutionBind`, `LookToUnbind` and `Unbind` the SELECT with its check and
the UPDATE of all rows of the article in `QuestionSolutionUnbind`; `AgentBind` is
the INSERT of the agent's task, which looks for nothing.

### PostVersions and PostSearch

`post` and `versions` are the rows. An operation reads in its first step
(`CreateDraftCopy`, `SaveDraftByVersion`, `DeleteDraft`, `PublishDraft`,
`Unpublish`, `UpdateMeta`, `DeletePost`) and keeps what it will write in
`calls`; `Commit` carries out its statements in their order (`CopyWrites`,
`SaveWrites` and so on, over one operator per function of the repository). That
two steps are enough follows from MySQL's repeatable read: all reads see one
snapshot, and the first write takes the lock of the row that every other writer
needs and keeps it to the end. The older routes choose a version in a read
before the transaction (`PickToSave`, `PickToPublish`).

`Publication` has neither versions nor requests: what readers see (`status`,
`title`, `tags`, `content`), the contents the author has (`drafts`), and one
action per operation, made at once. A transaction over which another has
written since it read is `Clash`, which may do anything and sets `clashed`;
`late` says whether one may come. From the first on, publishing may bring
another title, but while none is late every change is one of the operations
again. `PublishedInOrder` is that `PostVersions` implements it, and that a post
which was not published is published by nothing but publishing or a late save.

`PostSearch` adds what a call does after its commit: it tells Elasticsearch,
which may fail, or carry it out after the three seconds were over (`Land`).
`Restart` is the synchronisation at startup, which puts published posts in and
takes nothing out.

### PostEngagement and TweetIndex

`engagement` and `ranking` are `eng:post:<id>` and `rank:posts:*` in Redis. A
toggle looks for its row, writes (`Flip`: a second insert is refused by the
unique key), then deletes the caches one command at a time; a reader counts
three times and then keeps what it counted. Redis failing, and a process that
dies between the row and the cache, leave an old cache; `stale` records it
until it expires. A comment is three statements, the last of which (the
notification) may fail unnoticed. `TweetIndex` has the transaction of
`TweetService.Create` with the call of Elasticsearch inside it.

### UserRows and IdentityMap

The blog saves the whole row of `users` it has read, the judge updates the
columns that differ from what it read. Roles are copied both ways: at each
request from `users` to the judge (`user_shared_service.go:86`), and at a login
with the judge's own password from the judge to `users` (line 120). The two
need not agree at the start: an account registered with the judge has the
default role whoever has its name in `users`, and an administrator may make one
with any. `intended` is the row had every call changed only what it was asked
to; `granted` the roles that one of the two rows began with or that a super
administrator gave.

`IdentityMap` has the rows of several people: names and mail addresses in
`users` are unique, names in the judge's table are not, and `user_identity_map`
has a unique key on each of its columns (`EnsureIdentityMap` is its INSERT ...
ON DUPLICATE KEY UPDATE). An account is looked for by name; a row of `users` by
the name of an account, trimmed, which may be the row's name or its address
(`Users`, lines 114 and 183). An account is looked for in one step and made in
another. `mixed` says that names have not been plain: a user was renamed, two
accounts had one name, a name had spaces around it, or an account was named
like the address of a user with another name.

### Sandbox

`mode` tells a container, a direct run (`SANDBOX_GO_MODE`) and a judge without
a sandbox apart. A program is what it does when compiled and on each input: it
ends, crashes or does not end, answers rightly or not, is late, writes so much
to its two streams, and has words in what it writes. `buf` is `limitedBuffer`,
byte by byte in arbitrary pieces; `runner` is the container, which goes on
after its client was killed. A message is the set of words in it that the judge
looks for: the parser of the sandbox quotes the source, so what it refuses
(`"no go"`) is told with any words (`executeCode`), and a program's output may
say what it likes. `Blame` is how the judge finds out what went wrong, from the
words; `Judge` and `Share` are the verdict and the score. Without a sandbox
(`sandbox.go:68`) nothing looks at the source, and the deadline kills the `go`
command but not the program it started, which holds the pipe `CombinedOutput`
reads: a program without an end gets no verdict there.

## What is checked

| Run | Instance | Shows |
|---|---|---|
| `same_question` | two submissions of one author on one question, one of them the agent's; one trouble; no retries | the counter is exact, one is first; the inductive invariant, with the row lock and with no submission out of everyone's hands |
| `one_submission_in_trouble` | one submission, one retry, four troubles | one judge at a time; verdicts are final; a verdict in Redis is the row's; refines `SubmitLifecycle` |
| `judged_in_the_end` | one submission, one retry, two troubles; three publishes by the consumer and another; fairness | every submission is judged while the queue and the ticker last; a confirmation is at most as many messages old as calls gave up; a queued message is delivered until two did, and until then somebody can always go on |
| `lifecycle` | four submissions, two authors, two questions; two tasks of the agent of two rounds, one trouble | what the abstract life cycle promises; what an article and a task's status say; refines `TaskLifecycle` |
| `ranking` | up to two events at a time, two troubles | the bound, and exactness without overlap |
| `sessions` | one browser, two requests in flight, four token pairs, one trouble | pairs are whole, one pair per login, no sign-out by refresh, no revival |
| `submit_intake` | three requests of one person, one of the agent's, two questions, a window of two ticks in five | the limit for sequential requests; counts |
| `blog` | two requests: on a post of up to three versions, three operations, one trouble; on its marks and two comments by two people; on three tweets; on three rows of two bound articles | rows written by several statements stay whole; index, caches and lists follow them; posts refine `Publication` |
| `accounts` | two requests: three calls on one person's rows, whose roles differ at the start or not; two users with two accounts, with names that are addresses or have spaces | no change is undone, roles are granted, a user is one account while names are plain |
| `answers` | one task of two rounds, one trouble; programs of up to two cases and eight behaviours, all three modes; one submission, two judges, one page, one stream; fairness | a task ends, a verdict is deserved and always given, it reaches the page and is never lost on its way |
| `logout_meets_refresh` | as `sessions`, without trouble | a violation, below |
| `submit_twice_at_once` | as `submit_intake`, without trouble | a violation, below |

`judged_in_the_end`, `lifecycle`, `blog`, `accounts` and `answers` each check
several components that share no state. Their MC module has a variable `part`,
chosen in the first state: the component it names runs by its own specification
and the others stand at their start, so each is explored completely and the
number of states is the sum, not the product. Fairness is that of the component
whose part it is.

Bounds. Two submissions are enough for everything the pipeline couples: claims
concern one row, the lock and the counter two rows of one question, and the
proofs cover the rest. Four troubles on one submission let a failed publish, a
failed verdict, a slow judge and a crash happen in one behaviour; beyond that
they repeat. `MaxRetries` is 1 (3 in the code) so that the retry queue and the
dead letters are both reached; `MaxCopies` bounds how many equal messages the
model tells apart, further copies are merged. Four token pairs are a login, two
refreshes and another login. Three requests of one person fill two windows. Two
requests beside each other are all that a read and a later write can be torn
apart by; a third operation is what finds the damage. Three versions let one be
published, one copied and one deleted. Two rounds are a rejection and another
try. Two cases are the fewest of which some pass and some do not, and of which
one that is endless or late has another before or behind it; shares that are no
whole percents are left to the proof. The limit on output is three bytes, with
programs at it, one over it, and over it only in sum. Two judges are one a
submission was taken from and the one that took it, or a dead letter; a page
gets one stream, before or after any of what they tell, which may break: then
it is a page that only asks for lists. A second stream begins as the first did,
and the proof has any number. With a channel that holds one event the buffer is
full when the second comes (16 in the code); a wire that holds one has whatever
follows wait in it. Three publishes are two that gave up and the one that finds
what they left.

Deadlock is not checked for the pipeline, where all submissions may be judged
and all clients gone, nor for the intake, where all requests may be done, nor
where the bound on calls ends a part: all calls answered, the task over.

Fairness in `judged_in_the_end`. Goroutines that can take a step take it: the
Go scheduler, and every call they wait for ends. A publish has a limit of five
seconds, a statement or command ends with its connection; the request to the
sandbox has no limit of its own (`http.DefaultClient`,
`oj/integration/judge/sandbox.go:53`) and ends because the sandbox's deadlines
end what it runs, or because the connection does. A judge configured without a
sandbox has no such bound (see `Sandbox`), and these two runs are about one
that has it. Hence weak fairness of `JudgeStep`, `ConsumerStep`,
`PublishSubmit`, `Republish`. The broker delivers a waiting message sooner or
later though others come between (strong fairness of `Deliver`: the queue is
first in, first out, the prefetch is one) and expires retries. The ticker fires
every 30 seconds, and rows grow older between: strong fairness of
`ScanPending(Pending)`, all pending rows at a time, which is true for up to the
hundred rows of `Limit(100)`, and of `ResetRunning`. Nothing is assumed of
clients, crashes or expiries. The conclusion is void once the connection is
lost or the process was started without a queue: the code neither reconnects
nor starts a ticker without one. For `JudgeQueue`, weak fairness of `Going`: a
call ends because its time does, the broker and the library go on, the consumer
ends what it has begun. Nobody has to publish.

Fairness in `answers`. The goroutine of a task and the handler that serves it
go on (weak fairness of `TaskStep` and `ServerStep`: its HTTP clients for the
blog and the language model have timeouts, and its judge is that of the
pipeline, with a sandbox); `TaskEnds` is void after a trouble, since a crash,
or a failed write of the status, leaves a task unfinished for ever. The service
and the container go on (`Service`, `Runner`); the deadline of a run is part of
`Service`, which is why a program without an end gets its verdict, but not from
a judge without a sandbox: there `Timeout` has no step for it and
`EveryRequestJudged` does not ask for one (`Hangs`). A judge that has something
to tell, the handler of a stream, and the page's requests go on (`Tell`,
`Forward`, `Reader`, `Receive`); a request whose list is lost, a claim, a
verdict or a requeue need not happen, and nothing is assumed of `Subscribe`, so
a page may never have a stream again.

## Findings

* `logout_meets_refresh`: `kkg-backend/README.md:61` says logout deletes the
  session at once. A refresh between its DEL and its SET is out of a logout's
  reach: the login goes on with a new pair.
* `submit_twice_at_once`: the comment at `oj/handler/question_submit_handler.go:61`
  says a user may submit once within five seconds. Two requests at once both read
  the latest row before either has inserted its own.

Seen while modelling, each written into the models as an outcome the properties
except by name, without a run of its own:

* Two drafts deleted at once each count two versions (`service/post_draft_service.go:302`,
  a read without a lock) and none is left; "at least one draft must be kept" says
  line 307. `VersionLeft` excepts overlapping calls.
* A copy made beside a save keeps the old title (`post_draft_service.go:121`), although
  the comment at line 191 has all versions share it; line 192 never heals it,
  because the post has the new one. `MetaShared` excepts overlapping calls.
* A save of a published version changes the post's title and tells the index
  nothing (`post_draft_service.go:228`): `SearchShowsPost` excepts it (`retitled`).
* A comment may be inserted (`service/comment_service.go:89`) after the post was
  unpublished, though line 68 refuses "unpublished" posts: status and insert are
  two statements.
* A disabled account comes back: every login with the judge's own password sets
  its status to active (`oj/service/user_shared_service.go:118`), while
  `service/auth_service.go:82` sends its owner to an administrator.
* The judge's role `ban` is overwritten by the role in `users` at the next request
  (`user_shared_service.go:86`) before anything looks at it.
* `docs/architecture.md:53` asks for one user in both halves; an account made before
  a rename, or one of two with the same name, splits a user, and an account named
  like somebody's mail address is matched with that person
  (`user_shared_service.go:114` and 183). `OneToOne` and `MatchesByName` except these
  (`mixed`).
* A login with the judge's own password writes the judge's role over the one in
  `users` (`user_shared_service.go:120`): an administrator of the blog whose name was
  registered with the judge loses the role at that account's first login.
  `RolesWereGranted` counts what either row began with as granted, so it permits this;
  what it refuses is a role that neither row had and nobody gave.
* A judge whose row was taken by a requeue or a dead letter announces its verdict
  although its UPDATE hit no row (`oj/handler/judge_service.go:144`, whose row count
  is not looked at): Redis, and a page, may show a verdict the row does not have.
  `RuntimeVerdictBacked` and `VerdictIsCommitted` except these submissions (`reset`,
  a row marked a system error, `overruled`).
* What the sandbox's parser says quotes the source (`kkg-sandbox/main.go:107`), and
  the judge looks for words in it: a file that begins with `time` is a Time Limit
  Exceeded. `BlameIsRight` is about programs the parser gets through.
* A judge without a sandbox runs what a sandbox refuses, and waits for ever for a
  program without an end (`oj/integration/judge/sandbox.go:96`): `Admitted` and `Hangs`
  say so.
* An article whose binding cannot be inserted is not listed and its task is a
  success (`oj/handler/agent_handler.go:155`); `docs/architecture.md:41` ends the chain
  with the binding. `SuccessIsWhole` asks for it only when nothing failed.
* After two publishes whose confirmation came late, the library holds the second
  one back because `q.confirms` is full (`oj/infra/mq/rabbitmq.go:75`), and everything
  behind it: the consumer gets messages only when somebody publishes.
  `QueuedIsDelivered` excepts it (`behind`).
* A container outlives its request (`kkg-sandbox/main.go:265` kills the docker
  client only), and reports a time of 0 (line 325), so the question's time limit
  means nothing there: `AcceptedIsEarned` asks for it of direct runs only.

## What is proved

Every invariant and every action property that a run checks, and the three
refinements, are theorems: for every value of the constants under the named
assumptions, which say that sets of submissions, events, requests, people or
tasks are finite, that authors and questions are functions of submissions, and
that bounds are naturals. Where several components have one MC module, it
declares the sets its instances take (`Tasks`, `People`, `Articles`, `Names`,
`Modes`, `Runs`, `Submissions`, `Pages`) as constants of its own, so that the
theorems are about any of them and the configuration gives the small ones; no
bound on what is explored (`Max...`) has a value in a proof.

None of the promises but `LifecycleInv` and `PipelineInv` is inductive as it
stands. What is missing is the same each time: a step of the code is right
because of what an earlier step of the same call read or did, and whoever came
in between. Each inductive invariant says what a call knows at each place it
can be at, and which history variable gives it leave not to know it any more.

* `SubmitLifecycle_proofs`. `LifecycleInv` (types, the counter is the cardinality of the
  accepted rows, the awarded rows are accepted and one per author and question) is
  inductive: `LifecycleSafety`. A verdict has no step out of it:
  `LifecycleVerdictFinal`. Of the agent's tasks, `TasksInv`: `Rows`, `Told` and `Article` say
  what a task's submissions, its own row and its post are at each place of its
  goroutine and of the blog that serves it, `Smoothly` what more is true while
  nothing has failed; the blog works only for a task that has won its round, also
  when the task has given up waiting for it. `OneAccount` counts the agent's
  accounts. Every action concerns one task (`Kept`; `Bystander` for the others),
  which gives `TasksAreSafe`, and each is a step of `TaskLifecycle` or a stutter:
  `TasksKeepTheirPromise`. `EndIsTold`, the safety half of `TaskEnds`, is part of the
  first: as long as nothing failed, a goroutine leaves by a return that has written
  its row, because `Smoothly` shuts the others.
* `JudgePipeline_proofs`. `PipelineInv` is inductive. Beyond the properties it has
  what they need: the place of a goroutine determines its verdict
  (`VerdictKnown`), a goroutine in the transaction holds the lock
  (`TransactionLock`), so the count it read is still true when it commits
  (`CountFresh`), a claim not taken back by the requeue keeps its row running, but for
  a dead letter (`ClaimHeld`), and the verdict a judge is about to announce is then the
  row's (`AnnouncedFinal`), which is what makes the one in Redis the row's. `PipelineInvariant` states it, and `PipelineTypeCorrect`,
  `ClaimIsExclusive` and `RuntimeIsBacked` follow.
  `LockHeld` says whose a lock is, whichever way the transaction ended: who waits
  for a question waits for a judge that waits for nothing (`RowLocksAreHeld`).
  `NotLost` is the safety half of `EventuallyJudged`: while nothing goes wrong a
  pending submission is with its handler, in the connected queue or at the
  consumer's claim, and a running one has its judge. It is inductive
  only with `OneGoroutine` (no goroutine is put over the one that judges) and
  `QuestionsThere` (no judge returns for want of its question): `NothingLost`.
  Each action is then shown to be a step of `SubmitLifecycle` or a stutter under
  the invariant (`PipelineImplementsLifecycle`), and the exact counter, the unique
  first submission and the final verdict are carried over through the refinement
  (`PipelineCountsExact`, `PipelineFirstAcceptedUnique`, `PipelineVerdictFinal`) from
  `SubmitLifecycle_proofs`, instantiated without tasks.
  Of the channel, `QueueInv`: the confirmations that were taken (`Taken`) are the
  publishes less those that gave up and the one that waits; the next ones are in
  `confirms` and then in `inbound`, each once and in order (`Counted`). So the
  confirmation a call takes is that of the message `behind` before its own, and a
  call that reports success has one of those in a queue. `InHand` (what the broker
  waits to see acknowledged is in `inbound` or with the consumer) and `HandedOn`
  (the publish the consumer waits for is answered or under way) give
  `DeliveryGoesOn`: until two calls gave up, broker, library and consumer are never
  all waiting for each other. Together `QueueStaysInStep`.
* `FirstACRank_proofs`. `RankInvariant`, the inductive `RankInv`, and its part
  `RankNeverOverstated`. `NeverOverstated` counts, for each
  author, the events in the set that nobody is taking back. A decrement lowers the
  points by one and that count by at most one; `Unrecorded` is needed for
  `Record`: an event is new when it is recorded, so points and count rise
  together. `RankExactInSequence` adds `Alone`: while no two loops overlapped and
  nothing failed, one caller is inside the loop and the rest of its batch is still
  due, so nothing is taken back twice.
* `SessionManager_proofs`. `IInv` says what a cookie may hold (`CookiesHeld`), that a pair
  drawn by a request is its own until handed out (`NewPairs`), what a request found
  and did at each place (`Phases`), and for each login not refreshed by two
  requests at once that one key is left, or one request has deleted it and will set
  the next (`OneKey`); `SignedIn` does the same for the cookie of a browser that sends one
  request at a time. From it `SessionsAreWhole`, `SignedInStay`, and the action
  property `NothingRevived`.
* `SubmitIntake_proofs`. `IntakeInv`: a row exists exactly once its handler has passed the
  INSERT (`Taken`), and the one request of an author who waits for answers has read
  a stamp no row of the author is later than (`InTurn`). From it
  `SequentialAuthorsLimited`, `EveryRowAccounted` and `IntakeTypes`.
* `Blog_proofs`. `PostInv`: a call over which no other has written `Knows` the rows it
  read, and what it carries is itself whole. `SearchInv` adds that the index shows
  the post unless a committed call has yet to tell it (`ShownUnlessTold`). From them
  `PostsAreWhole`, `SearchShowsThePosts` and the action property
  `PublishedOnlyByPublishing`. The transaction of a call that `Knows` the rows is one
  change of `Publication`, that of another a `Clash`, and the first step of a call is a
  stutter or ends what was late: `PostsAreOnePublication`. Posts with their index implement posts without one
  (`SearchedPostsArePosts`). `TweetInv`, `BindingInv` and
  `EngagementInv` say the same of the other parts: what was indexed is found; who
  looked and found no row, or a row it may remove, may rely on it until told that
  the rows changed (`StillUnbound`, `StillAllowed`); a comment has the notification
  it should unless exactly one call is about to send it (`Told`, `OneNotifier`). From
  them `KeptTweetsAreFound`, `ArticlesAreListedOnce`, `RemovedByTheRight`, `CachesFollowRows`,
  `RepliesAreNotified`, and of all together `BlogTypes`.
* `Accounts_proofs`. `RowsInv`: a call carries a role that was granted or that it will
  grant, and, while nobody has written over what it read, a row that differs from
  the present one in what it was asked to change only. From it `CallsDoWhatWasAsked` and
  `RolesStayInPlace`, the second without any exception for overlaps: whatever role a
  login or a request copies was one that the other row had, so it was granted.
  `IdentityInv`: a user and an account that are matched, that were served together, or
  that a request under way will bring together, exist and, while names are plain,
  are equal in name although rows are looked for by address too; then no two accounts
  that live are. From it
  `UsersAreOneAccount`.
* `Answers_proofs`. `SandboxInv`: what the service knows at each place of the runs that
  are over (`RunsDirectly`, `RunsInContainer`), that the buffer of a run tells whether
  the limit was crossed however the output was cut into pieces (`Buffered`), and that
  a reply is of the program (`ReplyIsEarned`) before it is judged. From it
  `VerdictsAreEarned`. `EventInv`: whatever a judge, a channel, a stream or a list
  tells of a verdict is in its row, and stays there, unless the row was taken from a
  judge (`Truthful`, `Honest`, `Knows`); a row is running while a judge works on it, or
  was taken from it (`WorkersHold`), so that two judges never tell two verdicts of one
  submission that was not. `WayInv` is the other direction, that none is lost: unless
  so taken, a submission's verdict is the last event of it wherever one is
  (`EndsWell`), so no progress comes after it on the page; and a stream is one page's
  (`OwnStreams`). Each
  action leaves a verdict where it was or takes it one place further, or enters it in
  `missed`. From both `VerdictsGetThrough`.

The attempt to prove `VerdictIsEarned` for any number of cases found that
"partially correct" may come with a score of 0:
`oj/integration/judge/sandbox.go:175` divides integers, so one case of more
than a hundred is worth nothing. The code promises no more; `ScoreIsShare` asks
for a positive score up to a hundred cases only.

Only model-checked: `EventuallyJudged`, `QueuedIsDelivered`, `TaskEnds`,
`EveryRequestJudged` and `VerdictReachesPage`. They are liveness under
fairness, which is beyond the prover, as is ENABLED. What must be true at every
moment for them to hold is proved of four of them: `NotLost`, `DeliveryGoesOn`,
`EndIsTold` and `VerdictOnItsWay`, in that order of `EventuallyJudged`,
`QueuedIsDelivered`, `TaskEnds` and `VerdictReachesPage`. `EveryRequestJudged`
has no such half worth stating: a run that has not ended may always time out,
so it is fairness alone.

## Not modelled

* What only reads: lists, feeds, paging, scores and order of search results and
  rankings, the questions' texts, `QuestionRun`.
* What only formats or stores: `judgeInfo`, HTTP bindings, uploads and pictures,
  attachments of posts, configuration, migrations, the audit log of administrators.
* What nothing calls: `oj/job/es_sync.go` and `oj/integration/search`, which nobody
  starts, and `oj/handler/post_handler.go`, whose routes are not registered.
* The login by WeChat, which makes an account without a name, and the picture's
  column of the two tables of people.
* The limit of a hundred rows of a requeue.
* Pages of the web client other than a question's.

## Plan

1. `Publication` with what a search finds, implemented by `PostSearch` between its
   overlaps; the refinement follows from `SearchInv`.
2. An abstract specification of a session (a login, its one pair, its end) and of
   the map between the two tables of people, implemented while nothing overlaps.
3. The five liveness properties, by hand from the invariants above and the stated
   fairness: beyond the installed provers.
