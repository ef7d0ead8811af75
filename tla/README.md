# Golang-TG-DBot in TLA+

A verification development for the Telegram bot of this repository: TLA+
modules of its concurrent core, TLC configurations that model-check them on
small instances, and TLAPS proofs for every size: of the safety properties, and of
what progress rests on.

Run everything from this directory:

    tlc -workers 2 -config BroadcastPages.cfg MCBroadcast    # a run: cfg, MC module
    tlapm BroadcastProofs.tla                                # the proofs of a module

`PROJECT.json` lists the runs with their properties, the source lines behind
every definition (`map`), a plausible bug that each property catches
(`mutants`; definitions marked "mutant" in the modules are used for nothing
else), the hazards of the code, the findings and the theorems.

## 1. The system

The bot is one Go process and a PostgreSQL database, with Redis for the rate
limit and the Telegram Bot API at the other end.  A second, short-lived process
makes backups.

| Component | Source | State | Operations |
|---|---|---|---|
| Startup, components, shutdown | `internal/bot/app.go`, `graceful_shutdown.go`, `service_wrapper/wrapper.go`, `logger/telego_slog.go`, `workers/command_consumer.go` | the context, `ShutdownChannel` (1 place), the wait group of components | startup steps and their `Fatal`, `panicListener`, `handlePanic`, `/restart`, signals, `StopWithContext`, `CloseChannels` |
| Rate limit and admission | `middlewares/user_filter_wrapper.go`, `TryMuteSpammer` in `pkg/utils/telego_utils.go` | a counter per user and chat in Redis with a time to live; the restriction of the user at Telegram | GET, SET one higher, deny, mute, poll for room in the reply queue |
| Reply queue | `workers/queue.go` | `SenderChannel` (1000 places), the sender's current message | `EnqueueMessage`, `sendMessage` with 3 attempts, drain |
| Broadcast pipeline | `workers/anouncement_sender.go`, `workers/queue.go`, `handlers/batch_send_command.go`, `db/sql/chats.sql` | `NotifyBroadCasterChannel` (1 place), `BroadcastChannel` (1000), one goroutine per batch with cursor, alive and dead chats, an unbuffered feedback channel per batch, the `chats` table | `AddBatchTask`, `listen`, `sendNewBatch`, `EnqueueBroadcast`, send, feedback, stamp, deactivate, drain |
| Actions, games, texts, registration | `handlers/f_action_command.go` and siblings, `play_command.go`, `action_command.go`, `random_action_command.go`, `preprocess_user.go`, `db/sql/*.sql`, the migrations | `users`, `chats`, `chat_users`, `actions` | registration, pair and solo actions, the game, texts of users, their transactions |
| Backup job | `db/dump_job.go`, `cmd/pg_dump_worker` | the remote directory, the dump in /tmp | dump, upload, remove all but the newest five |
| Roles | `check_role_access.go`, promote, demote | `users.user_role` | check, promote, demote |
| Command texts | `configs/config_cache.go` | a snapshot in an atomic value | load, replace on change, read |
| Statistics, leaderboards, help | the remaining handlers | none of their own | one query and a reply |
| Escaping | `pkg/utils/telego_utils.go` | none but the text and its placeholders | `EscapeMarkdownV2Smart` |

How they interact.  telego starts a goroutine per update.  The goroutine goes
through the rate limit, waits for room in the reply queue, registers its user,
runs the command's transaction and enqueues replies.  One sender goroutine
serves the reply queue and another the broadcast queue, each with a limiter.  `/broadcast`
hands a text to the batch worker, which starts a goroutine per batch; that
goroutine pages through the chats, enqueues a task for each chat of a page and
waits for one feedback per task.  A signal, a panic in a handler and `/restart`
all end in a cancelled context; every component then stops in its own way and
the wait group holds the end of the process until all have.

What is hard here:

* concurrency: handlers, batches and the two senders meet in bounded channels,
  in Redis and in the rows of one chat;
* ordering: a page's feedbacks are counted, not named; the drain, the
  handlers that still enqueue and the sender that still sends all run at once;
* failure: every call to Telegram, Redis or PostgreSQL can fail, hang, or
  succeed and be reported as failed, and many errors are only logged;
* shutdown: who waits for whom, who has stopped reading a channel others send on,
  who closes a channel others still use;
* timeouts: 30 s for admission, 60 s for an enqueue, 10 s for handlers at the end;
* what was read before and acted on later: the role of an author, the count in
  Redis, the age of the message a mute is reckoned from, a list of backups;
* text: every reply is rewritten by stages that must not undo each other, and
  Telegram refuses a text with one wrong byte.

What makes each component correct is stated with it in section 3.

## 2. Plan

Done, in this order, each module with its instance and, except where noted,
its proofs:

1. `Broadcast`, the longest chain of goroutines, with its abstract
   specification `BroadcastPromise` and `BroadcastProofs`, which proves the
   refinement that TLC checks.
2. `Replies` with `RepliesProofs`: the same queue code as seen by a handler.
3. `Lifecycle` with `LifecycleProofs`: startup, components, shutdown.
4. `UserFilter` with `UserFilterProofs`: the counter in Redis.
5. `Actions` with `ActionsProofs`: transactions and row locks.
6. `DumpJob` with `DumpJobProofs`: the backup job.
7. `Roles` with `RolesProofs`: a check of the caller's role that is stale by
   the time the role of another is set.
8. `Muting`, proved in `UserFilterProofs` too: `TryMuteSpammer` as goroutines of
   its own on top of `UserFilter`, which it refines.
9. `Markdown` with `MarkdownProofs`: the rewriting of texts against a model of
   their reader, for texts of any length.

Left:

* A composition of `Lifecycle` with the queues of `Broadcast` and `Replies`:
  the plain components of `Lifecycle` refined by the real ones, so that the
  way a stuck sender holds the whole process is visible in one model.

The runs are kept to one per question, a dozen in all; where two runs of a
component can be one they are merged.

Abstract specifications: `BroadcastPromise` says what a broadcast promises, and
`UserFilter` what `Muting` leaves of the rate limit.  A serial specification of
the counters (each committed command applied at once) would add little to
`CountersAddUp` and `CooldownKept`, which say the same of the committed rows
directly.

## 3. Modules

A module named MC... instantiates the one it extends and defines nothing but
sets for its constants and symmetry.

### Broadcast, BroadcastPromise

`pc[b]` is the place of batch b: in the handler (`AddBatchTask`, `NotifySend`), in
the notify channel, then in the loop of `sendNewBatch`: `QueryEmpty`,
`QueryFails`, `FetchPage` (the query and the new cursor), per chat `NextChat`,
`LimiterGrants` or `LimiterInterrupted`, `EnqueueBroadcast` or
`EnqueueDropped`, then `PageOffered`, `Feedback` per answer, `PageCollected`,
`StampAlive`/`StampFails`, `FlushDead`/`FinalFlush`/`FlushFails`.  The sender
goroutine is `TakeTask`, `SenderLimiterGrants`, `SendSettles`, `SendFails`,
`SenderExit`; the drain is `DrainOne`, `DrainDone`.  The feedback channel has no
buffer, so `Feedback` is one step of sender and batch.  `UpdateChatStatusToDead`
is `MarkDead`; a user who writes in a dead chat is `Revive`.  Telegram's answer
is a choice between the four results of `FeedbackResult` as the code tells them
apart: accepted, dead after all attempts, not enough rights, and attempts cut short
by the cancelled context, which the code reports like the dead.  The
variables `fate`, `retired`, `throughout` and `gaveUp` are history and guard nothing.

Correct means: the page loop waits for what it is owed (`PageAccounting`);
tasks are neither lost nor doubled (`OneTaskEach`); the sender never blocks on
a batch that is gone before a shutdown (`FeedbackIsAwaited`); success means
every chat tried was answered, stamped or deactivated as it answered
(`SuccessIsComplete`); paging by cursor skips nobody although chats die and
revive between pages (`Coverage`); nothing is lost while the queue has room
(`LostByShutdownOnly`); a shutdown deactivates nobody (`DeactivatedIsDead`);
batches end (`BatchEnds`), and the two ways feedback can hold a shutdown
are the only ones (`OnlyFeedbackHoldsShutdown`).

`BroadcastPromise` says it without workers, queues and pages: offers, answers, losses,
deactivations, an end.  `KeepsPromise` is the refinement, with `status`
computed from `pc` and the other variables taken over.

### Replies

`at[u]` is the place of the goroutine of an update: the polling loop of
`UserFilterWrapper` (`Arrive`, `Admit`, a poll, giving up), the handler
with up to two replies, each an `EnqueueMessage` that ends with a place in the
queue, the 60 seconds, or the cancelled context.  The sender and the drain are
as in Broadcast, without feedback.  The drain waits for the `WaitGroup` of both
queue listeners (`ListenersGone`), so the broadcast listener is here too, with its
places (`bpc`) and without its tasks: `BroadcastTakes`, `BroadcastGranted` or
`BroadcastInterrupted`, `BroadcastSent`, `BroadcastAnswered` when a batch takes its
feedback, `BroadcastExit`.  Both branches of the `select` of
`EnqueueMessage` are possible when the context is done and the queue has room,
as in Go, so a reply can enter the queue after the drain has ended.

Correct means: an enqueued reply is in one place until it is settled
(`OneMessageEach`), replies of one command are not overtaken (`InOrder`), none is
lost while there is room (`LostByShutdownOnly`), every update ends
(`UpdateEnds`), a reply settles and the queue drains if Telegram answers
(`ReplySettles`, `RepliesDrain`), unless the broadcast listener stands for ever at a
feedback that no batch takes (`FeedbackLeft`): then the drain never starts, the process
does not end, and what is left in the reply queue stays there.

### Lifecycle

`main` runs through the startup steps (`env`, `commands`, `postgres`, `bot`, `metrics`,
`handlers`), each of which may fail into a `logger.Fatal`, the registration of the commands
more than once; Fatal puts a token into a channel
with one place and *returns*.  `panicListener` takes one token in its life.  Components are
`comp[c]`; the consumer (`StopWithContext`, ten seconds) and the database client
(whose Close needs a pool) are told apart, the others end once the
context is done (assumed here; Broadcast and Replies examine it).  The pool closes in two
steps, `DbCloses` and `DbClosed`: it waits for the connections in use, which come back because
every statement runs under the cancelled context.  Handlers
may hang, panic, or restart the bot.

Correct means: channels are closed under nobody unless the ten seconds ran out
(`QuietClose`); a bot that started well crashes only after that
(`CrashNeedsGivingUp`); a request to stop is heard (`RequestIsHeard`); a
cancelled bot ends (`ShutdownEnds`).

### UserFilter

GET and SET are two steps of an update (`Get`, `SetSucceeds`); calls fail
(`GetFails`, `SetFails`), go-redis repeats a SET whose answer was lost
(`SetUnanswered`), and a SET given up may still arrive (`LateSet`).  `Tick`
is the key's time to live.  Correct means: a mute needs two other counted
commands (`MuteIsEarned`); commands that do not overlap are limited to two
(`BurstBound`) and then a mute is not lifted early (`MuteHolds`).  "Overlap" is
the history variable: another update was between its GET and its SET.

### Muting

Extends UserFilter, and its run and its instance are those of both.  An update that
reads the count at its limit is denied and starts a goroutine: `step[u]` is its place in `TryMuteSpammer`:
`GetMe`, `GetBotMember`, `GetUserMember` (each an answer of Telegram), then
`Restrict`, which is `muteSpammer`, or `GiveUp` at any of them.  `Filter` is a step of
UserFilter and says nothing else of the mute; `Pass` is its clock, which also ages the message
(`age`) and runs down the restriction (`until`).  The date of the restriction is
reckoned from the date of the message, which is already old when the goroutine, its
rate limiter and its four calls are done, and a date less than 30 s ahead means
for ever to Telegram (`late` in the history).

Correct means: the rate limit and the restriction agree (`MutesAgree`): a user whom Telegram
silences is silenced by the bot for at least as long, unless commands
overlapped, the SET of the mute never arrived, or the mute was late.

### Roles

`at[h]` is the place of a handler with one command: `Arrive`, `RegisterOther` and `RegisterSelf`
(`PreprocessUser`, the author of the message replied to first), `CheckRoleAccess` (the
only look at a role), and then the command: `ChangeRole` and `ChangeRoleFails`
(`/promote` and `/demote`), `NoTarget`, `Answer`, or `Serve` for all
that leave roles alone.  `PreprocessFails` is an error of a query on the way.
Owners are made by hand in the database, so the first state has at least one and no
action makes another.

Correct means: a command runs for a role that its author had since it arrived
(`AuthorityWasHeld`); some owner remains, unless a role was set for
somebody who was no owner any more (`OwnerRemains`); roles are changed by
owners, of others only, and never up to OWNER (`RolesComeFromOwners`).

### Actions

An update registers the users it concerns, one statement each, that locks the
chat and then the user's row; it then runs its transaction.  Rows are locked from the statement that writes
them to the end of the transaction (`owner`, `Lock`, `Free`); `stale[u]` is the
set of rows changed since the snapshot of u, on which RepeatableRead and
Serializable fail (`Conflict`, `SerializationFails`); `draft[u]` is what u has
written and `Install` commits it.  The trigger of the migration writes the chat
after the user's row (`TriggerChat`), the game and the registration lock the
chat first, so circles of waiting occur; `DeadlockFails` is PostgreSQL ending one
of the circle.  Any statement or commit may fail (`StatementFails`,
`CommitFails`); the commit's error is only logged, and the action is announced
all the same.  A refused command reads the last time of its row (`ReadLastTime`), outside any
transaction, and dereferences it: it panics if the query failed, and also if the
time were NULL by then.  `FAction` and `SAction` differ in columns only and share
`"pair"`; `MAction` is `"solo"`, and `Up` is `"grow"`: it draws an amount and changes a length by
it, but not below zero (`Grown`).  `Perform` (`InsertText`,
`TextInserted`) stores a text, whose trigger locks the chat and then the
row; `Random` (`PickText`, `NoTextYet`) reads one; both end with `Touch`
and `Touched`, the time of the last message, which locks the row and then the chat.

Correct means: the counters of all rows are exactly the committed commands
(`CountersAddUp`), numbers announced for committed commands are the values
of the counter, each once (`NumbersAreUnique`), cooldowns hold between committed commands whatever
they race with (`CooldownKept`), lengths change by the whole of the amounts of the
committed Ups and of nothing else, and each is announced (`LengthsAddUp`), a handler
panics only after a failed call, so that no refused command finds a NULL
(`PanicNeedsFailure`), rows are freed before a reply waits for its queue
(`RowsAreFreed`), and every update ends (`UpdateEnds`).

### DumpJob

`at[r]` is the place of a run of the job.  The remote directory is a sequence
in the order of modification times; a write moves its file to the end.  A
cleanup reads the directory (`ListBackups`) and then removes file by file
(`RemoveOldest`, `RemoveFails`), while other runs may create and remove.  The process may
be killed at any point.  Correct means: no file is removed that has fewer
than `Keep` newer ones (`KeepNewer`), a complete backup stays while fewer than
`Keep` uploads broke off (`CompleteSurvives`), the server and /tmp do not fill
up (`FilesBounded`, `LocalFreed`).  The first two hold unless a file is written
while another run has already marked it for removal (the history variable
`overtaken`): a run that hangs until others count its file as old may lose it,
and may itself have removed the others.

### Markdown

A text is a sequence of characters, an escaped one together with its backslash.  A number, all
the digits that stand side by side, is one character, because a placeholder holds a number: the code looks
into none, and never puts two side by side.  `Numerals` are the numbers in decimal, as many as a text can
need.  `stage` runs through the stages of `EscapeMarkdownV2Smart`: in stages 1 to 4 (`pre`,
`code`, `link`, `italic`) `Replace` is one match of the regular expression, or one link,
at the earliest place from `scan` on: a placeholder takes its place and `spans` keeps its
escaped value; `NextStage` is the end of the text.  `Base` escapes what is left (stage 5).
In stage 5 + k, `Restore` is one replacement of `strings.ReplaceAll` for placeholder k, and
`NextPlaceholder` the next round of the loop.  When all rounds are over (`Done`), `Read` is an
external model of how Telegram parses MarkdownV2: `Reading` is what it takes of the text next and
what is open then, or nothing if it refuses the text.

Each character carries history that guards nothing: the piece of the
input that it stands for (`from`, `to`) and the entity it is written for (`in`).  For a fence or `](`,
which are read as one mark, `in` counts the characters of the mark.

Correct means: all letters arrive in their order, and no placeholder does (`LettersKept`);
Telegram accepts the result whatever the text was and reads each character in the
entity it was written for (`ReadAsMeant`).  Both have their exceptions in the formula: a span that
holds the placeholder of another (`Nested`, for the letters), the number of a span alone between two, which
reads like a third placeholder (`split`; a number that no span has is harmless), and two italic spans without anything in between, whose
marks read as an underline (`meet`, for the reader).

## 4. Runs and bounds

| Run | Instance | What it shows |
|---|---|---|
| `broadcast_pages` | 1 batch, chats 1, 3, 4 (a gap in the ids), pages of 2, queue of 1, dead chats flushed one by one, 2 attempts, fairness | success is complete, coverage, refinement of the promise, the end of batches and of a shutdown |
| `broadcast_pair` | 2 batches, 2 chats, queue of one page, 1 attempt | tasks, accounting, feedback, losses, deactivation with two batches in one queue |
| `broadcast_stop` | 1 batch, 2 chats | finding: the batch worker may never stop |
| `replies` | 2 updates with 2 replies each, queue of 2, 2 polls, 2 attempts, the broadcast listener | safety and liveness of replies, the drain behind both listeners |
| `lifecycle` | 3 updates, one plain component | safety and liveness of startup and shutdown |
| `lifecycle_crash` | 2 updates | finding: a send on a closed channel |
| `user_filter` | 4 commands, lives of 1 and 3 units, mutes of at least 2, messages up to 1 old | the counter and the mutes under concurrency and failing calls |
| `actions` | 2 updates out of 9 commands, 2 users, clock to 3, cooldown 1, amounts 2 and -3 | counters, lengths, cooldowns, locks, panics, termination |
| `dump` | 4 runs, 2 at once, keep 2 | retention under overlap and failures |
| `dump_lost` | 3 runs one after the other, keep 2 | finding: broken uploads drive out the last backup |
| `roles` | 3 users, 2 handlers, every promotion and demotion and a command of each other class | authority, owners, who changes roles; no deadlock |
| `markdown` | every text of at most 4 out of 14 pieces of markup; texts of 9, 11 and 14 code spans or links with a letter or a number after the first | letters, acceptance, and the entity each character is read in |

Why the bounds are enough.  Queues of one or two places, instead of 1000, make
a full queue an ordinary state, so that the 60 seconds, the back pressure
and the drain all happen; two pages exercise the cursor, gaps in the ids tell
"the next id" from "the next row", and the early flush is reached with
`DeadFlush` of 1 or 2.  `MaxAttempts` of 1 or 2 instead of 3 still has a first, a repeated
and a last attempt.  `LostByShutdownOnly` speaks of a queue that has room for a
page of every batch; in the code that is ten batches at a time (1000 places,
pages of 100).  Four commands are one more than the limit plus one, so that a
count expires and starts again.  In Actions two updates suffice for every lost
update, stale read and circle of two; nine commands cover each other's
rows, one's own row, a stranger and the chat.  With amounts of 2 and -3 a length grows,
falls and is held at zero.  `MinPlayers` and `MaxPlayers` of 2
instead of 3 and 10 allow both a game and a refusal with two users.  Four
backup runs with two at once reach every pair of lists of different ages; the
same properties hold with three runs all at once and one file kept.
Three users are an owner, another owner and the one they quarrel about.
In Markdown four pieces are enough for every pair of spans with something
around or between them, and for one kind inside another.  A full game makes 14 links; the long
texts (`Counts`) have numbers of two digits in their placeholders, and between two spans a number that some
span has or that none has.
`MaxOverlap`, `MaxTime`, `MaxPolls`, `MaxReplies`, `MaxDelay` and `MaxPieces` are
the bounds that cap counters and inputs; each is a constant named in its module.
A type invariant that is proved is not run once more.  Bounded runs end, so deadlock is not checked
where the system may rightly stop: after a shutdown, or when every update has
ended; that something ends is a liveness property instead.

Fairness.  Go's scheduler runs every goroutine that can take a step, which is
weak fairness per goroutine: of a batch, the listener, the sender, the drain,
a handler.  It is never assumed that a user sends a command, a signal arrives, a
handler returns, or a call fails or succeeds.  In `Broadcast` the sender's calls
return (the library gives each a timeout under the context); in `Replies` this is not assumed, and
the two properties that need it say so (`ListenersFair => ...`: both listeners and the drain, with
strong fairness for the exit of the broadcast listener, whose `select` picks any ready case
at random).  That a batch takes a feedback is never assumed.  In `Lifecycle`
nothing is assumed of a handler but that it puts its token when it can.  In `Actions`
PostgreSQL grants a released row to a waiting statement and finds every
circle; strong fairness is not needed because each update waits a bounded
number of times.

## 5. What the runs refute

* `BroadcastsStop`.  A shutdown drops queued tasks without feedback, and a
  batch in its collecting loop counts them: the batch worker, and with it the
  process, can wait for ever.
* `ShutdownIsGraceful`.  `CloseChannels` closes `ShutdownChannel` although a
  handler that outlived the ten seconds may still send on it.
* `BackupSurvives`.  A partial upload counts as a backup.

Met while modelling, visible in the models but without a run of their own:

* a reply can enter the queue after the drain and is then never sent
  (`workers/queue.go:46`);
* the sender can block for ever on feedback for a batch that returned at its
  cancellation check (`workers/queue.go:206`), the first half of
  `OnlyFeedbackHoldsShutdown`; the drain of the replies waits behind it
  (`workers/queue.go:216`), which is the exception of `RepliesDrain` and `ReplySettles`;
* two failing startup steps fill the channel before anybody reads it
  and the startup hangs (`service_wrapper/wrapper.go:70`); a bot without a database client
  does not get through its shutdown (`graceful_shutdown.go:67`), which is why
  `ShutdownEnds` has its hypothesis;
* commands sent at the same instant all read the same count and are all
  admitted (`user_filter_wrapper.go:62`), hence "overlap" in `BurstBound`;
* an action whose commit failed is announced (`querier/client.go:42`);
* a failed page query is taken for the end of the table, and the batch reports success
  (`workers/anouncement_sender.go:84`), which is why `Coverage` excepts a batch that
  gave up;
* `/promote` sets ADMIN whatever the role was: an owner is lowered and told
  of a promotion (`promote_to_admin_command.go:27`);
* two owners who demote each other at the same instant both pass the check, and
  nobody is an owner any more (`OwnerRemains` has this as its exception);
* `/action` without a text says so and goes on with the empty text, which it stores and
  sends (`action_command.go:23`);
* a mute that is asked for less than 30 s before its end is a mute for ever
  (`pkg/utils/telego_utils.go:240`);
* the three exceptions of `Markdown`: ``[](`a`)`` or a user name with a code span in it
  loses what is inside, ``__b__0`a` `` loses its zero and gains a span (so does a 10 between two
  of eleven spans), and
  `__a____b__` is refused by Telegram.

## 6. What is proved

The theorems hold for every value of the constants that satisfies the named
assumptions of the module (finite sets, positive bounds, distinct model
values).  Each follows from an inductive invariant, in layers: the later ones use the
earlier ones.

* `BroadcastProofs`.  `TypeInv` adds to the types the shape of the sender
  (it holds a task exactly when it is busy, an attempt is left unless it has a
  verdict), of the notify channel (it holds queued batches only, once each) and
  of the pages (chats are left of a page only inside the page loop or in a
  batch that stopped there).
  `OfferInv` counts: in a page, due = not yet offered + owed; and each pending
  chat has one task.  Neither half is inductive alone, since a feedback lowers
  `due` only because its task was pending.  `OutcomeInv` ties `alive`, `dead`,
  `stamped` and `retired` to `fate`.  `PagingInv` says that a chat active all along
  is active and, at or below the cursor, offered or in the page.  `RoomInv` bounds
  `due` by a page; the queued tasks are then counted by an injection into batches and
  ranks within a page, in which the chat at hand has a place of its own
  (`RoomForOneMore`).  `DeadInv` says that a batch collects nobody it
  has deactivated already; with it every step of the pipeline maps to a step of
  `BroadcastPromise` or to a stutter (`PromiseStep`).  Results: `TypeCorrect`,
  `Accounting`, `TasksAreUnique`, `Success`, `Awaited`, `Deactivations`,
  `PagingMissesNobody`, `RoomIsEnough`, and the refinement `Implements`.  Lemmas on appending
  to and taking from a queue without repetitions, and on what the steps of a batch
  leave to the others, carry the case analysis.  Progress: `BatchesEnd`, `SenderEnds`
  and `OnlyFeedbackHolds` (below).
* `RepliesProofs`.  `TypeInv`, then `RepliesInv`: the handler's place tells what
  it has offered, messages are in one place, the queue holds the replies of an
  update in order, and what the sender holds precedes what is queued.
  `RoomInv` adds that nobody has polled in vain while there is room, which the
  queued replies, each once and none of the update at hand, leave.
  Results: `TypeCorrect`, `MessagesAreUnique`, `Ordered`, `RoomIsEnough`; for
  progress `HandlersEnd` and `SenderEnds` (below).
* `LifecycleProofs`.  The consumer is done only if all handlers are or it gave
  up; the channels are closed only after the components; `inFatal` belongs to a
  failed step.  Results: `TypeCorrect`, `ClosesQuietly`, `CrashesOnlyThen`, and the two
  liveness properties of the run, `Heard` and `ShutdownCompletes` (below).
* `UserFilterProofs`.  What an update saw, and what is on the wire, is backed by as many
  counted commands other than itself; without overlap at most one update is
  between GET and SET and `passed` follows the state.  Results: `TypeCorrect`,
  `Earned`, `Bounded`, `Holds`.

  For `Muting`, `ImplementsFilter`: a step of `MuteSpec` is a step or a stutter
  of the rate limit, so every theorem of `UserFilterProofs` holds here
  (`FilterHolds`).  `Agree` needs that a mute still to come keeps the key
  MUTED, with a life that together with the age of the message is at least
  the cooldown, and nothing else on the wire.
* `DumpJobProofs`.  `Keeps` and `Survives` follow from what a marked file has
  ahead of it: `Keep` newer ones, and once a file was removed there
  are at least `Keep` left.  `BoundedFiles` is inductive only in this form: for
  every set of cleanups under way that missed no file, what these leave is at most `Keep` plus
  what the others still owe.  Results: also `TypeCorrect`, `Freed`.
* `ActionsProofs`.  `Proper(u)` says of each update what its place says of its kind
  (`Shape`), which rows it holds (`Held`), that its draft is the committed row with its
  command counted as far as it has come (`Drafted`), and that the cooldown and the number
  it looked at are still good: the row is locked, or a change of it is in `stale`,
  or it is looked at again (`Timed`, `Numbered`).  A command is refused because its row has a last time,
  and no commit takes one away (`LastKept`), so the read after the refusal finds one.  A step of one update leaves this
  to the others because locks exclude each other and commits leave their trace
  in `stale` (`OthersStay`).  Results: `TypeCorrect`, `AddUp`, `Unique`,
  `PanicsAreFailures`, `RowsFreed`, and the action properties `Cooldowns` and `Lengths`; for
  progress `StepsRunOut` and `SomebodyGoesOn`.
* `RolesProofs`.  The history of a handler holds the present role of
  its author, so a role allowed at the check was held; an owner who demotes
  another is an owner still, or `stale` says otherwise.  Results: `TypeCorrect`, `Authority`,
  `AnOwnerRemains`, `FromOwners`.
* `MarkdownProofs`.  A text is a chain (`Piece`): each character stands for the piece of the
  input that follows that of the one before it, the three characters of a placeholder come together and
  the first stands for the piece of the whole span, and what Telegram has open after a
  character is what the next one is written for (`Leads`; before `Base` nothing is read yet and this half is left
  out).  `MdInv` says that the text and the value of every span are chains from plain
  to plain; that each character stands for itself, for markup without letters, or is part of a placeholder
  (`Sound`); that a placeholder in the text names a span that is still to be filled in and
  stands for its piece (`Waiting`), or lies inside another span (`Buried`); that nothing else looks like a
  placeholder (`NoFake`); and that no two marks meet that would be read as one (`NoDouble`,
  `Apart`).  Taking a span out, escaping and filling a value in are all one operation on
  chains: a part is replaced by a chain for the same piece (`PieceSplice`).  A lemma for each of the four
  kinds (`PreSpan`, `CodeSpan`, `LinkSpan`, `ItalicSpan`) shows that its value is such a
  chain.  That what `Restore` takes for placeholder k is that placeholder (`Matching`) is where
  `split` comes in; `meet` where values are put side by side (`FilledDouble`, `FilledApart`).  `ReadingOK` then
  shows that a reader of a chain always goes on, in the right entity.  TLC found `MdInv` true of the
  run's instance before it was proved; it is not run once more.  Results: `TypeCorrect`, `ChainsHold`, `LettersArrive`, `ReadsAsWritten`, for
  all texts without the control character U+0001, which the code keeps for its placeholders and
  Telegram does not deliver (`InputsAssumption`).  `NumeralsAssumption` says of the numbers that no two read
  alike, that they are no markup, and that there are as many as the longest text has places.  That these are
  enough is proved: each span begins at a place of its own (`StartsApart`), so the spans of a text are counted by
  an injection into its places (`RoomForSpan`), and the stages never stop for want of a number.

Liveness in `Lifecycle`.  `Heard` and `ShutdownCompletes` derive `RequestIsHeard` and
`ShutdownEnds` from the fairness of the specification.  The prover knows nothing of
ENABLED, so both take `[]GuardsEnable` for granted, which says of the few actions that
matter that they are enabled where their guards hold; it repeats these guards, claims nothing of
the program, and is read off the actions.
`ShutdownCompletes` is stated for the four components that
`internal/bot/graceful_shutdown.go:56-84` registers besides the consumer and the
database client (three outside production): a leads-to per component is combined by
propositional temporal logic, which has no induction over a set of components.

Progress elsewhere.  A liveness property whose number of rounds depends on a constant
needs an induction over time, which the prover does not have.  What that induction would be
made of is proved, for every value of the constants:

* nobody takes steps for ever: a measure of what is left to do falls with every
  step of its goroutine and rises with no step of another.  `BatchesEnd`: a batch takes at
  most 9 steps for each chat and 5 more.  `SenderEnds` (`Broadcast` and `Replies`): the
  sender and the drain take at most a number of steps for each text.  `HandlersEnd`: a handler
  of `Replies` takes at most `MaxPolls + 2 * MaxReplies + 3`.  `StepsRunOut`: an update of `Actions`
  takes at most `MaxPlayers + 15`, so that the retries of a transaction and the
  waiting for rows end;
* where all stand still there is a reason.  `OnlyFeedbackHolds`: if no guard in
  `Broadcast` holds, every requested batch has ended or lost a task, and an unfinished shutdown is
  held by feedback, as `OnlyFeedbackHoldsShutdown` has it.  It needs that a batch in the
  channel is there, that listener and sender leave at a shutdown only, and that the queue keeps its
  capacity (`QuietInv`).  In `Replies` a handler never waits for another goroutine
  (`NoHandlerWaits`); until the drain is over the sender goes on, then the broadcast listener,
  unless it stands at a feedback, then the drain (`QueueMoves`).  In `Actions` an update that is not over goes on, or some
  other does, or there is a circle of waiting rows that `DeadlockFails` ends
  (`SomebodyGoesOn`): follow who waits for whom and the walk comes back.

The guards in these theorems are written down beside the proofs; that a guard is
what enables its action is seen by reading the action.

Only model-checked:

* `BatchEnds`, `OnlyFeedbackHoldsShutdown`, `UpdateEnds` of `Replies` and of `Actions`,
  `ReplySettles` and `RepliesDrain`, as said.

## 7. What is not modelled

Wording, parse modes and logging; the statistics and the leaderboards with the order of their
rows, one read query and a formatted reply each; the cache of command texts, one atomic pointer
that is replaced as a whole and read once per text, so that no two of its reads
depend on each other; HTTP, the webhook
and its server beyond starting and stopping (`Lifecycle`); telemetry beyond `logger.Fatal`; the deployment;
generated query code beyond the statements it carries; the LLM client, which no
registered handler reaches.

In `Actions`, the row locks of a broadcast on many
chats and those on the `users` table, the check that a message comes from a
group, and `last_message_at` with the order it gives to players.  In `DumpJob`, two
files with the same modification time, which the sort may exchange.  In
`Lifecycle`, goroutines that no component waits for.  In `UserFilter` and `Muting`, more than one
user and chat (keys are independent), and what administrators do to a
restriction by hand.  In `Roles`, the other columns of a user.  In `Markdown`, bytes
that are no ASCII.
