# FabricaLaser in TLA+

FabricaLaser (`internal/`, Go) sells laser cutting and engraving: it quotes
uploaded drawings on its web site, and it answers customers on WhatsApp and
Telegram, and its own administrators, through Gemini. This directory holds
TLA+ models of it, their TLC configurations and TLAPS proofs.

## 1. Inventory

State lives in three places: PostgreSQL, Redis, and small caches in the
process. Every webhook and HTTP request runs in its own goroutine, no request
holds a lock over a call, and some goroutines outlive the request that started
them. What is hard in this system is therefore nearly always the same thing:
something read from a store, a slow call (Gemini takes seconds), and something
written back on the strength of what was read.

| Component | State | Operations | Talks to | Hard because | Correct when |
|---|---|---|---|---|---|
| Daily limiter, `whatsapp/rate_limiter.go` | Redis: set of contacts and counter per UTC day | `Check`, two alert mails | both channels, SMTP | test and increment are different commands; midnight; fails open; mails leave from goroutines and may fail | the overshoot is bounded, no contact gets in uncounted, no warning is forgotten |
| WhatsApp webhook and processor, `handler.go`, `processor.go` | Redis: dedup, opt-in, daily counter, history; table `whatsapp_conversations` | `HandleMessage`, `processTextMessage`, `processImageMessage`, `saveHistoryAsync` | Meta, limiter, Gemini, PostgreSQL | redelivery, batches, concurrent messages of one sender, TTLs, restarts after the acknowledgement | one delivery works on a message, silence has a named cause, quotas and notices are exact, history is made of whole exchanges |
| Telegram channel, `telegram/` | as WhatsApp, keys `tg:*` | `processText`, `processImage`, `saveHistoryAsync` | Telegram, the same limiter, WhatsApp for the advisor | the same, and message ids that are unique per chat only | silence has a named cause, a promised advisor is told |
| Gemini adapter and its tools, `whatsapp/gemini_adapter.go` | none | tool loop, retries on 429, `escalar_a_humano` | pricing, catalogue, advisor | two nested bounds, no deadline, side effects before the answer | the loop ends, its calls are bounded |
| Settings of the bots, `context_provider.go` | three values and a text in the process | `GetDynamicContext`, getters | `system_config`, catalogue | refilled concurrently and late, and never refreshed by age | a message is handled whatever they hold |
| E-mail digest, `summary_mailer.go`, `cmd/digest` | Redis: watermark | `SendDigest`, administrator's `PurgeConversations` | the table the processor writes, SMTP | two processes without a lock, rows stamped before they are inserted, failures after the mail was taken | no message falls between two digests, little is repeated |
| Administrator's assistant, `handlers/admin/chat` | Redis: history and session keys; tables of sessions and messages | `SendMessage`, `Reset`, `GetHistory` | Gemini, PostgreSQL | two copies of a conversation, two TTLs, snapshots written back after a minute | one open session, nothing said is lost, reset means reset |
| Quota and quotes, `handlers/quote`, `middleware/quota.go` | tables `users`, `quotes`, `svg_analyses` | `AnalyzeSVG`, `CalculatePrice`, administrator's `UpdateUser` | pricing, SVG engine | check in the middleware, increment after the quote; whole-row saves | quota overshoot bounded, no quote uncounted |
| Pricing, `services/pricing` | configuration cache (5 minutes) | `Load`, `Refresh`, `Calculate`, `Estimate` | catalogue tables | lookups by thickness with fallbacks, a cache replaced after eight queries | a load is recent, price monotone in quantity and in work |
| SVG engine, `services/svgengine` | none | parse, classify, measure, sum | | one drawing has many spellings; a pen whose state ten commands carry by hand | the measures are those of the drawing, not of its spelling |
| Accounts, `services/auth`, `handlers/auth` | table `users` | registration, set, recover and change password, profile, administrator's forms | GoMeta, e-mail | check-then-act with a slow call in between; three-step password reset; whole-row saves | one account per identity and e-mail, nobody's change is lost, a link works once |
| Catalogue administration, `handlers/admin` | ten tables and the status of quotes | create, update, delete, bulk, stock, featured, `ConsultarBlank` | | whole-row saves, forms whose missing fields mean different things, costs derived at save | no lost update, costs are those of their inputs |
| Public web chat, `handlers/chat` | none of its own | `HandleChat`, `persistWebTurns` | Gemini, the conversations table | two inserts | no answer without its question |
| Identity check, e-mail, customer profile, router, middleware, models, migrations, frontend | | | | | |

`PROJECT.json` repeats the list with the files and, under `hazards`, each
difficulty at its line with the property that would catch it.

## 2. Modules

| Module | What it is |
|---|---|
| `DailyAdmission` | what the limiter promises, without its commands |
| `RateLimiter`, `RateLimiter_proofs` | `RateLimiter.Check`, one action per Redis command; implements `DailyAdmission` |
| `Reception` | what a channel promises of a message, without its steps |
| `WaProcessor`, `WaProcessor_proofs` | the WhatsApp channel from the webhook to the archived turn; implements `Reception` while no deduplication key expires |
| `ContextProvider` | the cached settings of the bots |
| `GeminiAdapter` | a question to the model: rounds of functions, retries; extends `ContextProvider` |
| `Telegram`, `Telegram_proofs` | the Telegram channel; extends `GeminiAdapter`, implements `Reception` |
| `Digest`, `Digest_proofs` | `SendDigest` beside the goroutines that archive |
| `AdminChat`, `AdminChat_proofs` | sessions and history of the assistant |
| `ConfigCache` | the cache of the pricing configuration |
| `Quotes`, `Quotes_proofs` | quotes, quota and uploads of a customer, over `ConfigCache`, whose theorems and those of `SvgEngine` are here too |
| `Accounts`, `Accounts_proofs` | the table of users and everything that writes it |
| `Catalogue`, `Catalogue_proofs` | the administrator's tables; the theorems of `Pricing`, whose configurations are loaded from them, are here too |
| `Fractions` | rational numbers, for money, lengths and minutes |
| `Pricing` | the pricing engine as the portal, the bot and the assistant call it |
| `SvgEngine` | from a drawing's file to its measured analysis |
| `MC...` | instances for TLC: an `MC` module gives constants their values. `MCPricing` holds three configurations of the shop and the orders, `MCSvgEngine` the drawings and their spellings |

A `..._proofs` module extends its module and holds its theorems.

In all of them an action is one call to Redis, PostgreSQL, Meta, SMTP or
Gemini together with the decision taken on its answer, because between two
calls any other goroutine may run. A program counter per goroutine names the
next call. A call that may fail has a second action or disjunct, counted by
`MaxFaults`, except where failing costs the models nothing. History variables,
which no guard reads, are named as such where they are declared. Definitions
whose comment begins with "Mutant" are faulty versions of the definition that
follows, used to see that a property notices the fault; the specifications do
not use them.

### RateLimiter

`phones[d]` and `count[d]` are the Redis keys `wa:daily:phones:{d}` and
`wa:daily:count:{d}`; `pc`, `phone`, `day` and `verdict` are the locals of the
goroutines inside `Check`. `Call` reads the date, `SIsMember`, `Get`, `SAdd`
and `Incr` are the commands, `FailOpen` and `IncrFails` their failures (the
code allows the message), `Midnight` is UTC midnight. A command is applied at
most once: the client's own retries are not modelled. INCR is two steps,
because others count between the command and the use of its reply: `Incr`
changes the count and `Announce` reads the reply (`newCount`), which may also
never arrive. From the threshold on `Announce` starts `sendThresholdAlert` in a
goroutine of its own; `sending` are the alerts under way, `SendAlert` ends one,
`mailed` or `lost`, whenever it pleases. `Restart` ends callers and goroutines
and leaves Redis as it is. `sendLimitAlert`, one mail for each denial, is left
out.

`DailyAdmission` says: a continuation only if registered, a denial only if the
day's count reached the limit, a count never above `Capacity`, nothing taken
back, every question answered or lost to a restart. `ImplementsDailyAdmission`
is the refinement, with `asking` mapped to the calls under way and whether they
have counted, and `Capacity` to `Limit` plus the callers less one.

### Reception

A message is answered at most once, while somebody works on it, and the archive
has a row of it only after the model's reply, and no other text, has reached the
customer; work may end at any time. It has no actions of its own for what fails:
the two channels are shown to keep to it, whatever fails. In both,
`answered` is the text delivered other than the notice of privacy and `kept` the
rows of the archive. A message is `over` in `Telegram` when its goroutine is done
or lost, and in `WaProcessor` when its deduplication key is set and no delivery
has it in hand; there a key may expire and Meta post the message again, which is
then answered again.

### WaProcessor

`Receive` is `HandleMessage`: it acknowledges and starts the goroutine of the
delivery; `rest[d]` are the messages of the batch still to process. `Skip`,
`Claim`, `Check`, `OptIn`, `Disclaim`, `Count`, `Refuse`, `Notify`, `Download`,
`Gemini`, `Apologise` and `Reply` follow `processTextMessage` and
`processImageMessage`, which differ where the code does (the image handler has a
download, neither the advisor's exemption nor the note). `Load`, `Store` and
`Archive` are `saveHistoryAsync`. The environment lets keys expire, calls fail,
midnight pass and the server restart (`Crash`: goroutines are lost, the stores
stay). A send that Meta does not take is a text of `outbox` that is not `ok`:
the code logs the error and goes on, so the customer has nothing, and
`SilenceHasCause` counts it as a cause and not as an answer. The limiter appears
as its verdict, allow or deny, which is all the processor sees of it; `Gemini`
as an answer or an error, whose inside is `GeminiAdapter`. The history read to
build the prompt and the customer's profile are not modelled: they change no
state but the text of the answer.

### ContextProvider, GeminiAdapter, Telegram

Three modules and one run, because what they do to one another matters. `pc[m]`
follows the goroutine of message `m` and then that of its saver, which starts
when the first has nothing left to do; `turn[m]` is the call to Gemini inside.
An action is one external call; any call may fail, and the failures, edits of
settings, expiries, midnights and restarts share the bound `MaxEvents`.

`ContextProvider`: `BuildContext` reads the three settings, each by a query that
may fail by itself, and `InstallContext`
puts them into the cache, two steps, so an older draft may overwrite a newer
one. Only the text beside the settings has an age. A setting is served from
memory however old it is, and only a message that reaches Gemini renews it; a
read that fails leaves the default in the cache, and a configured zero is never
cached, because zero means absent there. How long a setting may be stale has
therefore no bound: the customers who are over their daily maximum do not reach
Gemini. `GeminiAdapter`: `Answer` and `CallFunction` are what the model may
answer, `TooManyRequests` a 429, `NextRound` the next turn of the loop,
`EscalarAHumano` the function that writes to the advisor. A model that fails
after an escalation gives the customer an apology, and the advisor may be told
a second time when the customer insists. `Telegram`: `Receive`, `Claim`,
`CheckRate`, `OptIn`, `Disclaim`, `Count`, `Decide`, `Refuse`, `NotifyOnce`,
`Notify`, `FallBack`, `Download`, `ModelReturns`, `Reply`, `LoadHistory`,
`StoreHistory`, `ArchiveUser`, `ArchiveModel` follow the source in its order.
The limiter's verdict is free. A crash loses the acknowledged messages. The
deduplication key has the message's number and not its chat, so that two chats
can silence each other, which `SilenceHasACause` names as a cause; and an
escalation that Telegram does not take is not tried on WhatsApp, while the
notice about the daily maximum is.

### Digest

A turn is `stamped` with the clock and later `inserted` or `lost`, as in
`saveHistoryAsync`. A runner (cron or the administrator) reads the watermark,
the clock, the table, mails, and sets the watermark. `Purge` is the
administrator's `PurgeConversations`: it deletes rows older than the age given,
a `Day` at least. Time is a counter with
`Second` ticks to a second, since the watermark is stored in whole seconds.
`excused` collects the turns a digest could not have: inserted behind the
watermark of a digest already past its query, or older than the window of a
digest that found no watermark.

### AdminChat

One administrator. A request goes `hist`, `key` (or `find`, `messages`,
`rebuild`, `rekey` when Redis has no history), `endall`, `create`, `setkey`
when no session is active, then `ask`, `gemini`, `save`. `savers` are the
goroutines of `persistMessage`. `Reset` is two steps, the UPDATE that closes the
sessions and the DEL of the keys, whose error the code ignores: the keys may
survive. `GetHistory` is a request
that ends, as "shown", once `loadHistory` has answered: it rebuilds the key of
Redis like any other, which is why it belongs here. `HistExpires` and
`KeyExpires` are the two TTLs. A restart is not an action of its own: for
what is checked it is a request that never goes on and savers that fail.
`HistExpires` requires that the savers of what the key holds are done: they
have ten seconds and the key four hours. Redis evicting keys earlier is not
modelled. `split` is a history variable: the conversation may
be kept by two sessions, because a question found its history but not the
session's key, because it found no session while another was opening one, or
because a reset ran while a request was under way.

### ConfigCache

`edits[t]` are the times at which table `t` was edited and its length is the
version of the table; a configuration is the version it has of each table,
with `loadedAt`. `Hit` and `Miss` are `Load`, `ReadTable` one query of
`refresh`, `Store` the assignment of the cache, `QueryFails` its error path.
`asked` remembers when a reader called.

### Quotes

One customer, several of his requests, administrators who may edit his row.
`quota` and `used` are the columns `quote_quota` and `quotes_used`; `saved` and
`analyses` count the rows of `quotes` and of `svg_analyses` for one file.
`Calculation` and `Upload` are `QuotaMiddleware`; `CalculatePrice` then loads
the configuration three times (`Check`, `Calculate`, `Validity`), saves
(`Create`) and counts (`Count`); `AnalyzeSVG` looks the file up and inserts
it. `FindUser` and `UpdateUser` are the read and the whole-row save of the
administrator's handler. `Quotes` extends `ConfigCache`, so a load is the
cache's own actions. Price and drawing are not in this model. What an
administrator does to a quote later (`UpdateQuote`) is in `Catalogue`, the
deletion of a customer in `Accounts`.

### Accounts

`users[i]` is a row of the table, `req[p]` what the request `p` is about and its
next query. An operation is a sequence of queries that first check and later
write (`RegistroBegins`, `RegistroEmail`, `RegistroFind`, `RegistroSave`...),
and other requests run between them. There are two kinds of writes: most set
some columns of the row with an id, whatever the row is by then; `Save` writes
back all the columns of a row read before. The one constraint of the table is a
unique index on the cedula of rows with a password; GORM's defaults make a user
created inactive by the administrator an active one (`Inserted`). An action ends
where an answer is given, and a failed lookup is an answer "not found" where the
code takes it for one. A cedula of `Plain` consists of digits. Registration,
login and recovery normalise what is typed to one of these; the administrator's
form stores what is typed, digits or not. History variables: `blind` are the
requests that may have missed a write they depended on, `disturbed` the rows
such a request has written, `unchecked` the accounts with an e-mail nobody
checked, `meant` the table as it would be had each operation only set what it is
about, `spent`, `unclear` and `again` the links used. Every property says that
what goes wrong has one of these causes.

### Catalogue

A behaviour is about one of the eleven tables, which do not touch one another.
What differs between the handlers is what a form means for a column, and that is
written as a rule per column: required, optional, taken if not zero, taken if
present, or forced (set to what the form says, zero if it says nothing). Updates
read a row (`UpdateBegins`), merge and save all of it (`Update`); deletion
clears `is_active`; stock, featured and the counter of queries set columns.
`meant` is as in `Accounts`. The translation shows a few things that a user of
the panel would not expect and that no document contradicts: a form that leaves
out a forced column sets it to zero (`uv_premium_factor`, `setup_fee`,
`max_qty`, nearly all of a blank's); a speed created incompatible is stored
compatible and a rate created inactive stored active, a waste of zero becomes 15
%, since GORM leaves zeros to the database's default; the overhead of a new rate
becomes 3.78 while its cost per minute was computed with zero; changing a rate
or a sheet does not recompute the cost derived from it, which only
`RecalculateMaterialCost` does, for the sheet; a new blank may be featured and
have queries counted from the start, as its form decodes the whole row; unique
keys count rows that were deleted; and an oversold blank is reported as low in
stock, not as out of it.

### SvgEngine

`SvgInit` chooses a file, `AnalyzeUpload` is the handler `AnalyzeSVG` with the
engine behind it, `PostAgain` posts the original spelling of the same drawing,
and the properties compare the two answers; since every file is compared with
the original, any two of them agree. `RowsTellTotals` compares areas when none
is less than zero, which a rectangle with a negative side has. What the code
does by recursion is a recursive function or a fold, so that theorems can be
about it. The parser starts at the attributes already scanned; from there
colours, classes, shapes, path commands (`DrawCommand` and the ten operators
under it), flattening, scaling, sums and the stored rows are the code's. Whole
millimetres, slanted lengths rounded down, areas doubled, `Pi` and `Precision`
constants: what floating point does is left out, except where the code compares
with a tolerance.

### Pricing

What the code computes in `Calculator.Calculate`, as operators of a loaded
configuration `c` and a `job`; the getters and lookups keep their names. A
configuration is a record of the catalogue tables, sequences where the code
scans a slice and the first or last match counts, functions where it has a
map; an inactive row is simply absent. `CalculatePrice`, `HandleEstimate` and
`ExecCalcularCotizacion` are the three callers, each with its own checks and
defaults. Numbers are exact fractions: what float64 rounds is not in the
model, and prices are rounded to cents, reference prices to colones, where the
code does. Thickness is in thousandths of a millimetre, because two of the
lookups compare it exactly and one within a hundredth. Drawings are chosen
with areas that are squares, so that the root in `ComplexityFactor` is exact. The
code takes ten steps of Newton's method (svg_analysis.go:107), which agree up to
a tenth of a square metre and are 3 % too large at a whole one; only the
status of the quote depends on it.
`cut_technology_id` is a pointer in the portal and in the bot, where a zero is a
machine other than the first, and a number in the assistant, where a zero is no
machine.
The base speeds of lines and cuts are positive, as seeded: with one of zero the
code divides by it. A handler accepts a request (`job`), `Price` calculates and
answers. `OrderAgain` has no code behind it: it orders once more under the same
loaded configuration, something next to the first order, more pieces or more
work on each (`Beside`), and the properties compare the two prices. The geometry
decides what the value of the work is measured by (`Kind`: engraved, only cut, or
neither), so work of another kind may lower a price: `MoreWorkCostsMore` keeps to
one kind, and `PriceFloor` says of all of them how low it may go. After that the
run lets the system stop.

## 3. Runs

Every run of expected result "pass" completes; the numbers are distinct states.

| Run | Instance | Shows |
|---|---|---|
| `limiter` | 2 callers, 2 contacts, 2 days, limit 1, any command and any mail may fail, restarts at any time (0.70 million) | `OvershootBound`, `EveryContactCounted`, `NoWarningForgotten`; `ImplementsDailyAdmission`, with fairness |
| `wa_batches` | batch of 2 texts beside one of a text, an unserved message and an image, all of one new contact; quota 3, history of one exchange (0.38 million) | `DisclaimerOnce`, `DailyQuota`, `LossNeedsDisturbance`, `HistoryOfExchanges` |
| `wa_redelivery` | 1 image posted twice, the second time before an unserved message; 2 days, two faults, an expiry, a restart (0.40 million) | `OneDeliveryPerMessage`, `SilenceHasCause`, `ArchiveBacked`; `StallsOnlyAtGemini`, `AnswersArchived` |
| `telegram` | 2 texts of one chat, a picture of another chat with the number of the first, two at a time; a failing call, an edited setting, an expiry, a midnight or a restart (0.68 million) | `WorkEnds`, `SilenceHasACause`, `PromisedAdvisorTold` |
| `digest` | 2 turns, cron and the administrator, a second of two ticks, a day of one, a fault (1.3 million) | `NothingSkipped`, `RepeatsAreRecent`; `EventuallyMailed` |
| `admin_chat` | 2 overlapping questions or looks at the history, a reset, two expiries, a fault (0.84 million) | `OpenSessionsOverlapped`, `CacheIsArchived`, `MemoryKept`; `EverythingArchived` |
| `quotes` | 2 requests, an administrator, quota 1 or none, one table edited once, a TTL of two ticks, a fault (1.7 million) | `ConfigIsRecent`, `QuotesAccounted`, `QuotaOvershoot`, `DuplicatesBounded` |
| `pricing` | 3 configurations (calibrated, empty, with zeros and a withdrawn technology), 5 drawings and 2 rectangles, quantities up to 5 in three brackets, 40 thousand orders and those beside them (0.29 million) | `UnitPriceNeverRises`, `MoreWorkCostsMore`, `PriceFloor` |
| `svg` | 10 shapes and a drawing of four elements, each in several spellings, 5 paints, 10 canvases, 2 places (15 thousand) | `SameMeasures`, `ExtentFollows`, `RowsTellTotals` |
| `accounts` | 3 cedulas, one of them not in digits, an e-mail, 2 passwords, 2 requests, 2 rows, 2 links, three operations of more than one query (1.1 million) | `AccountRecognised`, `EmailsDistinct`, `LastWordStands`, `LinkWorksOnce` |
| `catalogue` | 2 rows of each table, 2 requests, four operations (0.28 million) | `EditsStand`, `CostsOfTheirInputs`, `AnswerHonest` |
| `admin_chat_reset` | 2 questions and a reset | `ResetForgets`, a statement of the repository that does not hold (below) |

### Why the bounds are enough

The races are between two actors, and what depends on the number of actors
(`OvershootBound`, `QuotaOvershoot`, `DuplicatesBounded`, `MemoryKept`,
`LastWordStands`, ...) is also proved for any number. Limits are chosen so that
they are reached with an actor to spare: a limit of one with two callers, quota
3 with four messages that count, a history of one exchange with four exchanges.
One fault is enough to reach every error path, since error paths do not call one
another, but for the apology for a failed call to Gemini, whose own send may
fail: `wa_redelivery` has two. Two days suffice because a call knows only the
day it began on. What is not combined: the WhatsApp batches run without faults,
expiries or midnight, which the redelivery has, on fewer messages; the Telegram
run has all of them, one at a time. In `quotes` one table is enough for the run
because `ConfigIsRecent` speaks of each table by itself (any number of them is
proved); the two requests are interchangeable and declared symmetric, which is
sound there, in `accounts` and in `catalogue` because those runs check
invariants only. With two administrators at work the count may be restored over
and over: `QuotaOvershoot` says nothing then, `QuotesAccounted` still holds. In
`accounts` a third operation acts on what two overlapping ones have left; an
operation of a single query is not counted, so there may be any number of those.
In `catalogue` four operations are two that overlap and what is done before and
after them. In `pricing` the properties compare an order with another that
differs in one respect, so an instance needs the two sides of each condition: a
quantity inside, at and beyond the edges of three brackets, geometry under and
over the least area, speeds of a row, of thickness 0, and none. In `svg` every
element is read and every path command drawn, absolute and relative, with
coordinates given and left to their defaults, repeated arguments included; each
shape has the spellings `MCSvgEngine` lists and meets each canvas; the drawing
of four elements has one of each class and one in two. That is a choice of
spellings and not all: discs and ovals are never paths, there are no further
subpaths, no groups with a transform and no corners with two different radii,
and every viewBox begins at 0 0. Colours are read as the code reads them: what
has a red attribute and a blue style counts as red. In `telegram` the rounds and
the attempts have two and one, which the variant `WorkEnds` makes a matter of
counting.

### What does not hold

`admin_chat_reset` checks a statement of the repository and finds it violated:
`ResetForgets`. A question that waits for Gemini while the administrator resets
the conversation writes the old history back when it is answered.

Other disagreements were met and have no run.

* docs/PRICING_FORMULA_ACTUAL.md:158-178 applies the minimum value and the
  minimum area to one piece and multiplies by the quantity. The code multiplies
  first and applies each of them once to the whole order (calculator.go:106,
  :260), so that small pieces in quantity are cheaper than the document says.
  The models follow the code, and no property here compares an order with its
  pieces bought one by one.
* An order that is cut may become cheaper when something is engraved on it too,
  because its value is then measured in another way (calculator.go:260-305).
  `PriceFloor` bounds the fall.
* `RateLimiter` may deny a contact before any warning has left: the alerts are
  mailed from goroutines (rate_limiter.go:124), whose errors are logged (:162).
* `Reset` ignores the error of the DEL (admin/chat/handler.go:163), so a reset
  that was answered with success may have left the conversation in Redis.
* The administrator's form stores a cedula as typed (admin_handler.go:753,
  :760). One with dashes is never found at login, and its owner can register
  again beside it. `AccountRecognised` is about cedulas in digits.
* Of two first messages of one contact at once, `RateLimiter` lets one be denied
  though its conversation has started that day, which the alert mail says cannot
  happen (rate_limiter.go:175).
* The advisor is exempt from the daily maximum in texts (processor.go:260) and
  not in images (:451).
* A turn stamped before a digest reads its clock (processor.go:372) and inserted
  after its query is never mailed (summary_mailer.go:54). `NothingSkipped`
  excuses exactly these.
* In `AdminChat` the session's key is written once and the history's with every
  answer, so after four hours of use one conversation is split over two sessions
  (migrations/029_admin_chat.sql:3); so do two first questions at once
  (handler.go:94).
* Compatibility is checked with one load of the configuration
  (quote/handler.go:178) and the price calculated with another (:181, :195); and
  only the engraving technology is checked against the material, in the portal
  only.
* An area engraved where only a line speed is calibrated is timed with the base
  speed of the shop (time_estimator.go:189), not with line speed times spot
  (tech_material_speed.go:17).
* The settings of the bots have a "cache de 5 minutos" (context_provider.go:19),
  which is the age of the text beside them only (:69); the customer's profile
  stays as it was for fifteen minutes, so a customer who has just registered is
  told that he is not (processor.go:89).
* In `SvgEngine`, where the properties name the exception or the instance keeps
  away from it: the origin of the viewBox is not subtracted, so that the charged
  area clamps parts inside the drawing (svg_analysis.go:57); lifting the pen
  between subpaths counts as length and all subpaths as one polygon; after a
  command that is no curve, repeated arguments of S and T reflect nothing;
  corner radii larger than the rectangle give negative lengths and an ellipse
  without radii no number; one line parallel to an axis has the whole canvas as
  its area; open paths have an area and open polylines none; arcs are chords, a
  circle is scaled by the mean of the axes, transforms of groups are ignored,
  and an attribute wins over a style.

### Fairness

Weak fairness on what a goroutine already started does next, and on nothing that
somebody outside decides (a webhook, a question, a click, an expiry, a failure).
Redis, PostgreSQL, Meta and Telegram clients return or time out. The
conversation with the mail server has no deadline; that it ends is an assumption
of `Digest`, where it concerns `EventuallyMailed` only. The calls to Gemini of
the assistant have a deadline of sixty seconds. Those of the two channels have
none. `WaProcessor` therefore assumes nothing of them, and `StallsOnlyAtGemini`
says that a delivery whose call never returns keeps nobody else waiting;
`AnswersArchived` begins when an answer was sent. `Telegram` states no fairness:
`WorkEnds` is the variant that excludes an endless loop, and says nothing of a
single call that does not return. Nothing is assumed of the limiter's mails
(`SendAlert`) either. `Accounts`, `Catalogue`, `Quotes`, `Pricing` and
`SvgEngine` are requests that end by themselves, and only safety is asked of
them. In `Digest` cron starts again and again; the administrator need not. A run
that does no more than stop is never the reason a liveness property holds: each
has a mutant that breaks it.

## 4. Proofs

Proved for every value of the constants, under the assumptions named in the
modules (`LimitsAssumption`, `CallersAssumption`, `MessagesAssumption`, ...),
which say no more than the types of the parameters and that callers are finite
in number. `ShopsAssumption` says more, see `Pricing` below.

* `RateLimiter_proofs`. `TypeCorrect`. `OvershootBounded`: the bound on the
  count alone is not inductive, because a caller that has passed the test
  increments later without looking. `ReservedBound` adds those callers: a caller
  that passes the test saw a count below the limit, and every other caller can
  have reserved at most one place. `ContactsCounted` counts the callers between
  SADD and INCR likewise. `WarningsAccounted`: `NoWarningForgotten` is inductive
  beside the types, since a count is in the hands of its caller from the step
  that makes it. `KeepsPromise`: initial states and steps map to those of
  `DailyAdmission`.
* `WaProcessor_proofs`. `TypeCorrect`, with the types of sequences strengthened
  where `rest[d]` must not be empty. `OneDelivery`: a delivery acts on a message
  only after its SETNX won. The argument goes through what each action keeps:
  whoever acts holds a claim (`ClaimedByKey`), a claim keeps the key set until
  it lapses, and a set key refuses the next claim. Eight other theorems each
  have an invariant that relates the program counters to what a delivery has
  written:
  - `ArchiveIsBacked`: a delivery that is going to archive has sent its answer,
    and with no failure inserts the question first.
  - `SilenceExplained`: `SilenceInv` says that what is admitted is worked on
    past the limiter, or that an answer was sent, delivered or not; the one step
    after another has spoken is the notice to the advisor (`RefusalTold`).
  - `NoticeSentOnce`: per contact there is one right to the notice (`OneRight`).
    While its key lasts at most one delivery is about to send it or one notice
    was sent, never both, and then the key is set.
  - `QuotaKept`: every number that INCR returned on a day has at most one owner,
    a delivery or a reply (`NumbersOwned`), and who is answered holds one within
    the limit (`ServedWithin`). The replies counted therefore map one to one
    into `1..MaxMsgs`.
  - `HistoryStaysWhole`: `HistInv` says of the key, and of what a saver has read
    and not written, that it is a row of pairs. The cut falls between two pairs
    because the cap is even, which `HistoryAssumption` states and the code's
    constant is.
  - `NothingElseLosesTurns`: while a contact is undisturbed its savers read the
    history one at a time, so that what one has read is still what is stored
    (`ReadAlone`), and each answer is stored or in the hands of a saver
    (`Recorded`).
  - `OneAnswer`: up to its answer, no delivery has answered the message that a
    delivery works on, unless its key expired (`AnswerToCome`). No run checks
    it: it is proved only.
  - `KeepsReception`: initial states and steps map to those of `Reception`,
    under the premise `[](lapsed = {})`, that no key has expired. Without it the
    second post would be answered again. `DeliveriesGoForward`, an action
    property, is the safety behind `StallsOnlyAtGemini`: `CallsLeft` falls with
    every step of a delivery, within a message by its place and by nine with
    each message left behind, and nothing raises it.
* `Digest_proofs`. `TypeCorrect`. `NothingIsSkipped`: the invariant
  `NothingLeft` says of every runner, at each step, that a turn at or before the
  watermark it will write is mailed, excused or in its batch; `Truncate` only
  moves a watermark back. `OnlyRecentTurnsRepeat`, an action property:
  `RepeatInv` says that without failures or overlaps one runner is at work, that
  it reads from the stored watermark, which never moves back, and that what was
  mailed is behind the watermark or will be when its runner writes it.
  `WatermarkMovesOn`: `setLastSent` does not look at what is stored, and nothing
  keeps cron and the administrator apart. That the watermark never moves back
  has therefore the premise `RunsAlone`, that a digest starts when no other is
  at work; failures need none. `InOrder` says that the clock a runner has read
  is not behind the watermark.
* `Quotes_proofs`. Of `ConfigCache`: `CacheTypeCorrect`, and `LoadIsRecent`:
  `AllCurrent` says that every version read or cached was current when that
  configuration began to be read, since an edit is never earlier than the
  present; a slow refresh that replaces a newer cache brings its own, older
  `loadedAt`. Of `Quotes`: `UsesCache`: the steps of `Quotes` are steps of
  `ConfigCache`, which gives `QuotesLoadRecent`. `QuotesTypeCorrect`.
  `QuotesCounted`. `OvershootBounded`: the bound on the quotes is not inductive.
  `AdmittedBounded` counts the requests admitted and not counted yet, and needs
  `QuotaSeen` (no quota was ever above `top`) and `SnapshotSeen` (the row the
  one administrator has read is not ahead of the table). `DuplicatesAreFew`:
  `InsertsBounded` counts the inserts to come.
* `AdminChat_proofs`. `TypeCorrect`. `SessionsRaced`: two open sessions were
  opened by requests that found none at once. `CacheArchived`: `Backed` says
  what Redis and every copy on its way to it may hold. `MemoryIsKept` needs
  most: `Chronicle` relates the history variables that say what overlapped to
  the program counters, `Spoken` says what a request has in hand, `Steady` that
  while the conversation is whole at most one session holds it, and `Remembered`
  follows each finished exchange through key, rows and the histories of requests
  under way. The proof found the property false for four requests, which the
  instance of two could not show: two first questions at once split the
  conversation. `split` is the premise it lacked. `TurnsStoredOnce`: a turn is
  in one place of one session, and in none while a goroutine has it (`Single`).
  `RequestsGoForward`: the steps of a request are in the order of `Place`, so
  none is repeated. `ResetAloneForgets` is the other side of the run
  `admin_chat_reset`: `ResetForgets` does hold if no request is under way when
  `Reset` closes the sessions, none begins before it has deleted the keys, and
  neither its UPDATE nor its DEL fails (`ResetsAlone`), although goroutines may
  still store messages of before; `Fresh` says that what they store stays in a
  session nobody reads.
* `Accounts_proofs`. `AccountsTypes`. `LastWordsStand`: a request that is not
  blind has, column for column, the row it read. `CedulasHaveOneAccount` from
  the unique index and nothing else. `EmailsStayDistinct`: `EmailInv` says what
  a check of an e-mail still says when its request writes. The instance has one
  e-mail, the proof any number. `AccountsAreRecognised`: two rows have the same
  cedula only if a blind request wrote one of them (`CedulasDistinct`), because
  what a registration found is still so when it inserts (`CedulaChecked`); it is
  about cedulas of `Plain`, whatever else the administrator has stored.
  `LinksWorkOnce`: `LinkInv` says that a link is in one row at most
  (`OneRowPerLink`), that every link in a row was mailed (`LinksMailed`), so
  that a new one is nowhere, and that a used link is being cleared or is in no
  row that a blind request has not written (`SpentCleared`). All of it rests on
  two lemmas that give the shape of every action: it moves a request, or writes
  one row.
* `Catalogue_proofs`, of `Pricing`. The arithmetic first: what `Frac` makes of
  two numbers stands for their quotient because the divisor does divide both,
  which `CommonDivisor` asks of it, so that nothing has to be known of `gcd`, a
  recursion. Two orders are then compared by weights: `Below(p, q, x, y)` says
  that `p` times `x` is at most `q` times `y`. With ones it is the order of
  fractions. With the quantities of the other order it compares what one piece
  costs, without dividing. Sums, products and the larger of two keep it, so it
  goes from the geometry (`PartsBelow`) through the times, the cost, the
  material, the value of the work and its minima (`p <= q` is needed where an
  amount is spread over the pieces: setup, minimum value, minimum area) to both
  prices (`PricesBelow`), and rounding to hundredths keeps the order
  (`HundredthsOrder`). With more work the machine, the material and the setup
  never cost less whatever the branch (`HybridsBelow`). `PriceInv`, the
  inductive invariant, says that what is compared is what `Calculate` returns
  for two orders of one piece or more, the second beside the first. From it
  `MorePiecesAreNoDearer`, `MoreWorkIsNoCheaper` and `FloorIsKept`, for any
  configurations, drawings, quantities and additions of work. `ShopsAssumption`
  is what a shop enters and the seeds hold: no negative column, no discount
  above the price, positive base speeds. No handler refuses the contrary. A
  discount table with a gap would refute the first theorem, so that
  `UnitPriceNeverRises` has the premise `Graduated`: the brackets adjoin, the
  last is open and the discounts grow. The proof asked for it; the tables of the
  instance all satisfied it.
* `Catalogue_proofs`, of `Catalogue`. `CatalogueTypes`: whatever a handler
  inserts or saves is a row with the columns of its table. `EditsAreKept`: a
  request that is not blind holds the row as it is. `CostsFollowInputs`: so does
  the cost, in the table and in the rows that requests hold (`CostsKept`,
  `RowHeld`); a recalculation writes the cost of the inputs it has read, and a
  row whose inputs a form set apart is marked `loose`. `AnswersAreHonest`:
  `computePriceForQty` returns the lowest of the base price and the breaks
  reached, exactly, for any breaks and prices that make sense (`Sane`), and the
  notice of little stock is given at or below the alert; a negative stock is
  announced as little, as the code has it.
* `Telegram_proofs`. `CallsAreBounded` and `WorkAlwaysEnds`, from the places
  where rounds and attempts are counted. `AdvisorIsTold`: `Promise` says what
  has been tried at each step after the promise. `SilenceIsExplained`:
  `Claimants` relates the key to the goroutines that set it, `Answered` what
  each step that remains owes its chat. `KeepsReception`: initial states and
  steps map to those of `Reception`, with no premise: one goroutine has a
  message from its claim to its end. `ConversationsStayWhole`: savers of a chat
  may lose each other's exchange, but what one has read and what it writes is a
  row of whole exchanges (`Conversations`), because it cuts an even number of
  turns.
* `Quotes_proofs`, of `SvgEngine`. `RowsTellTotalsCorrect` holds of any file. A
  loop of the engine is a fold, which the library defines by a recursive
  function on sets of positions. What it has after each position exists because
  a least position without it would be a contradiction (`NoLeast`), and the sums
  of the rows and the totals are then compared position by position (`Tallied`).
  `AnalysisOf`, the inductive invariant, says that what is stored is what the
  engine makes of the file posted. `MovedDrawingsAgree` is of `SameMeasures` and
  `ExtentFollows` what can be proved: of a file and the same drawing moved
  (`Apart`), with any number of rectangles, circles, ellipses, lines, polylines
  and polygons and on any canvas, things that are not read among them. A shift
  in the units of the file that is whole in millimetres passes through the
  rounding (`ScaleMoves`); lengths keep because they are made of differences,
  the area of a polygon because what the shift adds to one triangle the others
  take away (`AreaMoves`), and rectangles and their unions move along
  (`UnionMoves`). `LoopsAlike` carries this through the loop over the elements,
  and `Retold` keeps the first analysis beside the second. The proof asked for
  the premise that something has an extent: the rectangle of a drawing without
  any stays at the origin.

Every safety property of the runs is a theorem, except `SameMeasures` and
`ExtentFollows` in general. Only model-checked are:

* All liveness (`StallsOnlyAtGemini`, `AnswersArchived`, `EventuallyMailed`,
  `EverythingArchived`, and the liveness half of `ImplementsDailyAdmission`),
  which with fairness is beyond the prover. Of the first the safety behind it is
  proved, as `DeliveriesGoForward`.
* `SameMeasures` and `ExtentFollows` for drawings written in another way and for
  paths. `Uploads` may be any files, and that two of them show one drawing is a
  property of the instance, whose spellings are enumerated. Curves are flattened
  by a recursion that a theorem about every curve would need an induction for,
  which the installed provers cannot instantiate.

## 5. What is left

The plan of the first version is done: accounts, the second channel with the
adapter and the settings, the drawings, the catalogue, and the proofs of every
component whose definitions the prover can reach. What would come next:

1. The WhatsApp processor over `GeminiAdapter`, as Telegram is, instead of over a
   single answer.

### Not modelled

* The public web chat: the history is the browser's and is posted with each
  question, the two inserts are made in sequence by one goroutine, its functions
  are queries, and its cached text has the discipline of `ContextProvider`.
  Nothing interleaves there that the other channels do not show.
* The customer's profile in the prompt: a text in Redis that expires; nothing
  depends on it but words.
* The identity check's format rules and its cache of a day: `Accounts` takes the
  three answers of the registry as inputs.
* The scanning of XML, the texts of prompts, mails and pages, the HTTP senders,
  whose outcomes are steps of the callers, the router's wiring, which decides
  only who may call a handler, and listings and other reads without state.
