# blive-queue in TLA+

blive-queue is a queue assistant for a bilibili live room. Viewers send the
danmu `排队` to join the line and `取消排队` to leave it; the host looks at the
line on a page that a small HTTP server on port 9000 serves and that reloads
itself every two seconds. This directory holds TLA+ models of the program, the
TLC configurations that check them, and theorems that TLAPS checks.

Line numbers refer to `src/source/`; `qlist.c`, `select.c`, `pri_queue.c`,
`hash.c` and `httpd.c` are in `src/source/utils/`.

## 1. The system

Three threads run for ever:

| thread | what it runs | what it touches |
|---|---|---|
| blive | `blive_perform` of the library blive-api-c, which calls `danmu_callback` for every danmu and schedules timers with `select_engine_schedule_add` | writes the socket pair `qlist_fd`, pushes events |
| engine | `select_engine_perform`: `select` over the watched descriptors, timers | reads `qlist_fd` in `liveroom_info_recv`, changes the waiting list, fires timers |
| main | start-up, then `http_perform` | adds a descriptor to the engine at start-up, walks the waiting list for every page |

        danmu --> blive thread --socket pair--> engine thread --> waiting list
                     |                            ^    ^              |
                     +------ timer events --------+    |              v
                             (pri_queue, pipe)     fds (hash)   main thread --> page

### Inventory

**Waiting list** (`qlist.c`). State: a ring of units (uid and viewer's data) in
order of weight, `elem_num`, the unit of the last search (`tmp_unit`), a mutex.
Operations: create, append-or-update, subtract, existence, foreach, destroy. Hard:
the mutex is taken after `foreach` has read `elem_num`, the callback runs under
it, the cached unit outlives calls and steers searches and appends, a refresh
changes a weight in place. Correct when: no viewer is in it twice, the count is
right, the cache never points to a freed unit and changes nothing but time, a
walk shows the ring of one instant, nobody overtakes, units are in order.

**Requests and page** (`callbacks.c`). State: the configuration, the socket
pair, the request the engine is about. Operations: parse and filter a danmu,
send it, receive and apply it, make the page. Hard: three threads, a socket pair
that fills up, errors that nobody looks at, and that the line a viewer sees is the
result of all of it. Correct when: requests are served in order, once; the last
word counts; who asks gets on the page; the filter and the priority of the fleet
are obeyed.

**Configuration** (`parse_config`, `main.c:70-152`). Read once at the start.
Correct when the rules in the file are the rules obeyed.

**Event engine** (`select.c`). State: the table of descriptors, the queue of
events, `running_flag` (a mutex used as a sign that the engine may be in
`select`), `manage_pipe`, `need_continue`, and the local state of the loop.
Operations: create, add a descriptor for ever or once, delete it, schedule an
event, perform, stop, destroy. Hard: everything is changed by other threads while
the engine is anywhere in its loop, and the table has no lock. Correct when: no
change is slept through; a timer fires once, and early only where its time was
computed wrongly; data are read; stop ends the loop; destroy destroys.

**Priority queue** (`pri_queue.c`). State: a binary heap, a mutex, a condition.
Operations: push, peek, pop (waiting, trying, timed), destroy. Correct when:
nothing is lost, the first is the most urgent, a full queue grows as it says, a
call that returns OK has a datum.

**Hash table** (`hash.c`). State: buckets that are chains of entries, a list of
removed entries that are used again. Operations: create, push, pop, peek, foreach,
destroy; a push may double the buckets. Used by the engine only. Hard: the callback
of a walk may push and pop. Correct when: it is a dictionary; every entry is in one
place; a walk meets every key once; destroy gives everything back.

**HTTP server** (`httpd.c`). State: the registered words and their callbacks, the
request buffer, the connection and the file being sent. Operations: create, register
a word, perform (accept, read, parse, send, shut down, for ever), destroy. Hard: one
`recv` is taken for a request and its buffer is cleared on one path only; a client
may say nothing or go away; descriptors are never closed; the texts change while a
page is sent. Correct when: a page is the file with its marked lines replaced, new
enough; a request is answered as asked; nobody waits for ever; nothing is used up.

**Start-up and shut-down** (`main.c`, `callbacks_init`). The creations in order, two
threads started on the way, results looked at or not. Correct when: nothing is used
before it is there, at the first start and at the next.

**Helpers** (`utils.h`): the macros of the ring, the socket pair for Windows.
**blive-api-c**, **cJSON**: a submodule whose directory is empty; external.
There are no tests.

The list of what can go wrong where is `hazards` in `PROJECT.json`.

## 2. The modules

| module | models | state and actions |
|---|---|---|
| `QList` | `qlist.c` | `list` is the ring from the front; a pointer is the uid of the unit it points to. A call holds the mutex throughout, except that `foreach` looks at `elem_num` before: so `Link`/`CountUp` and `Unlink`/`CountDown` cut a change of the ring from the change of the count, and `foreach` is `ForeachCall`, `ForeachLock`, a `ForeachVisit` per unit, `ForeachDone`. The outcomes of append-or-update are `Refresh`, `Link`, `Refuse`, `NoMemory`. |
| `LiveQueue` | `callbacks.c`, `parse_config`, with `QList` as an instance | `danmu_callback` (blive thread); `ReadInfo`, `IgnoreInfo`, `ApplyInfo`, `FinishInfo` (engine); `PageRequest`, `PageLock`, `PageRow`, `PageSent` (main). `wants` is a history of the last word of every viewer. |
| `WaitingLine` | nothing: what the program promises when the fleet has no priority | `Ask`, `Serve`, `Show`. `LiveQueue` implements it: `ImplementsLine`. |
| `Heap` | the heap of `pri_queue.c` as operators on sequences, without recursion: an element's path to the root is the set of its `Ancestors`, the least set that holds its place and the half of every place it holds; the path of a hole is `SinkPath` | |
| `PriQueue` | the operations of `pri_queue.c` on threads | one action per call; the waiting pops are cut where they wait |
| `PriQueueOrder` | `PriQueue` with a history, `shallow`: no element was pushed that had to rise above its parent's place since the heap was last empty | that the first is the most urgent, which holds as long as `shallow` |
| `SelectEngine` | `select.c`, `hash.c` as far as the engine sees it, with `Heap` for the events | `at` is the place in `select_engine_perform`, `pc[t]` how far thread `t` is in a change: `linking` (an entry of the table without its value), `timed` (the clock is read, the event not pushed), `changed`, `probing` (holds `running_flag` for its trylock), `telling` (about to write to the pipe), `undefined` (has pushed on a full queue). |
| `QListOrder` | `QList` with a history, `steady`: no refresh has changed a queued unit's weight since the ring was last empty | the order properties, which hold as long as `steady` |
| `QListLinks` | the ring's pointers: the macros of `utils.h` as `qlist.c` calls them | `node[n]` is the `prev` and `next` of unit `n`, or of the head, which belongs to no unit. A step of `QList` that links or unlinks a unit does what the macros do to `node` (`NodeLinked`, `NodeUnlinked`); no other step touches it. `RingIsLinked` says that `list` is what the pointers read, either way |
| `Hash` | `hash.c` | `array[i]` is the chain of bucket `i`, `free` the removed entries, `heap` the entries allocated. `hash_push` is `Replace` or `Insert`; `hash_foreach` is cut where its callback is called (`WalkMeets`, `CallbackReturns`), and the table may be called in between |
| `Dictionary` | nothing: what a table promises | `Push`, `Pop`, `Peek`, `Walk`, `Destroy`. `Hash` implements it: `ImplementsDictionary` |
| `Httpd` | `httpd.c` | `at` is the place in `http_perform` or `http_sendfile`; a step per `accept`, `recv`, `fopen`, line sent. `used` counts descriptors, `buffer` is what `strtok` would find, `client`, `request`, `received` are the other ends; `refused` is a history: the connection served last was sent nothing. No specification of its own |
| `Program` | `main` and `callbacks_init`, with `Httpd`; the blive and engine threads as far as the page sees them | one action per call of the start-up with its failure; `ListChanges`; `Expire` and `Restart` |
| `QListProofs`, `QListOrderProofs` | theorems about `QList`; about `QListOrder` and `QListLinks` | |
| `HeapProofs`, `PriQueueProofs`, `SelectEngineProofs` | lemmas about `Heap`, theorems about those that use it | |
| `ProgramProofs` | theorems about `Program` | |
| `HashProofs` | theorems about `Hash`, and that it implements `Dictionary` | |
| `LiveQueueProofs` | theorems about `LiveQueue`, and that it implements `WaitingLine` | |
| `MCQList`, `MCLiveQueue`, `MCPriQueue`, `MCSelectEngine`, `MCHash`, `MCProgram` | the values of the constants for TLC | |

Definitions whose comment begins with "Mutation" are plausible bugs. No
specification uses them; each is there to be put in the place of the definition
after it, to see that a property notices.

Choices a reader should know:

- *Heap.* `__heap_sort` of the code does not do what its comment says: its loop
  compares slots it has overwritten, so an element rises one level. `Settles`
  models the code. The operators were compared with the compiled
  `pri_queue.c` over some seventy thousand random operations and agreed on
  every heap.
- *The descriptor table* changes atomically, except that `hash_push` links a new
  entry with value NULL and then sets the value, which the engine's
  `hash_foreach` can see (it stops there). That a key's characters, a bucket and
  an expansion are also seen half-done is not modelled: main adds one
  descriptor, while the table is far from an expansion.
- *Order of descriptors.* `hash_foreach` meets descriptors in the order of their
  numbers (the hash of a key is the number, the table has 256 buckets), and
  `manage_fd` was created first.
- *Time* is in units of which `UsecPerSec` make a second, and the clock stands at
  `StartTime` when the engine is made. A small `UsecPerSec` and a start near the
  end of a second make the missing carry of `select_engine_schedule_add` show.
- *Keys.* The hash of a key is the key, as `__fd_poll_hash_func` has it for
  descriptors; `hashfunc_default` has no user.
- *What a walk of the table meets.* The history `followed` names the keys of which
  `MetOnce` speaks: those no callback has touched, as long as the buckets are not
  doubled and the entry that is to be met next is not removed. In the other cases
  the code does skip or repeat entries (see the end of section 3).
- *Requests* are four: `/` followed by a space, as every browser sends it; `/` at
  the very end of what was sent; another path; no path. One `recv` gives one of
  them whole. `Overwritten` says what it becomes over the leftovers of a refused
  one, when it ends in the path or before: then another path may appear.
- *Lines and texts* are records of what they are, the words they hold and, for a
  text, its version; `received` is the sequence of them a client got. The page is
  sent line by line and the list is read when its line's turn comes.
- *Descriptors.* `Descriptors` is what connections and files may take; what the
  other threads hold is fixed and left out. With none left `accept` gives -1 at
  once and the server turns in its loop, which the model does too.
- *A restart* finds `lingering`, the port held by connections this side has shut
  down first; it expires some day.
- *A user_info* is written and read whole.
- *Undefined behaviour.* A push on a full adaptive queue shrinks the heap's block
  below its contents (`PushFull`), and what follows is undefined. The models stop
  there: `InBlock` is a guard of every call in `PriQueue`, and of every step in
  `SelectEngine`, whose event queue is adaptive too (`select.c:93`). No property of
  these modules says anything of a queue after such a push.
- *Allocation failures* are modelled in `QList` (`NoMemory`) only.

## 3. The runs

All bounds are CONSTANTs of the .cfg files.

### Runs that pass

| run (cfg) | question | bounds |
|---|---|---|
| `MCQList` | Do the ring, its pointers either way, its count and its cache stay consistent when weights change between requests, with two writers and two walkers; and as long as none has changed, is it in order, is a newcomer linked behind his peers, is the cache transparent? | four viewers, three weights: every place of an append (front, middle, tail, refused) with a cache before, at and behind it |
| `MCLiveQueueLine` | Do the three threads implement a waiting line, and does everybody get on the page, and off it? | three viewers, one of whom never cancels, a socket pair that holds one request, so that it is full most of the time, both settings of the danmu rule |
| `MCLiveQueueFleet` | Is the line in order of level, and are the lists obeyed where the program reads them? | a viewer of each level and a second captain (so that an append is refused), one viewer on both lists, one blacklisted |
| `MCPriQueueSmall` | Do threads that push, pop and wait lose nothing, does nobody sleep over a datum, and is the first the most urgent as long as nothing had to rise more than one level? | room for five of six elements (an element pushed fourth or fifth has a grandparent), two equally urgent, two threads |
| `MCSelectEngineWake` | Is a change ever slept through? Is a timer early for any other reason than the missing carry, or by a second or more? | two descriptors, three events with delays of one or two; a pipe for one message, which fills up, and a queue for two events: one may be pushed ahead of another, and a third finds it full, where the model stops; no data, so that a descriptor is only added for ever: one added for once would stay as long (`MCSelectEngineLive` has data, and both ways of adding); a second of three units and a clock that starts at its last one: some events need the carry, and one does come early, and others do not |
| `MCSelectEngineLive` | Does each timer fire, once, are data read, does the engine stop? | one descriptor added or deleted, one datum, two events scheduled by main and the timers' own callbacks |
| `MCHash` | Is the table a dictionary, is every entry in one place, does a walk meet every key? | keys 1, 3 and 5 in 1, 2 and 4 buckets: all three collide until the second doubling, 1 and 5 after it too; the callbacks push and pop as they like |
| `MCProgram` | Are pages whole, requests told apart, descriptors accounted for, everything there before it is used, everybody answered? | two clients that send anything, hang up or say nothing; four descriptors, so that they run out, and not before three connections have been served, each of them after a page that was cut short, refused or sent whole; one change of the list; every call may fail; one restart |

Deadlock is checked where the system runs for ever. It is not checked for
`PriQueue` (each element is pushed once, and threads may wait for ever for
another; nothing follows a shrunk block), for `SelectEngine` (which ends, and
whose clock and events are bounded), for `Hash` (which is destroyed), nor for
`Program` (the server waits for ever for clients that need not come, and the
program may end).

Why the bounds suffice: the properties of the list are about pairs of units and
the one cached unit, so four viewers give a pair, the cached unit and a newcomer;
those of the engine are about one change against one pass of the loop, and two
changes of each kind (in `MCSelectEngineWake`) make the second meet whatever the
first has left behind. What no run meets is an entry without its value in the way of
the walk that dispatches (it takes data at one descriptor while main adds another);
the step is in the model (`MeetsHalfLinked`), and `NoWakeupIsLost` is proved with it.
A table's properties are about an entry, one that collides
with it and one that does not, before and after a doubling; a server that deals
with one connection at a time is disturbed by the one before and the one that
waits. In
the runs about liveness the pipe holds all the messages there can be: whether a
full pipe blocks is another question (see the end of this section).

### Runs that show a disagreement

| run (cfg) | property | what the counterexample shows |
|---|---|---|
| `MCQListRefused` | `NeverRefused` | a newcomer as heavy as the front unit, with a lighter unit at the tail, is dropped (`qlist.c:121`) |
| `MCLiveQueueBlacklist` | `BlacklistHolds` | with the shipped file nobody is filtered (`main.c:138`, `callbacks.c:46`) |
| `MCSelectEnginePopped` | `FiredIsPopped` | an event pushed during a callback is removed unfired (`select.c:263`) |
| `MCProgramLeak` | `KeepsRefreshing` | one browser's reloads use up the descriptors (four here) and the server crashes (`httpd.c:169`, `234`, `253`) |

Two of these properties appear on both sides, and the difference is the finding:
`BlacklistHolds` holds for a file written as the program reads it, `FiredIsPopped`
when all delays are equal and no time
passes between a thread's look at the clock and its push (`ClockWaits`; then a
later event never overtakes the one being fired).

### Disagreements that take no run

The models contain these as well; each shows when the formula is made the
property of a run:

- *The heap order breaks from four elements on* (`pri_queue.c:389` compares slots
  it has overwritten, so an element rises one level; the comment at `374` says it
  rises until it cannot): `FirstIsBest` without its premise `shallow`; pushing 2, 3, 4, 1
  leaves 2 at the root.
- *Refreshing breaks the order* (`qlist.c:188` overwrites the weight where the
  unit stands; `callbacks.c:91` says the weight is for sorting): `Sorted` without
  its premise `steady`.
- *A walk of the table skips or repeats keys* when a callback pushes a key that
  doubles the buckets, or pops the key that is met next (`hash.c:276` has read its
  address; `hash.h:103` promises every element): `MetOnce` with `followed` left
  as it is. A callback that pops and pushes a key of its own bucket can keep the
  walk going for ever.
- *A request may be answered with the wrong page*: `GET /` sent without anything
  behind it, over what a refused request has left, asks for a longer path, and a
  request without a path may be sent a page (`httpd.c:146-168`): `AnsweredAsAsked`
  without its second case. That case is as narrow as it can be: the request ends in
  the path or before, and the connection served just before was refused.
- *A program started again too soon runs with an unset handle*: SO_REUSEADDR is
  set after `bind` (`httpd.c:93`, `98`), and `main.c:172` does not look at the
  result: `at # "undefined"`. In the model nothing follows; in the
  program it is a read of an uninitialised variable.
- *A client that says nothing blocks everybody* (`httpd.c:147`): the formula of
  `EventuallyAnswered` without its premise `[]<> ~ Blocked`.
- *Timers may come early* (`select.c:185` adds microseconds without a carry, and
  `246-249` waits 0 when the difference of the seconds is negative though the
  microseconds make up for it): `at = "timer" => Due(event) <= now` with the
  constants of `MCSelectEngineWake`. `EarlyForWantOfCarry` says how far this goes.
- *An engine that has run refuses to be destroyed* (`select.c:276` sets
  `need_continue`, `306` refuses while it is set): `shutdown # "refused"`.
- *The engine may block on the pipe it alone empties* (`select.c:329`, when a
  callback schedules an event while another thread holds `running_flag` for its
  trylock; the comment at `257` says that no reload is needed then):
  `~ (pc[engine] = "telling" /\ Len(manage_pipe) = PipeSize)` with `PipeSize = 1`.
- *A full adaptive queue refuses, and its block shrinks below its contents*
  (`pri_queue.c:162`: bytes for pointers, and `max_size` stays): `InBlock` with
  the constants of `MCPriQueueSmall`, and that of `SelectEngine` with those of
  `MCSelectEngineWake`.
- *A pop that waited returns OK and stores nothing* (`pri_queue.c:229-235`
  against `pri_queue.h:71`): `[][PopReturns(t) => pdata'[t] # None]_vars`.
- *The test of the medal is inverted* (`callbacks.c:313`, `strcmp` is true of names
  that differ): left out with the colours of the page.

### Fairness

- `LiveQueue`: the engine's loop and the loop of the page never stop (main
  never gets past `http_perform`), so their steps are weakly fair; the page asks
  for itself again (`callbacks.c:201`). Taking the list's mutex is strongly fair
  (`ApplyInfo`, `PageLock`): a thread that keeps asking for a mutex which is free
  time and again gets it. Nothing is assumed of the viewers.
- `Program`: the main thread goes on as long as it can (`WF(MainStep)`); in
  `MCProgramLeak` the one browser reloads and asks again, as the script in the
  page makes it (`callbacks.c:201`). Of all other clients nothing is assumed, not
  even that who has connected ever sends something: that is why
  `EventuallyAnswered` has the premise that the server is not blocked for ever.
- `SelectEngine`: a thread that has begun a change goes on with it; the clock
  ticks; `running_flag` is given to the engine if it is free time and again
  (`SF(Lock)`); a write into a pipe that has room time and again goes through
  (`SF(Tell)`); `select` is not interrupted by signals for ever
  (`SF(SelectReadable)`, `SF(SelectTimeout)`). Nobody has to add, delete,
  schedule or stop anything, and no data need arrive.

## 4. What is proved

For every value of the constants that meets the named assumptions:

**`QListProofs`.** The invariant `IInv` is the conjunction of `TypeOK`,
`NoDuplicates`, `CountMatches`, `LockProtocol`, `CacheInRing` and `WalkSeesRing`.
None of them is inductive alone: that a search misses no queued unit needs the
count to be the ring's length (a search gives up after `elem_num` units) and the
cached unit to be in the ring; that the count is never negative needs the
search; that a walk sees one ring needs the mutex. The proof goes by the actions;
lemmas say what `InsertAt` and `RemoveAt` leave at each position and where
`qlist_append` may put a unit. Theorems: `TypeCorrect`, `NeverQueuedTwice`,
`CountIsRight`, `MutexIsHeld`, `CacheIsAlive`, `WalkIsSafe`, and the action property
`OrderIsStable` (nobody overtakes), for which a map of the old positions to the
new that rises is given for each action. `NobodyIsLeftOut`: a walk that ends has shown
the whole ring; it needs that the count is exact whenever a reader holds the mutex.
`MutexIsHeld` is proved and no longer checked as a property of a run: without the
mutex, `CountMatches` and `WalkSeesRing` fail, and they are. Assumption: weights are
natural numbers, and readers and writers are different threads.

**`QListOrderProofs`.** The invariant `OrderInv` adds to `IInv` that a steady ring is
in order (`InOrder`). The argument: in a ring in order there is at most one place
behind all who weigh as much or more and ahead of all lighter (`PlaceIsUnique`);
`qlist_append` finds it from either end of its walk, whichever unit is cached, and
refuses exactly if the newcomer has a single peer at the front and there are others
(`PlaceInOrder`, `NoPlace`: the defect the run `qlist_refused` shows). Hence
`CacheOnlySavesTime`, `FirstComeFirstServed`, and that a link keeps the order
(`RingIsSorted`). Same assumptions.

The module also proves `PointersAreRight`: the `next` and `prev` of the head and of the
units are the ring that `list` says, so that no freed unit is pointed to and none is
lost. By `LinkedInPlace`, each of the four calls of an append macro has
the two neighbours of the new unit's place as its ends, and between two neighbours
`LIST_APPEND_REAR` of the one and `LIST_APPEND_AHEAD` of the other do the same
(`AppendLinks`); what they do to the neighbours makes the ring of the longer list
(`LongerRing`), and what `LIST_SUBTRACT` does makes that of the shorter one
(`SubtractCuts`, `ShorterRing`). This needs that the nodes of a ring are apart
(`NodesApart`), hence that nobody is queued twice; and that `elem_num` is 0 just when the
ring is empty, and the cached unit in it, hence the whole of `IInv`.

**`SelectEngineProofs`.** `NoWakeupIsLost`: the engine never sleeps through a
change. The inductive invariant adds to the property what the protocol of
`running_flag` is (held by the engine from before it looks at the table until
`select` has returned; held by a thread that has just tried it; the engine's own
thread tries it in callbacks only), that an entry without a value is one that
main has just linked (so `hash_foreach` skips nothing but what is about to be
announced), and the same for the state between the look at the descriptors and
the look at the events. `TimersAreKept`: a timer comes early only where its
microseconds needed a carry, by less than a second. The invariant follows the
first event from the look at the queue to the callback (`Awaited`): the wait that
`select` was given reaches to the time the event is due, short of the carry, and
what the descriptors' callbacks change in between makes the engine look again
(`need_continue`). `TypesHold` comes of the same invariant; it says nothing of the queue
once a push has found it full. Assumptions: the
threads' names differ, times are natural numbers.

`FiredIsPoppedUnlessEarlier` and `FiredOnceUnlessEarlier` are about the look at the first
event and the pop after its callback (`select.c:228`, `263`), between which anybody may
schedule. Their hypothesis, `KeepsFirst`, is what the engine leaves to its users: in
between nobody pushes an event that is due earlier than the one it looked at (the run
`engine_popped` shows what happens otherwise). It asks nothing of the order of the heap: an
element that is not more urgent than the root does not replace it, whatever way it rises
(`RootStays`), so the event looked at stays first (`FirstInv`). That it is called once adds
that the ids of the events in the queue, in the hands of the threads and not yet given out
are all different (`OnceInv`). `SameDelayKeepsFirst` says when the hypothesis is met: if all
timers have the same delay and no time passes between a thread's look at the clock and its
push (`SameDelay`, the condition of the run `engine_live`), no event in the queue is later
than one scheduled now (`OrderInv`). `FiredEventIsPopped` and `FiredAtMostOnce` follow. TLC
checked these invariants on an instance before they were proved.

**`HeapProofs`, `PriQueueProofs`.** A sift, as the code does it, moves the elements of one
path by one place each and puts one element into the place left (`Rearranged`): what it
leaves is a rearrangement of what was there, though it does not sort. `PushHolds`,
`RemoveHolds` say so of the operations: nothing is lost, nothing doubled, and a removal
takes exactly one element. That the path of a hole ends at a largest slot goes by
well-founded `<`, that ancestors are a chain by the leastness of `Ancestors`. Hence
`NothingIsLost` (the heap holds just what was accepted and not yet given out, whatever the
comparison), with the invariant that the heap has no element twice and is that set
(`HoldsTheRest`), and `TypesHold`; `NobodyOversleeps` adds the threads that wait on the
condition.

Of the order of the heap (each element no more urgent than its parent, `Ordered`): a removal
keeps it (`PopOrdered`: the hole sinks along the more urgent children until the last element
may stand in it, and the sift that follows finds nothing to do), and a push keeps it just if the element has to rise by one level at most (`PushOrdered`, in both
directions). Hence `FirstIsTheBest`, since the root of a heap in order is as urgent as any
other element (`RootLeads`, by well-founded `<`), and `OrderEndsAtSteepPush`: a heap in order
gets out of order by a steep push, every time, and by nothing else. Assumptions: those of
`PriQueue`.

**`LiveQueueProofs`.** `TheLastWordCounts`. The invariant: of the last request about a
viewer that is still on its way (queued in the socket pair, or read and not yet done
with) it is his last word; if there is none, he is in line just if he wants to be
(`LastWord`). That a request is done as asked needs that it is never refused, that is
that all weights are equal (`EqualWeights`, without fleet priority); that nobody is in a
line closed to danmus (`ClosedIsEmpty`); and that a change half made is that of the
request at hand (`InHand`). The list's own lemmas are those of `QListProofs`, through an
instance. `ImplementsLineSafely`: the ring without a unit linked and not yet counted is
the line, the requests up to that count are the pending ones. The invariant adds that
such a unit is the ring's last (`LinkedLast`); that the page is a line of one instant
needs that the mutex is held from the first row to the last, and that a walk goes from
the front. `TypesHold` comes of the first invariant. Assumptions: uids are positive, the
socket pair holds at least one request, `None` is none of the other values; for the
refinement, that no config file gives the fleet priority and each says whether danmus
may queue.

`BlacklistedStayOut`: every request on its way and every unit of the line has passed the
filter (`FilterInv`; `RequestsFrom` and `UnitsFrom` say where requests and units come
from, whatever the step). The hypothesis `Readable` is that whoever is on a blacklist is
on the one the program looks at, as a number; of the whitelist nothing is assumed, since
an entry the program cannot read only lets fewer pass. The file as it is shipped is not
readable, and the run `live_blacklist` shows what follows. `FleetComesFirst`: with
priority for the fleet the weight of each unit is that of the level its viewer has
(`FleetInv`), so a refresh keeps weights if levels do not change (`SteadyLevels`), and the
list keeps its order by `OrderedOn` of `QListOrderProofs`. A viewer whose level does
change keeps the place of the old one (section 3).

**`ProgramProofs`.** `EveryDescriptorIsAccounted`: the descriptors in use are those
of the connections accepted and of the open file, and only connections that took
them all make the server crash; by an invariant that adds the types of the two
counters, with a step per action of the server. `ReadyBeforeServing`: a page is made
only by a program that has started to the end; the invariant (`StartOrder`) says for
every place of the start what is there by then, and which words are registered.
Assumption: there is room for the two words (`MAX_INJECTION_NUM >= 2`, it is 20).

`PagesAreWhole` and `EverybodyAnsweredAsAsked`, for files of any
length and any number of clients, by the invariant `PageInv`. Its parts need each
other: what has been sent is a prefix of the file in hand (`Sending`), which needs
that the words registered do not change while a page is sent (`StartOrder`), that
the texts only get newer (`Texts`), that a connection has one client, is queued
once, and only the one in hand is sent anything (`Ends`), that the buffer is clean
when the server waits unless the connection before was refused, and then holds no path,
and that what is parsed is the request that was read unless it ends in the path or
before (`Asked`). So `EverybodyAnsweredAsAsked` says who may be answered otherwise: such a
request after a refused connection, and nobody else. A restart empties the connections, so nothing is carried over
it (`NoneWhole`). `TypesHold` adds the ranges of the remaining variables.
Assumptions: those of `Httpd` and `Program` (a file has a line, words and clients
are not `None`).

**`HashProofs`.** For a table of any size over any finite set of keys, walks and their
callbacks included. The invariant has five parts, none of which stands alone. Every
bucket's chain has no repeats and holds keys of that bucket, and no two entries have the
same key (`InPlace`); that a doubling keeps this is arithmetic: the place of a key in the
doubled table is its old place or that plus the old size (`PlaceOf`). The chains and the
free list share out the allocated entries (`Stored`), so that a push may take an entry
from the free list. The count is the number of entries in chains (`Counted`). A walk has
met just what is ahead of the entry it meets next (`Walking`): this needs that an entry
stays where it is while others are pushed behind it and popped, and says nothing once the
buckets were doubled or that entry was removed. Hence `EntriesStayInPlace`,
`EverybodyMetOnce` and `TypesHold`. `TableIsDictionary`: mapped through the chains, every
step of the table is a step of `Dictionary` or changes nothing of it. Assumptions: keys
are finitely many natural numbers (a key is its hash), `None` is none of the values, keys
and walks, and the size asked for has a power of two that leaves a quarter of it free
(`SizeAssumption`, true of every number, but not to be proved without induction).

Only model-checked: all liveness (TLAPS has no support for it), that of `ImplementsLine`
included. Every invariant the passing runs check is stated by a theorem.

## 5. Not modelled

- A page that a client does not read (the write blocks as the read does), files that are
  missing, and the 20480 bytes a line and the text in its place must fit in.
- `qlist_destroy`, `http_destroy` and `pri_queue_destroy`: the first two have no
  caller, the third is reached from `select_engine_destroy` only, which refuses.
- `send_gift_callback` is an empty stub, so no gift reaches the line. The weights
  of gifts are in `QueueWeight` and never used.
- The colours of the rows, the rules for missed turns (nothing reads them), a configuration
  file that is missing or lacks members.
- Platform code (Windows sockets), logging, and the characters of names and
  pages.

## 6. Plan

In this order:

1. `SelectEngine`'s table as an instance of `Dictionary`; the pops and pushes of
   its own callbacks.
2. Gifts and wide uids in `LiveQueue`.
