# A verification project for the event socket library

The repository is a C client for FreeSWITCH's event socket: it connects to a
server, frames the byte stream into packets, turns packets into events, sends
commands and matches them with replies, and lets several threads share one
handle.  This directory holds TLA+ models of that code, what TLC finds out
about small instances of them, and proofs checked by TLAPS.  Every definition
is translated from the source; `PROJECT.json` ("map") names the lines each one
stands for.

Run from this directory:

    tlc -workers 2 -config EslHandle.cfg MCEslHandle
    tlapm EslStringProofs.tla

The proof modules are `EslPacketsProofs`, `EslStringProofs`, `EslBufferProofs`,
`EslReceiveProofs`, `EslHandleProofs`, `EslLifecycleProofs`, `EslSendProofs` and
`EslEventProofs`.

## 1. The system

| Component | State | Operations | Status |
|---|---|---|---|
| packet framing (`src/esl_buffer.c`) | none: scans of the unread bytes | `esl_buffer_packet_count`, `esl_buffer_read_packet` | modelled, proved |
| dynamic buffer (`src/esl_buffer.c`) | block, `head`, `used`, `actually_used`, `datalen`, `max_len`, `loops` | create, destroy, write, zwrite, read, read_packet, read_loop, toss, seek, set_loops, zero | modelled, proved |
| receive path (`src/esl.c`) | `packet_buf`, `connected`, `last_event`, `last_ievent` | `esl_recv_event`, `esl_recv_event_timed`, `handle_recv`, `esl_wait_sock` | modelled, proved |
| shared handle (`src/esl.c`, `src/esl_threadmutex.c`) | recursive mutex, `race_event`, `last_sr_event`, `sock`, `connected`, `destroyed` | `esl_send`, `esl_send_recv[_timed]`, `esl_recv_event[_timed]`, `esl_disconnect` | modelled, proved |
| lifecycle (`src/esl.c`) | `sock`, `connected`, `destroyed`, `mutex`, `packet_buf`; the process's descriptors | `esl_connect_timeout`, `esl_attach_handle`, `esl_disconnect` | modelled, proved |
| listening (`src/esl.c`) | listening and accepted sockets | `esl_listen`, `esl_listen_threaded` | modelled, with the lifecycle |
| sending (`src/esl.c`) | `connected`, the mutex, bytes in the socket | `esl_send`'s loops, `esl_execute`, `esl_sendmsg`, `esl_sendevent`, `esl_filter`, `esl_events` | modelled, proved |
| events (`src/esl_event.c`, reading in `src/esl.c`) | header list, `last_header`, arrays, body, id, subclass, flags | create, destroy, add, add at an index, delete, push, unshift, priority, body, dup, merge, serialize, JSON, the parser of plain events | modelled, proved |
| text (`src/esl.c`) | none | `esl_url_encode`, `esl_url_decode`, `esl_stristr`, upper and lower case, `esl_separate_string_string` | modelled, proved |
| configuration (`src/esl_config.c`) | line, section, category, lock | `esl_config_open_file`, `esl_config_next_pair`, `esl_config_get_cas_bits` | modelled, proved |
| threads, JSON wrapper, parson, logging, example | | | left out: wrappers of the platform, vendored code, output |

How they interact.  The application's thread calls `esl_recv_event`; that reads
packets out of the handle's buffer and, when there is none, bytes from the
socket into the buffer.  A packet's headers and its body become an event, an
event's body may contain an inner event.  `esl_send_recv_timed` sends a
command, receives under the handle's mutex until something arrives that is not
an event, and leaves the events it met in the race queue, where receivers that
ask for it (`check_q`) find them.  `esl_disconnect` closes the socket, clears
the handle under the mutex and then destroys the mutex.

What is hard:

* framing must not depend on how TCP cuts the stream, and the buffer's offsets
  must survive every mixture of reading, seeking, compaction and growth, with
  `realloc` failing half-way through;
* a receive call can fail between any two steps, and what it leaves behind is
  where the next call starts;
* a time limit races with the arrival of half a packet;
* the mutex is recursive and is released through a field that another thread
  clears;
* a command leaves in any number of pieces, in two loops, with the mutex or
  without it, over a socket that may be full or break;
* an event keeps a pointer to its last header by hand and the items of an array
  twice, as an array and as one string, and an allocation can fail in between;
* a requester gives the mutex up while its reply is outstanding;
* descriptors are numbers that the process uses again at once: whoever closes
  one twice, or forgets that a handle holds one, hits or loses a stranger's.

`PROJECT.json` ("hazards") lists these and the others, each at its line.

## 2. The modules

`EslPackets` is a library of pure operators.  `EslBuffer` extends it with the
buffer's state; `ByteTape` is the abstract specification of the buffer, and
`MCEslBuffer` instantiates it with the refinement mapping.  `EslReceive`
extends `EslPackets` and uses of the buffer only what `ByteTape` promises: the
sequence of unread bytes.  `EslHandle` in turn uses of the receive path only
what `EslReceive` shows: packets, in the order in which they were sent.
`EslSend` opens the step in which `EslHandle` sends a command.  `EslText` and
`EslConfig` are libraries like `EslPackets`.  `MCEslPackets`, `MCEslText` and
`MCEslConfig` state what the three promise of a text or a file `s`, so that the
proofs can use them; `MCEslStrings` lets `s` grow, one symbol at a time.
`EslEvent` uses the separation of strings of `EslText`.
Definitions named *Bug:* in their comment are faulty variants of the definition
behind them; no run uses them, each shows that a property notices the fault.

### EslPackets

A packet is a header block that ends with an empty line, `\n\n` or `\n\r\n`.
`FirstPacketLen` says declaratively what `esl_buffer_read_packet` looks for,
`ScanLoop` and `CountLoop` are the two loops of the code as recursive functions
over positions.  `From(s, p)` is what is left of `s` at `p`.  Only NUL, LF, CR and "another byte" are told apart because the
code compares with nothing else.

### EslBuffer and ByteTape

`buf` is `struct esl_buffer`; pointers are offsets into `buf.data`, one cell
per byte, and cells that `realloc` added are `Junk` until written.  One action
per public call; `Written`, `Advanced`, `Sought`... are the calls as functions,
because zwrite, read_loop and read_packet are compositions of others in the
code too.  Allocation may fail at every place where the code allocates.
`out` is the last call's result and the bytes it delivered.

`ByteTape` is what a caller may rely on: a tape of written bytes and a
position.  A write appends or is refused as a whole, no unread byte is lost or
reordered (zwrite is the exception the code makes), consumed bytes may be
forgotten by any write.  The tape tells what the header file does not: a looping
read that gets past the end delivers both parts and returns the length of the second
one (a fact of section 4).  The mapping is `tape <- SubSeq(buf.data, 1,
buf.actually_used)`, `pos <- buf.head`.

### EslReceive

One receiver, one connection.  A header line is one token, line feeds and body
bytes are tokens of their own, so a header block and a body can be cut at every
place where it matters.  The steps are the places where the code waits or can
fail: `Enter` (the entry checks), the poll of the timed call, `ReadPacket`,
`ParseHeaders`, `ReadBody`, and `Recv`, which takes any number of the tokens
that have arrived and stores them or is refused by `max_len`.  `Recognised`
models how a header's name is found, including what a stray line end in front
of it does.

### EslHandle

Several threads, one handle.  What travels are packets as `EslReceive` decodes
them.  A step is what a thread does between two places where another thread
can interfere: taking the mutex, giving it up, and reading or writing a field
without holding it.  `owner` and `depth` are the recursive mutex, `mutexSet` is
`handle->mutex # NULL`: `Unlock` does nothing once it is false, which is what
`esl_mutex_unlock` does with a null pointer.  `freed` is set when
`pthread_mutex_destroy` succeeded, and threads that still wait then wait
forever.  The labels of `pc` begin with `sr_` inside `esl_send_recv`, `re_` in
`esl_recv_event`, `rt_` in `esl_recv_event_timed` and `d_` in `esl_disconnect`.

`EventTypes` says which packets one event of the server becomes.  `<<"event">>`
is an event without a body whose content type is not its first header;
`<<"event", "none">>` is an event as FreeSWITCH sends it, content length first:
the first header of every packet but the first is lost (finding 1 below), its
body becomes a packet of its own.

A request with a time limit is one more level: `esl_recv_event_timed` tries the
mutex that its caller holds (`SrPoll`), looks at the handle again (`SrTried`) and
locks it a third time.  Before that it polls the socket if the packet buffer is
empty.  Once a packet was read, a line feed of it stays in the buffer, so that it is
empty only behind a body whose last byte has not arrived: `left` says whether there
is a byte although there is no packet, `Read` leaves it open, and `EmptyBuffer` is
when a timed call polls and may end with `ESL_BREAK` or with the connection given up
(`SrPoll`, `RtPoll`).  `late` is a history variable: a request has ended so, and its
reply is still to come.

### EslSend

How a command gets to the socket.  `Command(r)` is the text that a call builds
from what it was given: `esl_execute` out of four arrays of fixed size, each
checked, `esl_filter` and `esl_events` in one, `esl_sendmsg` and `esl_sendevent`
in an allocated string.  A text is a sequence of characters in which a word that
never changes counts as one, and the sizes of the arrays are scaled with it.
`part` and `sent` are which of the two loops of `esl_send` a thread is in and its
`sent_total`.  `Taken` is one `send` that takes any positive part of the rest,
`Full` is `EAGAIN`, `Writable` and `WaitFails` are the two ways out of the poll
that follows.  There is no `EAGAIN` on a socket that is `blocking`, which the one
that `esl_connect_timeout` makes is, with a time limit or without
(`src/esl.c:949-955`, `998`): `Taken` waits for room there.  `prepare_sock` makes
accepted sockets non-blocking (`src/esl.c:663`).  A call with the mutex then waits
for its reply, which ends in success, at its time limit (`BREAK`) or with the
connection given up; behind an event it gives the mutex up for a moment (`Window`,
`LockAgain`, `CheckAgain`).  `wire` records every byte that the socket took, with the call it
comes from and its place in that call's command.

### EslText and EslConfig

Pure operators.  `EslText` works on numbers of bytes.  `UrlEncoded` is what a
loop without limit would have written after each byte, and stops at the first
byte that no longer fits; `Stristr` compares as far as the letters agree and starts
again one place further; `Separated` is a recursion over the places left in the
array.  All recursion is by recursive functions, since nothing can be proved in a
module with `RECURSIVE` operators.  `EslConfig` reads files
whose lines are records of a kind and a name (`Taken` is one turn of the loop
of `esl_config_next_pair`, `NextPair` all of it); `Readings` is what a caller gets
who goes on while the result is one of `more`, `OpenedShared` the search of
`esl_config_open_file` for the section that the reader is locked to.  What the
reader does to the characters of one line is `Pair`.

### EslEvent

An event and a second one, `copy`, which is a duplicate of the first or is made
like it (`CreateOther`), and may be merged into it.  `last` is the place of `last_header` in the
list.  `Added` is `esl_event_base_add_header` for a plain name, `AddedAt` for
`name[index]`; they return the event they leave and whether they report success,
with `Fault` saying which allocation fails on the way.  The stack argument is
tested the way the code tests it: `ESL_STACK_TOP`, `PUSH` and `UNSHIFT` are the
numbers 1, 2 and 3 and are taken for flags, so that `HasTop` is true of `UNSHIFT`.
A string is a sequence of pieces of seven characters, the length of `ARRAY::`,
because the code compares and skips that many bytes; the separator is a piece,
too.  An array that is handed over is pushed one element at a time, and each may
be an array again: `Turn` is one element, `Enough` the number of turns that are
certainly enough.  `Duplicate`, `Merged`, `Json` with `FromJson` and `Plain` with
`FromPlain` make events from events.  The first failure ends all of these but
`Merged`, which goes on with the next element (`EachPushed`) and the next header.
A name of an event is found in any case and with or without a prefix of thirteen
characters (`Names`), whatever the prefix says.

`Shows` is what the functions that read an event tell of it.  `CopiesAreFaithful`
says that the three kinds of copies show what the event showed, for events that
are `Regular` and whose headers `Event-Subclass` and `Event-Name` say what the
fields `subclass` and `id` say (`SaysItsSubclass`, `SaysItsName`), and through JSON
for those without a header that is called `_body` in any spelling
(`NoBodyMember`); the facts of
section 4 tell how each of these conditions fails and what becomes of a copy then.
`CopiesSettle`, which is `DuplicatesSettle` and `FormsSettle`, is about all other events, too: whatever a
copy has made of one, the copy of the copy leaves it so.  They ask only that no
header has the name of the body (`NoBodyHeader`; `NoBodyMember` for JSON) and, for
duplicates, that `Event-Subclass` is spelled like this (`SpellsItsSubclass`).

### EslLifecycle

Several handles, each used by one thread, a listening loop, the application's
own files, and one table of descriptors that they all share: `socket()` and
`accept()` return the lowest free number.  `owner` records for whom a number
was opened, which the code cannot see; `strays` collects the owners whose
descriptor somebody else closed.  A step is what a thread does between two
places where the code waits for the network.

`handle[h]` holds the fields that decide what a later call does.  New handles
hold `InitialSock`: zeroed memory, as in the example client, or
`ESL_SOCK_INVALID`.  `Disconnected(h, s)` is `esl_disconnect` on a handle in
state `s`; every call that fails ends with it, in the state in which it failed.
`esl_connect_timeout` is split at its failures: before the mutex, before the
socket, without the socket, and after it (`ConnectFails`, at each of three
places where it waits).  `inbox` and `session` are the server's half of the
dialogue: `+OK accepted` in `inbox` and `session = "accepted"` go together only
if the client reads packets in order and of its own connection.

The caller is assumed to connect a handle that is new or was disconnected, to
disconnect after a call that failed, and not to close a socket that it gave
away: what the example client does and what the signature of the listening
callback asks for.  `MayReattach` says whether a disconnected handle may be
attached.

## 3. The runs

| Run | Bounds | Shows |
|---|---|---|
| `strings` | sequences up to 7 bytes (packets), 5 bytes (URL coding), 7 letters (search), 5 lines with 2 section names (files), 6 characters (lines and CAS bits) | Seven bytes hold two packets with CR LF terminators and something in front; five lines hold two sections of one name with a pair in each; every delimiter, escape, comment and arrow fits into the others. The state graph contains every sequence and every extension of it by one symbol. `LoopsAgree`: the two framing loops compute what they should. `ReadsEveryPacket`: a reader gets every packet that was counted, and how many spurious ones the unread LF can add. `ChunkIndependent`: more bytes never change the first packet. `EncodesPrefix`, `ValueSurvives`: every size of the output buffer. `FindsFirst`, `Rejoins`: searching and splitting. `LockedToItsSection`, `NothingBehindEnd`, `PairIsClean`, `CasBitsAreBinary`: the configuration reader. |
| `buffer` | block of 2, blocksize 3, `max_len` none or 3, `SIZE_MAX` 6, writes of 0 to 2 bytes, requests 0, 1, 4 | Small enough that compaction, growth, the refusals by `max_len` and by `SIZE_MAX`, and every wrap of a looping read happen, in every order. Includes the refinement of `ByteTape`. |
| `receive` | 2 messages out of 5 kinds, 3 calls, socket buffer 6, packet buffer 8 tokens | Messages with and without body, an event with an inner event, a disconnect notice and a malformed length, cut everywhere, with the buffer limit and the header limit reached. |
| `handle` | 2 threads, 2 calls each of any kind, with and without a time limit, 2 events that turn into two packets each (`MCEventWithBody`), the server may close | Lock nesting, order and conservation of events, and what is left after a disconnect with calls in progress. |
| `replies` | 2 threads, 3 requests each with or without a time limit, no events; the server may close | Three requests are one that leaves the buffer empty, one that gives up and one behind it. Replies are matched until a request has given up, and requests return. |
| `lifecycle` | 2 handles, 3 descriptors, 3 calls for each handle, handles start with `ESL_SOCK_INVALID` | With three descriptors a closed number is taken by the other handle, the loop or the application at once, and there is none left for a third; three calls are connect, disconnect, connect, or attach, disconnect, disconnect. |
| `send` | 2 threads, 2 calls out of 8 with arguments that just fit and just do not, room for 2 bytes in the socket, which blocks or does not | Commands with and without their blank line, those with the mutex longer than the room in the socket, so that each is cut everywhere and stops half-way; an `esl_execute` that just fits and one that is too long for each of the arrays. |
| `event` | 4 calls, 2 names, 3 values, one of them an array, indices 0 and 1, 2 subclasses | Creating an event and three more calls: a header is made, becomes an array and is copied, an array is parted from its value and then copied, an event of another subclass is made and merged. The names are `event-subclass` and `_Body`, spellings of names that the copying code treats apart. All faults at every call. |
| `receive_bodies`, `reply_window`, `disconnect_leak`, `lifecycle_zero` | as small as the behaviour allows | Each finds a behaviour that a comment or document of the repository excludes; see the findings. |

All runs but `buffer` have `CHECK_DEADLOCK FALSE`: their bounded environments run
out of bytes, messages or calls, and in the handle a leaked mutex really stops a
thread.

Symmetry of threads is used in `handle` and of handles in the two runs of the
lifecycle, which check invariants only.  `event` has a `VIEW` that leaves out the
record of the last call; only action properties look at it, at the steps
themselves.

`TypeOK` of `EslBuffer`, `EslHandle`, `EslReceive` and `EslLifecycle` and `Typed`
of `EslSendProofs` are parts of what is proved (section 5) and not checked again
by the runs.

**Fairness.**  `EslReceive` assumes weak fairness of the receiver's own steps: a
thread inside a call is scheduled, and `poll` returns when there is data, an
error or its time is over.  `EslHandle` assumes the same of every thread inside
a call, and that the server answers the commands it has received while the
connection is open.  Nobody is assumed to make a call, to send an event or to
close.  `EslSend` assumes only that a thread inside `esl_send` is scheduled, and
that its poll ends, at the latest after the second that the code gives it; the
server need never read.  On a blocking socket there is nothing to schedule while
`send` waits: `SendReturns` says there only that the call returns if the server goes
on reading or the connection is lost.
A mutex that is free infinitely often may be missed by a thread under
these assumptions; the number of calls is bounded, so that it does not matter.

## 4. Findings

1. **A line feed of every packet's terminator stays unread**
   (`src/esl_buffer.c:268`, run `receive_bodies`).  Bodies begin with a line
   feed and lack their last byte; the first header of every later packet is not
   recognised, because its name begins with the line feed.
2. **Replies can be swapped** between two requesters when an event arrives
   (`src/esl.c:1694`, run `reply_window`).  Without events they cannot, until a
   request gives up at its time limit (run `replies`).
3. **`esl_disconnect` can wait forever** for a receiver that can no longer
   unlock (`src/esl.c:1118`, run `disconnect_leak`).  The receiver was waiting for
   the mutex when the handle was cleared.
4. **A failed connection attempt closes descriptor 0** when the handle started
   as zeroed memory (`src/esl.c:1084`, run `lifecycle_zero`).  With
   `ESL_SOCK_INVALID` it cannot happen, which is proved.

More facts are in the models without a run of their own.

* A request that gives up at its time limit leaves its reply to the next one
  (`src/esl.c:1163`).  It can give up when the last byte of the body before it was
  missing: then the buffer is empty, and the socket is polled.  `ESL_BREAK` keeps the
  connection, and nothing remembers that a reply is to come.  One thread is enough,
  and no event: with `Ops <- MCTimed` and three calls, `ReplyMatches` of `EslHandle`
  fails, the third request being given the reply to the second.
* A looping read that gets past the end returns less than it delivers
  (`src/esl_buffer.c:179`): the length of its first part is overwritten, while
  `include/esl/esl_buffer.h:94` promises the amount of data actually read.
  `ReadReturnsLength` of `MCEslBuffer`, as an invariant of the run `buffer`, fails
  after a write of one byte and a read of four, which delivers it twice and returns 1.
* The time limit of a receive call is seldom applied after the first packet
  (`src/esl.c:1150`): because of 1 the buffer is empty only behind a body whose last
  byte is missing, and the call otherwise reads without limit instead of polling.
* A thread that waits in `esl_recv_event` holds the mutex (`src/esl.c:1226`): a
  request, a timed one included, waits for it until the next packet.  The run
  `replies` has requests only.
* Of two threads in `esl_disconnect`, one can wait forever, too: it looked at
  `destroyed` before the other one set it, and waits for a mutex that the other one
  destroys (`src/esl.c:1120`).  Two threads with `Ops` `{"disconnect"}` show it.
* A send on the socket of `esl_connect_timeout` blocks as long as the server does not
  read, with the mutex held in `esl_send_recv` (`src/esl.c:1572`): the second that
  `esl_wait_sock` gives it applies to accepted sockets only.
* Because of 1 the body of an event is a packet without content type, which
  `esl_send_recv_timed` takes for the reply (`src/esl.c:1679`): give
  `EventTypes` of `EslHandle` the value `MCEventWithBody` of `MCEslHandle` and
  `ReplyMatches` fails with one thread.
* A disconnected handle that is attached again cannot be disconnected
  (`src/esl.c:1080`): `destroyed` is reset by connecting only.  With `MayReattach
  = TRUE`, `NoOrphans` of `EslLifecycle` fails.
* A signal during `poll` ends the connection (`src/esl.c:853`;
  `PollInterrupted` and `RecvInterrupted` of `EslReceive`).
* Two threads in `esl_send` without the mutex mix their commands
  (`src/esl.c:1550`); `CommandsWhole` speaks of the others.
* `esl_sendmsg` cuts its event when the uuid is longer than what it reserves
  (`src/esl.c:577`); `SaysAll` makes that exception.
* `ESL_STACK_TOP` on a header that exists overwrites its value and leaves its
  array (`src/esl_event.c:575`): a copy then shows the array again.  A second
  `esl_event_set_priority` does so to the header `priority`, and the field
  `priority` is not duplicated.  `UNSHIFT` on a header that exists appends.
* An element replaced by its index is not in the header's value until something
  is pushed (`src/esl_event.c:588`).
* Copies drop empty headers and the empty elements that an array begins with.
* Merging adds the other event's `Event-Name` and `Event-Subclass` to the headers
  and leaves the fields `event_id` and `subclass_name` (`src/esl_event.c:930`), and
  both headers can be deleted and changed like any other: a serialized event is
  then read back as an event of another kind, or not at all, and a duplicate loses
  the header that says something else than the field.
* A duplicate leaves out headers named `Event-Subclass` in just this spelling
  (`src/esl_event.c:969`), while all other searches ignore case: with
  `event-subclass` in its place, the duplicate pushes the elements onto the header
  that it has made itself, and the duplicate of the duplicate loses them.
* The name `_body` means the body only without an index: `_body[0]` makes a header
  of that name (`src/esl_event.c:557`), and a copy takes it for the body.  So does an
  add under another spelling, since the name is compared with its case there
  (`src/esl_event.c:552`) and without it when JSON is read (`src/esl_event.c:1240`):
  a header `_Body` comes back as the body.
* Serializing encodes into three times the length plus one, and a value whose
  characters are all escaped loses the last one (`src/esl.c:312`).
* In a configuration file, a line that is no assignment spoils an `__END__` or the
  end of a section that follows: the result is -1 and not 0
  (`src/esl_config.c:198`), and a caller that goes on gets what is behind.

## 5. Proofs

A run shows a property of a small instance; a theorem shows it for every value of
the constants, under the assumptions that the modules state (`ASSUME`) and those
that the theorem itself names.

| Module | Theorems | Properties of the runs |
|---|---|---|
| `EslStringProofs` (with `EslPacketsProofs`) | `LoopsAlwaysAgree`, `ReaderMissesNone`, `FramingIsStable` | `LoopsAgree`, `ReadsEveryPacket`, `ChunkIndependent` |
| | `NoEscapeIsCut`, `OneByteMayBeLost`, `SearchIgnoresCase`, `AnyDelimiter`, `NothingIsLost` | `EncodesPrefix`, `ValueSurvives`, `FindsFirst`, `Rejoins` |
| | `NothingReadBehindEnd`, `LockKeepsToSection`, `PairsAreClean`, `CasBitsBinary` | `NothingBehindEnd`, `LockedToItsSection`, `PairIsClean`, `CasBitsAreBinary` |
| `EslBufferProofs` | `BufferSafety`, `WrittenOnly`, `NothingInvented`, `ImplementsTape`, `FreespaceIsHonest`, `FootprintHolds` | `Bounds`, `Initialised`, `DeliversWritten`, `TapeSpec`, `FreespaceHonest`, `Footprint` |
| `EslReceiveProofs` | `ReceivesTheStream`, `InnerBelongs`, `NothingAfterFailure` | `DecodesStream`, `InnerIsCurrent`, `FailureIsFinal` |
| `EslHandleProofs` | `LocksNest`, `OneReader`, `PacketToShow`, `EventsKept`, `OwnReply` | `LockBalanced`, `ReaderAlone`, `SuccessHasPacket`, `EventsInOrder`, `RepliesMatchInTime` |
| `EslLifecycleProofs` | `NoStrays`, `SocketsKept`, `OwnSocket`, `AuthenticatedOnly` | `ClosesOwnOnly`, `NoOrphans`, `ConnectedOwnsSocket`, `Authenticated` |
| `EslSendProofs` | `InOrder`, `Unmixed`, `NothingCutOff` | `BytesInOrder`, `CommandsWhole`, `SaysAll` |
| `EslEventProofs` | `EventsInOrder`, `CallsSpareOthers`, `PushesKeepItems`, `ValuesFollowArrays`, `CopiesFaithful`, `DuplicatesSettled` | `OthersUntouched`, `PushKeepsItems`, `ValueFollowsArray`, `CopiesAreFaithful`, the first half of `CopiesSettle` |

### Recursion

The loops of the code are recursive functions in the models, and the induction
theorems of the library cannot be used: they take a predicate as an operator.
`EslPacketsProofs` proves once that a set of naturals that is not empty has a
least element (`LeastNatural`) and that a set `G` of places that contains each
place behind which all places are in `G` contains them all (`FromTheEnd`), and the
mirror images (`FromTheStart`, `Inductive`).  What a loop computes is then shown
with `G` the set of places at which it is right.

A recursive function is a `CHOOSE` of something that satisfies its equation, and
says nothing as long as it is not known that there is such a function.  `ReadsBy`,
`DecodedBy` and their like show that there is one, from the end of the text to
its start: `Downward` and `Upward` do it for every recursion that looks only ahead,
or only back, and `Iterates` for the common case of a function that is applied
again and again.

### Packet framing

`FirstByte` is the heart: what the first byte of a text says of its first packet,
in terms of the rest.  With it the scan is right at a place when it is right
behind it (`ScanFinds`), and likewise the count (`CountIsReads`).  `LoopsAlwaysAgree`
and `ReaderMissesNone` speak of every `s \in Seq(Byte)`.  The bounds of the second
(`ReaderBounds`) compare, for every place, the packets that the two readers get from
there; and because the one that leaves a line feed behind is one byte behind the
other after each packet, also from a line feed and from the place after it, where
the lead is at most the one packet that nobody sent.
`FramingIsStable` assumes of the behaviour only that `s` grows at its end, by any
number of bytes.

### The buffer

`BufferSafety`: `TypeOK`, `Bounds`, `Initialised` and `DeliversWritten` are invariants of
`EslBuffer` for every start length, block size, `max_len`, `SIZE_MAX` and set of byte
strings written; `WrittenOnly` and `NothingInvented` are two parts of it.

The assumptions are those of `EslPackets` and `EslBuffer`: NUL, LF and CR are
different bytes, `Junk` is no byte, start length and block size are positive
(`esl_buffer_create` replaces 0), and sizes are at most `SIZE_MAX`.

The argument.  `Bounds` alone is not inductive: that a copy stays inside the
block needs the types of the offsets, and that delivered bytes were written
needs that all bytes in front of `actually_used` were.  The conjunction of the
four is.  `WellFormed(b)` states it of an arbitrary buffer, so that each call is
treated once, as a function (`AdvancedWellFormed`, `MovedWellFormed`,
`WrittenWellFormed`), and the composed calls follow by composition.  The heart
is `CompactedWellFormed`: after compaction either the tail of the block has
room or the unread bytes are at the front, which is why growth may reset `head`
without moving anything.

`ImplementsTape`: `EslBuffer` refines `ByteTape` under the mapping of section 2.
Each call maps to the call of the same name of the tape, one lemma for each;
compaction and growth, and a write that fails after it has compacted, only
forget consumed bytes, which the tape allows.  Beyond `WellFormed` it needs only
`Idle`: a buffer that is not there is a fresh one.

`FreespaceIsHonest` follows from `WellFormed`.  `Footprint` needs what the size of the
block can be between two writes: `Contained` bounds it by the larger of the
first block and one growth from just below `max_len` (`Ceiling`).

### The receive path

`ReceivesTheStream`, `InnerBelongs` and `NothingAfterFailure` hold for every set of
messages, way of cutting the stream, limit of the buffer and of a packet's
headers, and sequence of calls.  `StreamAssumption` asks that header lines are not
line ends, that limits are positive and that a length is a number or malformed.

`DecodesStream` compares what was delivered with a decoder of the whole stream, which
is recursive and knows nothing of calls.  The inductive invariant says where the
receiver is in the stream: `Position` is the number of tokens consumed, less the
packet that it is working on.

* `Buffered`: while connected, the buffer is what has arrived from `Consumed` on;
* `Building`: the packet in progress is the one the decoder finds at `Position`, and
  the body that it waits for has the length the decoder expects;
* `Chained`: there are places `c[0] = 0, c[1], ...` in the stream, each the end of the
  event that begins at the one before, which the delivered events follow and
  which end at `Position`;
* `Lost`, `Forgotten`, `Current`, `Typed`: an unconnected handle is not receiving, and
  the inner event is cleared before anything can set it.

`ChainStays` says that a chain remains one when the stream grows, because a packet
that is complete keeps its length (`PacketStays`, the fact behind
`ChunkIndependent`); `ChainGrows` that it takes one more event; `ChainDecodes` that a chain is what the decoder gives.

### Lifecycle

`EslLifecycleProofs` proves three theorems about `EslLifecycle`, for every number
of handles and descriptors and of calls.

* `NoStrays`: if `InitialSock = INVALID`, then `ClosesOwnOnly` is an invariant,
  reattached handles included.  The inductive invariant `Owning` says of every
  socket that a call or the loop may still close that it was opened for it:
  the `sock` of a handle that is not destroyed, the `client_sock` of a callback
  that has not made a call, the listening socket.  `ClosesOwnOnly` says only
  that nothing went wrong so far; who owns the sockets is why nothing will.
* `SocketsKept`: if moreover `~MayReattach`, then `NoOrphans` and
  `ConnectedOwnsSocket` are invariants; `OwnSocket` is the second alone.  `Keeping` adds
  to `Owning` the converse for every handle, in the middle of calls too: whatever
  it owns is in its `sock`, and it is not destroyed, or is its callback's socket.
* `AuthenticatedOnly`: `Authenticated` is an invariant without any assumption.
  The invariant `Verified` says that `+OK accepted` is in a handle's `inbox`
  only when its server has accepted (`Truthful`), and which sessions each place
  of the dialogue allows (`Consistent`).

`OwningDisconnected`, `KeepingDisconnected` and `VerifiedQuiet` treat
`esl_disconnect` once for all the calls that end with it.  The assumptions on
`InitialSock` and `MayReattach` are necessary: the run `lifecycle_zero` and the
third fact of section 4 show what happens without them.

### The shared handle

`EslHandleProofs` first proves three theorems about `EslHandle`, for every number of
threads, calls and events, every list of packets that an event turns into, and
whatever calls the threads make, `esl_disconnect` included.

* `LocksNest`: `LockBalanced` is an invariant.
* `OneReader`: `ReaderAlone` is an invariant, also while a handle is cleared and
  after it.
* `PacketToShow`: `SuccessHasPacket` is an invariant.

None of the three is inductive, and they need each other: `LockBalanced` says
nothing once the handle is destroyed, but a thread that was reading then must
still be known to own the mutex.  `IInv` therefore keeps two facts about the
mutex.  `Nesting` counts, as long as the handle knows its mutex.  `Holding` only
says who the owner is, and outlives a disconnect; its exception is a request that
looked the mutex up in the window of `esl_send_recv_timed`, found none, and goes on
to check the connection without it (`Owns`).  That it gets no further needs
`Cleared`: nothing connects a cleared handle.  `Matching` says which call a thread
at each label is in, which decides how often it has locked, and `Examining` that
the packet a request looks at is there.

The lemmas `Keeping`, `Taking`, `Giving`, `QuitsFree`, `Quits` and `HandsOut` treat
the six ways in which a step can treat the mutex and end, and `Carries` what every
other thread needs of it, so that each action has one short step lemma.  The
assumption `HandleAssumption` asks besides types only that `None` is no thread and
no packet.

Two more theorems are about the packets, on top of `IInv`.

* `EventsKept`: `EventsInOrder` is an invariant if receivers look at the race queue
  (`Attentive`: a receiver that does not, reads past the events in it) and just one
  of the packets that an event turns into shows its content type (`WholeEvents`).  The
  others, such as the packet that its body becomes by finding 1, may be anywhere in
  between; it is the first one, as on the real connection, or any other.  Threads may still make all calls, raw sends and
  disconnects included; `EventsInOrder` speaks of the time until the handle is
  cleared.  What makes it inductive is `Queueing`, that an event is between
  the connection and the queue only while the thread that read it is about to
  put it there, and `QueueFirst`, that a receiver reads from the connection only
  with an empty queue and keeps it empty, since it holds the mutex.
* `OwnReply`: `RepliesMatchInTime` is an invariant if all calls are requests
  (`RequestsOnly`) and the server sends no events (`NoEvents`): `ReplyMatches` holds
  until a request has given up (`late`).  Section 4 says why it need not hold any
  longer then; the run `reply_window` shows that one event is enough to break it; and
  after a raw `esl_send` a reply is on its way that nobody asked for.  `OnTheWay` says
  that on a good connection at most one command or reply is on its way, at the
  server, on the wire or in the packet buffer, and for whom; or that a thread is about
  to mark the connection as lost.  `Answered` says that the reply a request looks at is its own.

The events of a sequence are filtered, which is recursion over the sequence;
`EslHandleProofs` describes them by their positions instead and proves what
appending, taking from the front and moving to another sequence does to them.

### Sending

`EslSendProofs` proves three theorems about `EslSend`, for every number of threads
and calls, every text and every size of a buffer and of the socket.

* `InOrder`: `BytesInOrder` is an invariant.  The bytes of a call in progress on
  the wire are exactly those up to its position, which is `sent_total` and, in
  the second loop, the whole command (`Sent`, with `Looping` for the bounds of
  `sent_total`).  `Ordered` and `Reported` are the parts of `BytesInOrder`: about
  the wire, and about the results.
* `Unmixed`: `CommandsWhole` is an invariant.  It says only what is on the wire;
  why it stays true is `Whole`: a command sent under the mutex is complete, or
  its thread is still sending it, or the handle is no longer connected and
  nobody sends with the mutex.  That needs who holds the mutex (`Holding`) and
  that calls have different numbers (`Counted`).

* `NothingCutOff`: `SaysAll` is an invariant.  `Printed` says that a thread that is
  sending has a command that was not refused; that such a command contains
  everything its call was given is shown for each of the calls, from the sizes
  of their texts and what a formatted text holds when it fits.

`IInv` is the conjunction of the first two and the types, and one invariant for
both, since each needs `Sent`.  The lemmas `Begins`, `Takes`, `GoesOn`,
`GetsThrough` and `Ends` treat the ways in which a step changes a call, and
`Adds` what bytes added to the wire do to every part.  For `InOrder` and `Unmixed` it does
not matter which text a command has, only that it is a sequence of characters
(`CommandText`), which `CharAssumption` says of the words in it, and where it ends
(`SizeOfText`).

### Text

The theorems about `EslText` speak of every text of bytes other than NUL
(`Char == 1 .. 255`), whatever its length.

* `NoEscapeIsCut`, `OneByteMayBeLost`: what is decoded from the code of the first `k`
  bytes are these bytes (`RoundTrip`), because the code of one byte is decoded
  wherever it is followed by anything else (`DecodesPiece`).  The encoder stops
  behind some `k` bytes (`EncodedBy`); `EncodesGrows` and `EncodesShort` say how far it
  gets, which gives the one byte that `3 n + 1` may cost and no more.
* `SearchIgnoresCase`: that the search may give up inside a partial match at the end
  of the text needs that no later start can match either, the text being too
  short.
* `AnyDelimiter`: for any delimiter and array, and `NothingIsLost` for those of the
  run.  `Proper` is what is shown of the pieces of the text behind a place, for
  each number of places left in the array.

### Configuration reader

`NothingReadBehindEnd` and `LockKeepsToSection` speak of every file, whatever lines it
has in whatever order, and of every set of section names; `PairsAreClean` and
`CasBitsBinary` of every line and every list of bits.

A file is read by three loops, one inside the other: over the lines, in one call
(`Taken`), over the calls of a reader (`Readings`), and over the headers that the
search meets (`SearchOn`).  `TurnFacts` says what one turn does to a call that has
met only lines it passes over, and `NextPairFacts` what a call returns: the next
assignment, the end, or the header behind which a locked reader stops, with -1 in
place of 0 when a line that is no assignment came last.  A reader between two
calls is `Within` a `Stretch` of lines or `Through` it: it has got the pairs up to
its line, and ends, unless the end is `Spoilt`, with all of them.  The search is
either still `Looking`, and no header of the name is behind it, or has `Settled` on
the first.

### Events

`EslEventProofs` treats every set of names, values and subclasses, any number of calls,
and every case-insensitive comparison of names.  `EventAssumption` asks that the
words that the code writes are strings, that a null pointer is no text, that no
value begins with the separator, that `Content-Length` is another name than
`Event-Name` and `_body`, and that no two types of events have names that differ only in
case.

* `EventsInOrder`: `InOrder` is an invariant, the types with what the code relies
  on without testing it: `last_header` is the last header of the list, for the
  event and for the second one, and no header has neither value nor array
  (`Sound`).
* `CallsSpareOthers`, `PushesKeepItems`, `ValuesFollowArrays` are the three action
  properties.  None holds of a step from an arbitrary event: a header that enters
  behind a wrong `last_header` cuts off those behind it.

Each call is a function from an event to an event and a result, so that each is
treated once: `Spares` says which headers it leaves alone and in their order, and
`InStepAfter` that value and array of all others agree if they did.  Lemmas for
pushing, filling, inserting and deleting give those for `Added` and `AddedAt`.  An array
that is pushed may contain arrays; `AllPushedBy` needs of one turn only that it
stays in a set of results, and `AddedFollows` to `FromPlainFacts` carry `Follows`
through the loops of the copies.

`CopiesFaithful` says that `CopiesAreFaithful` is an invariant.  It follows from
`InOrder` alone; the work is in the functions that copy.

* The copies add the headers one by one to an event that is new.  A header with a
  value is one call (`ScalarAdded`).  One with an array is as many pushes as it has
  elements, of which the first makes a header with a value and the second turns it
  into an array; `AllPushedPile` is that loop for an array of any length, with
  `Piled` the header after some of the elements.
* `AllTransferredCopies` and `ReadBack` go through the list: behind each header, the copy
  has the same headers up to there.  No two headers of a `Regular` event have the
  same name, so that the name of the next one is still `Free` in the copy.
* A duplicate takes `Event-Subclass` first (`DuplicateShows`); JSON needs only that
  an object with distinct members keeps them (`JsonMembers`, `JsonShows`) and that
  none of them is taken for the body (`NoBodyMember`).
* In the plain form, an array is the string of its elements, and is cut at each
  separator.  `StandTogether` gives the places of the elements in that string,
  `PiecesTogether` that the cuts are at just those places if no element has a
  separator.  An array of one element comes back as a value (`Flat`), which
  `Shows` does not tell apart (`PlainShows`).

`DuplicatesSettled` says that `DuplicatesSettle`, a part of `CopiesSettle`, is an invariant, for events with
names twice, values and arrays parted, empty values and arrays inside of arrays.  A
copy of such an event is not the event, but it is `Settled`: every header can be
copied as it is, and only the first one of a name has an array, because the copy
pushes elements onto the header that `Find` finds, the first (`FindFirst`), and adds
values behind the last.  A set with one name for each header is not needed: a value
that comes behind another header of its name is added all the same
(`SettledBehind`).

* The copy begins with at most one name, `Event-Subclass`, whatever the subclass is
  made of (`CloneOwn`), and the names of the headers copied one by one are `Apart`
  from it.  `Trails` are the events that begin with those headers and go on with
  settled ones.  Each call that the copy makes stays in this set (`TrailsDeleted`,
  `TrailsAppended`, `TrailsPushed`, `TrailsTurn`, `TrailsAdded`), and so do the loops
  over them (`TrailsAllPushed`, `TrailsCopied`).
* The second duplicate begins with the same headers and leaves the same ones out, so
  that what it copies one by one is what the first one left behind them, and
  `AllTransferredBehind` puts just that behind them (`DuplicateOfTrails`).

### Only model-checked

* Liveness: `ReturnsWhenPeerIsGone`, `SendRecvReturns`, `SendReturns`.  Temporal
  properties under fairness are out of the prover's reach.
* `EslEvent`: `FormsSettle`, the JSON form and the plain form of an event that was
  read from one.  It rests on more than `InOrder`: that only the first header of a
  name can have an array or a value to be cut, which the calls keep to because they
  all search from the front.  Otherwise an array named `content-length` would be
  pushed onto the header that announces the body, and replaced the next time.

## 6. Plan

All modules that were planned are written, and all invariants and action properties
that the runs check are proved, except for the second half of `CopiesSettle`, `FormsSettle`.

## 7. What is not modelled, and why

Formatting and logging are output only.  `parson.c` is vendored; `EslEvent` models
what `esl_event.c` needs of it, an object with members in order whose values are
replaced in place (`MemberSet`).
`esl_thread_create_detached` wraps `pthread_create`.  The read one byte past a
full block in the packet scan, and reads of `packet_buf` without the mutex, are
undefined behaviour inside one step.

Inside of the modelled components:

* `EslReceive`: that a body is not valid JSON, or over the limits of an inner
  event, decides only whether `last_ievent` is null; the limits themselves are in
  `EslEvent`.
* `EslLifecycle`: one thread per handle (threads on one handle are `EslHandle`),
  and the caller's own copy of the listening socket.
* `EslSend`: a disconnect during a send (`EslHandle` has it), and the allocation
  of the text, which fails before anything is sent.
* `EslEvent`: allocations fail in the calls that add, not in those that make an
  event from another one; lengths of strings other than the parser's limit,
  therefore also the size of the buffer for serialized arrays; lines of a plain
  event without a colon.
* `EslConfig`: lines longer than the reader's buffer, and which of several paths
  is tried for a file.
