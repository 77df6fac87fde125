# Formal models of the networked LED matrix controller

TLA+ specifications of the firmware in this repository (LM4F120
microcontroller, ENC28J60 Ethernet controller, lwIP, a small HTTP server that
draws on an LED matrix, a Jenkins client with a JSON parser), with TLC
configurations and TLAPS proofs.

    tlc -config Enc28j60.cfg MCEnc28j60     # model-check one run
    tlapm Enc28j60_proof.tla                # check one module's proofs

`X.tla` is the specification of a component, `MCX.tla` what TLC instantiates,
`X.cfg` the run, `X_proof.tla` the theorems (those of both parsers are in
`Parsers_proof.tla`). `PROJECT.json` lists the runs,
which lines of the source each definition stands for, for every property a
changed definition that breaks it (the operators marked "Fault" in the
modules), the hazards each property is for, the findings and the theorems.

## 1. Inventory

| Component | Source | State | Operations | Correct when |
|---|---|---|---|---|
| ENC28J60 receive path | `enc28j60.cpp:166-224`, `enc28j60_stellaris.cpp:119-138` | `nextPacket`; in the chip the ring, ERXWRPT, ERXRDPT, ERDPT, EPKTCNT | `Interrupt`, `Receive`, `OnReceive` (and `Send`, which shares ERDPT) | each good frame reaches `netif->input` at most once, in order, intact; no ring space leaks |
| Register access, initialisation | `enc28j60.cpp:32-161, 226-275, 299-569`, `enc28j60reg.h` | `activeBank`; in the chip its registers, ECON1.BSEL and the PHY | `SwitchBank`, `ReadRegister` ..., `ReadPHY`, `WritePHY`, `InitConfig`, `GetMACAddress`, `Send` | a call reaches the register it names; nothing is received before the controller is set up; a transmission is started once |
| Main loop and interrupt handlers | `main.cpp:343-476, 523-560` | `events` (bit band), GPIO latch, WFI | handlers set flags, the loop clears and serves them | no packet and no tick is forgotten |
| lwIP timers | `main.cpp:424-468, 543-572` | `tickCounter`, four `last_*_time` | compare, call, note | never early, never starved, across wraps |
| HTTP request parser | `httpd.cpp:55-175` | `HttpConnection::state` | `parseRequest`, `parseHeader`, `parseData` | the calls do not depend on how TCP cuts the stream (within the stated assumption) |
| Connection objects | `TCPConnection.*`, `httpd.cpp:47-53`, `main.cpp:160-323` | object, pcb, callbacks | accept, receive, sent, error, remote close, delete | no callback reaches a deleted object; an answered request is followed by the end of its object |
| Drawing requests | `main.cpp:183-287` | `handlingUrl`, the `parameters` union | `onHeader`, `onHeaderDone`, `onBody` | a rectangle is painted where it was asked for, however the body is cut |
| JSON parser | `json.c`, `parser.c` | state stack, last operation, string buffer | `json_parse_buf` | accepts the grammar in `json.h`, in chunks of any size |
| Jenkins client | `jenkins-api-client.c` | `struct jac_state` | connect, poll, receive, error, JSON events | state freed once, never used after; each job reported with its own color |
| LED matrix library, lwIP | git submodules, not in the tree | | | external |
| Board glue, start-up, link script | `LM4F_startup.c`, `dummyfuncs.c`, `enc28j60_stellaris.cpp:59-117` | none | register writes | not modelled |

How they interact. The controller pulls its INT pin low while frames are
pending; the GPIO interrupt handler sets a flag; the main loop clears it and
calls `ENC28J60::Interrupt`, which drains the controller and gives each frame
to lwIP (`netif->input`). lwIP calls the connection objects back, inside that
call or inside a timer the main loop calls every few ticks; the objects parse
the request, paint on the frame buffer, write a response and delete
themselves. lwIP's own output goes through `ENC28J60::Send`, in the middle of
`Receive` as well. There is one thread and three interrupt handlers of one
priority, and a controller that goes on receiving whatever the processor does.

What is hard here: the controller's concurrency at the grain of SPI
transactions; an edge-triggered interrupt for a level ("packets are pending");
a flag tested before WFI; ring and tick arithmetic that wraps; a TCP stream cut
anywhere and parsers that keep little or nothing between chunks; objects that
delete themselves inside callbacks; allocation, write and close that fail;
lwIP's resets and polls after a close.

## 2. The modules and the code

**RxRing, Enc28j60, FrameQueue.** `RxRing` is the address arithmetic of the
receive ring. `Enc28j60` has one action per group of SPI transactions of
`Interrupt`, `Receive` and `OnReceive`, in the order of the source, with `pc` as
the place in it, and `Accept`, the controller storing a frame, between any two
of them. A cell of the ring holds the number and offset of the byte last
written, so that reading overwritten memory is visible. `Send` may run wherever
the stack may call it and moves the read pointer `Receive` used. `NoPbuf` is
the failed `pbuf_alloc`. `FrameQueue` is the abstract promise: frames handled in
order, each once, good ones delivered or discarded, bad ones discarded;
`DeliversQueue` states the refinement.

**RegisterCalls, RegisterFile, RegisterBanks, EncRegisters, EncController.** A
register call of the driver (`RegisterCalls`) is a record: the SPI command, the
register, the byte. `RegisterBanks` makes it one or three SPI transactions, one per
step: `SwitchRead` and `SwitchWrite` are the two of `SwitchBank`, `Access` the call's
own, which goes to whatever answers at its address in the bank that is really
selected. `EncRegisters` is the table of `enc28j60reg.h`. `EncController` makes the
calls: each function is the series of calls of its source (`Prepare`, `ReadPHY`,
`WritePHY`, `Configure`, `Enable`, `Send`, ...), kept in `todo`, and `stage` is where
the driver goes on when the series is done. A wait (`do ... while`) is a read that
stays in `todo` until the bit is there. The controller works on between any two
transactions: it gets its clock ready, ends an MII operation, ends a
transmission, receives. `Restart` is a reset of the processor, anywhere: the
driver starts again with what `.bss` is cleared to, the controller keeps its bank,
its registers and what it was doing. `RegisterFile` is the abstract promise, a
file of registers without banks in which a call is one step; `ImplementsFile` states
the refinement.

**EventLoop.** The main loop of `main.cpp:432-475`, statement by statement where
an interrupt between two of them matters (test of the flags, WFI, clear, EIR,
EPKTCNT), the port handler's three statements, SysTick and timer 0. `Receive` is
one step here; what it does is `Enc28j60`.

**TickTimers.** The four comparisons of `main.cpp:449-463` with a SysTick between
any two of compare, call and note. The counter and the product with `TICK_MS` are
taken modulo `Word`, as the unsigned arithmetic does. `sinceNoted` and
`sinceCall` are real time, known to the properties only.

**HttpParser.** One step per line, over chunks cut at any place. The parser keeps
nothing but its state from one chunk to the next, as in the source; a line that
lost its beginning is parsed as another line (`Garbled`).

**Drawing.** One step per header, per chunk and per body byte. `Color` and
`Width` write the same variable, as the union in `main.cpp:309-323` does; the
constructor leaves all numbers undefined, so they start anywhere in `Values`.

**Connection.** The object, lwIP's control block and its callbacks. `onReceive` is
one step per call that can delete the object (`HeaderDone`, `Body`), because the
code goes on in the object afterwards; `UseAfterDelete` is that. `Abort` is lwIP
giving a connection up: it frees the block and then calls `StaticError`.

**JsonParser.** One turn of the loop of `json_parse_buf` per step; the stack, and
what a pop leaves above its top, as in `parser.c`. The document is written a
character at a time after the grammar in `json.h:19-31`, with any first mistake
as its end. `JsonInit`, `JsonNext` and `JsonSpec` are named so that one module can extend
both parsers.

**JenkinsClient, JenkinsStatus, Jenkins.** The life of `struct jac_state` and the
search for the blank line across chunks; `event_handler`, fed with the events of
documents of any shape up to a nesting depth; and both together. In `Jenkins` what
`jac_recv` hands to `json_parse_buf` makes the parser call the handler any number of
times (`Parse`, while `parsing` is true) before `jac_recv` returns; the response is
cut off wherever the poll, an error or the server ends it, and the next
`jenkins_get_status` (`Request`) initialises the counters and, as in the source,
neither the two flags nor the two strings.

`Enc28j60` counts a group of transactions as one step and knows no registers;
`EncController` has every transaction and no buffer memory. `Connection` abstracts from what `HttpParser` and `Drawing` say about contents;
`EventLoop` from what `Enc28j60` says about frames, and `Enc28j60`'s fairness of
`Interrupt` is what `EventLoop`'s `PacketReceived` shows; `JenkinsStatus` takes the
events whose order `JsonParser`'s `ReportedAsWritten` shows.

## 3. The runs

| Run | Bounds | Properties |
|---|---|---|
| `enc_rx` | ring of 8 cells, 2 byte headers, frames of 3 to 5 cells, 4 frames | `HeldIntact`, `NextPacketInStep`, `SpaceReclaimed`, `DeliversQueue` |
| `registers` | two resets of the processor, one dummy byte, next pointers 0 and 1600, frames of 60 bytes | `AccessReachesRegister`, `ConfiguredBeforeReceiving`, `PhyAsWritten`, `TransmitsOnce`, `ImplementsFile`, `CallsEnd` |
| `start_up` | no reset, a PHY with PDPXMD set at power on | `StartedAsCommented`, violated |
| `event_loop` | 3 packets | `NoLostPacket`, `PacketReceived`, `TickServed` |
| `tick_timers` | 4 bit words, tick of 2 ms, timers of 3, 1 and 2 ticks, loop up to 2 ticks behind | `NeverEarly`, `Punctual`, `EachTimerRuns` |
| `connection` | rectangle of 4 bytes, 2 surplus bytes | `NoDanglingCallback`, `UndefinedOnlyAfterFailure`, `ClosesItsConnection`, `AnsweredThenDeleted` |
| `http_parser` | 2 header lines, up to 2 body bytes of any kind | `CallsAsSent`, `BodyGapless`, `HeadersInOrder` |
| `drawing` | 2 bit coordinates, values 0 to 2, bodies up to 9 bytes | `PaintedRowByRow`, `AnsweredWhenComplete`, `BodyClipped` |
| `drawing_xy` | the same | `DrawnFromXY`, violated |
| `json` | documents of 12 characters, strings of 2, white space before array elements | `AcceptsGrammar`, `ReportedAsWritten`, `StackPerLevel` |
| `json_compact` | without that white space | `AcceptsGrammar`, violated |
| `jenkins` | 2 header lines, up to 2 body characters of any kind, 2 jobs, 8 open grammar symbols | `StateWithConnection`, `UndefinedOnlyAfterRemoteClose`, `ParsedFromHeaderEnd`, `RequestEnds`, `JobsReported` |

The passing runs but `http_parser`, `json` and `registers` also check the module's
`TypeOK`; in `jenkins` it is the client's.

What they show.

- *Receive path.* Whatever the controller accepts between two SPI transactions,
  no frame in the ring is overwritten before it is read, `nextPacket` and EPKTCNT
  stay in step, a bad frame or a missing pbuf costs no ring space, and what the
  stack gets are the good frames in order. The ring of the run fills up, refuses
  a frame, and wraps inside a header and inside a payload; more cells add no
  further relation between the two pointers, and the proofs are for any ring.
- *Registers.* `activeBank` is right in every state because `Reset` and it are
  set together, in `Init`; without the reset, a processor that restarts in the
  middle of another bank would write the wrong registers. `SwitchBank` writes back
  flags it read a transaction before. The controller clears one of them by
  itself, TXRTS, and only the wait in `Send` keeps that race from starting a
  transmission again (`TransmitsOnce`). Reception is off from the first
  transactions of `Init` and comes on with the last of `InitConfig`, so that
  nothing is received half configured, whatever the controller was doing when the
  processor was reset: `ConfiguredBeforeReceiving` names all the registers the
  set-up writes but ERXRDPT, which moves with the packets, and the MII registers,
  whose effect is `PhyAsWritten`. `CallsEnd` is the waits: none has a timeout, and each ends
  because the bit it looks at is read in the right bank and the controller sets
  or clears it. Two resets let the first hit any point of start-up or operation
  and the second any point of the start-up after it; the addresses of the table
  are those of the header, all of them. The two next pointers are the start of
  the receive memory, for which ERXRDPT gets its end, and one inside it.
- *Event loop.* The order "clear the flag, then drain until EPKTCNT is zero" is
  what makes one edge for many packets enough. A flag set between its test and
  WFI waits for the next interrupt: `PacketReceived` holds only because SysTick
  never stops. `TickServed` has to make an exception: the drain loop ends when
  the controller is empty, so traffic that never stops starves the timers.
- *Timers.* The comparisons are right across wraps, also where one flag stands
  for two ticks. The 4 bit word makes both the counter and the product wrap in
  every run of the longest timer.
- *Connections.* Deleting the object inside a callback is safe as long as
  nothing fails. After a failed write the parser goes on in the deleted object
  (`httpd.cpp:140`, `172`), after lwIP reported an error the destructor uses a
  control block that is gone (`TCPConnection.hpp:43`), and without memory the
  constructor runs on NULL: `UndefinedOnlyAfterFailure` says that these are the
  only ways, the state "undefined" is where they lead.
- *HTTP.* The comment at `httpd.cpp:116` assumes that all header fields come in one
  chunk. The run shows that less is enough: `CallsAsSent` asks that no chunk ends
  inside a line. Without that, headers are lost or garbled, but `BodyGapless` and
  `HeadersInOrder` hold. `findSubStr` does not look at a mismatching character
  again, so that CR CR LF is not found; in a header that is a line with a CR in it,
  and the body may contain it.
- *Drawing.* The painted cells are always the first ones of the rectangle in row
  order, also when a chunk ends between the two bytes of a pixel. The properties
  about cells ask that the size was sent, that no `Color` came after `Width`, and
  that the rectangle ends below the largest coordinate.
- *JSON.* A level of nesting takes three stack entries, so the 50 entries nothing
  checks are 15 levels.
- *Jenkins.* The poll callback aborts every connection, established or not, for
  nothing ever sets `JAC_CONNECTED`. That cuts slow answers off; it is also the
  only thing that makes `RequestEnds` true. After the server closes first, the
  memory is freed with the callbacks still registered:
  `UndefinedOnlyAfterRemoteClose`. A response that was cut off leaves `level` and
  `jobsLevel` anywhere; `JobsReported` holds because the next request resets them.
  Two flags are not reset, which does no harm: a key comes before every string
  that counts.

Deadlock is checked except where the system really stops: a deleted drawing
object, the state "undefined", a document at its end.

### Findings

1. `main.cpp:220` starts a rectangle at row `x`; the log line of the same function
   (216) says it is drawn from `(x,y)`. `PaintedRowByRow` therefore states the first
   row as X, `DrawnFromXY` as Y.
2. `json.c:68` consumes the first character of an array element; the grammar at
   `json.h:28` has nothing between bracket and element. The test documents have
   white space there.
3. `enc28j60.cpp:563` reads MAADR1 to MAADR6 with RCR; the comment at
   `enc28j60.cpp:325` says that reading MAC and MII registers produces a dummy byte
   first, for which there is RCRM. `netif->hwaddr` is six dummy bytes
   (`MacReadBack` is false).

4. `enc28j60.cpp:99` clears PDPXMD in PHCON1, which is half duplex; the comment at
   `enc28j60.cpp:97` says "Configure PDPXMD for full-duplex operation", and 92 says
   the same of DPXSTAT in PHSTAT2. `FullDuplex` is the comment's claim, and false;
   what the code does, that PHCON1 ends up with what it writes, is `PhyAsWritten`.

3 and 4 are one run, `start_up`. Its property, `StartedAsCommented`, is that at least
one of `MacReadBack` and `FullDuplex` is true at the end of start-up, so that the
state TLC reports is one in which both are false.

One more, seen in the source and not the subject of a run. `json.c:47`: a
character after the document pops the last state, and `stateStack[-1]` is read.

Some hazards the code does not avoid: a deleted object used after a failed write,
timers starved by traffic, a second answer, and others. The properties near them
make an exception for them and rule out what lies beyond; the hazard's note in
`PROJECT.json` says so.

## 4. Fairness

- `Enc28j60`: weak fairness of the driver's own steps (straight-line code of one
  thread) and of `Interrupt` while a packet is pending (what `EventLoop` shows).
- `EncController`: of the driver's steps during start-up and of its transactions
  (one thread, straight-line code), of the clock becoming ready, the MII
  operation ending and the transmission ending, which is the controller's part.
  None of the network, nor of the main loop after start-up.
- `EventLoop`: of the main loop and the handlers (the processor runs what it can;
  one priority, so each handler ends), and of SysTick, enabled at
  `main.cpp:369-371` and never disabled. None of the network or of timer 0.
- `TickTimers`: of the loop and of SysTick.
- `Connection`: a callback runs to its end, and a response that was written is
  acknowledged unless the connection ends, which is TCP's part.
- `Jenkins`: of the poll, which lwIP's slow timer calls as long as the control
  block exists, and of the end of a buffer that is parsed. None of the server.

## 5. Proofs

Checked by TLAPS for all values of the constants; the assumptions are the
`ASSUME`s of the modules (sizes are natural numbers, a ring has at least three
cells and a header at least one byte, timers have at least one tick, header
values fit a word, the registers named by the driver are in the table, no
bit-field operation names a MAC or MII register, and the registers the hardware
changes are among the volatile ones, and the PHY powers up with two 16 bit registers) and two
hypotheses the theorems state: `Fits` for `Punctual`, and `Spaced` for the three of the
JSON parser.

- `Enc28j60_proof`: `TypeOK`, `HeldIntact`, `NextPacketInStep`, `SpaceReclaimed`,
  and that every behaviour implements the safety part of `FrameQueue`. The
  invariant (`IInv`, at the end of `Enc28j60`) measures addresses as distances from
  the oldest byte in use: the held frames lie one behind the other below
  ERXWRPT, and ERXRDPT is one cell behind that byte. `HeldIntact` alone is not
  inductive, for it does not say why the next frame has room. The steps that change
  the ring are `Accept`, `MarkRead` and `PacketDecrement`; the lemmas on `Wrap` and
  `Dist` carry them.
- `EncController_proof`: `AccessReachesRegister`, `TransmitsOnce`, and that every
  behaviour implements `RegisterFile`, for any table of registers in which no two
  answer at one place. The invariant is about `RegisterBanks` alone: the cached
  bank is the selected one once the controller was reset (`Coherent`), between the
  two halves of a switch the flags read are still the flags (`Switching`), and
  whoever started a transmission is waiting for its end (`Awaited`), which is what
  makes `Switching` inductive against the controller's own steps. It holds for
  series of calls that wait for what they transmit (`Program`); that the
  driver's series are such is proved function by function.
  `ConfiguredBeforeReceiving` follows the set-up call by call (`ConfigInv`): before the
  call that enables reception, each register of the set-up has its byte, or its
  bits, or a call before that one gives them (`Ready`), and no call after it takes
  them away (`Right`). `PhyAsWritten` needs
  to know of every call of `ReadPHY` and `WritePHY` what is in the MII registers and
  what the controller is doing with them (`PhyInv`), and of a driver that was reset
  that an operation it left running (`LeftOver`) cannot give PHCON1 a third value.
- `EventLoop_proof`: `TypeOK`, `NoLostPacket` and `ReceiveHasPacket` (no packet is
  read from a controller that has none), inductive together.
- `TickTimers_proof`: `TypeOK`; `NeverEarly`, from "the wrapped difference of two
  readings never exceeds the real one"; and `Punctual`, assuming that an interval and
  twice the lag fit in a word (`Fits`). For that the difference has to be exact,
  not only a bound, and a timer is behind by what came since the pass that checked
  it (`LateInv`).
- `Connection_proof`: `TypeOK`, `NoDanglingCallback`, `UndefinedOnlyAfterFailure`,
  `ClosesItsConnection`. The invariant adds who owns what: registered callbacks
  belong to a live object, a live object's block is gone only while lwIP is about
  to report an error.
- `Drawing_proof`: `TypeOK`, `BodyClipped`, `AnsweredWhenComplete` and
  `PaintedRowByRow`. Inside `onBody` the second and third do not hold; `Counted` says
  what does. What is painted follows from where the next pixel goes
  (`PaintInv`): pixel number `row * width + col` is due at that row and column, and an
  odd byte count leaves the low byte of the pixel in `currentColor`. The
  arithmetic that no two cells share a number, and that the last row is not left,
  is in the lemmas before.
- `Parsers_proof`, about the HTTP parser: `CallsAsSent`, `BodyGapless` and `HeadersInOrder`, for any number of
  header lines, any body and any cut of the request. Neither of the last two is
  inductive: the invariant (`HttpInv`) says where in the stream the parser is
  (`CutInv`), that a reported header lies before that place (`OrderInv`) and that
  the body so far is the stream from the end of the header to there (`BodyInv`).
  As long as no chunk ends inside a line, the lines parsed are the lines sent
  (`WholeInv`). Under them are lemmas on what `findSubStr` finds: each pattern occurs
  once in the header, so that a place where it is found is known, and the loop
  does not miss it although it never goes back.
- `Parsers_proof`, about the JSON parser: `AcceptsGrammar`, `ReportedAsWritten` and
  `StackPerLevel`, for documents of any length, depth and number of elements with
  white space before each element of an array (`Spaced`; without it the first is
  false, finding 2). None of the three is inductive. The invariant (`JsonInv`) sets
  the stack beside the grammar's unfinished symbols as they were before the
  character being parsed: the last `d` of them are the open structures, of which
  each takes two or three entries (`Open`), and above the innermost value the parser
  is in one of eleven situations, each with its own first symbols (`Local`). A
  turn that keeps the character keeps the symbols; one that consumes it moves to
  what the grammar has left after it. Every state of `json_parse_buf` has a lemma
  that says in which situation it leaves the parser, and every first symbol one
  that says which characters may follow.
- `Jenkins_proof`, about the client: `TypeOK`, `StateWithConnection` and
  `UndefinedOnlyAfterRemoteClose`, the invariant adding that a connection on its way
  out was closed by the server; and `ParsedFromHeaderEnd`, from what `match` is after
  each prefix of the header (`ScanInv`).
- `Jenkins_proof`, about the whole: `JobsReported` for any number of jobs and any
  nesting. The symbols still to produce are a pile of values under one of seven
  bottoms, and the handler's counters are what belongs to the bottom and one more
  for each structure in the pile (`Within`, with a counting function in place of a
  recursive one). And the composition implements `JenkinsClient`, its fairness
  aside, so that it keeps the memory's life cycle and what is parsed.

Where a proof needs induction (`findSubStr`, the search for the blank line), the
loop is a recursive function, and the lemmas `Least`, `UpTo` and `Recursion` derive
from the well-foundedness of the naturals what an induction rule would give: the
least counterexample of a set of naturals, and the value of a recursive function.

Only model-checked: all liveness (`DeliversQueue`'s fairness, `CallsEnd`, `PacketReceived`,
`TickServed`, `EachTimerRuns`, `AnsweredThenDeleted`, `RequestEnds`: the prover does not
reason about fairness and ENABLED).

## 6. Not modelled

- In `EncController`: the buffer memory and the pointers its transactions move (they
  are `Enc28j60`'s), the delays, packet counts above one, the transmit status vector.
  A soft reset is taken to leave the PHY alone and to clear every register (the
  values the data sheet gives the others are written before they matter).
- The size of `frame` in `OnReceive` (`enc28j60_stellaris.cpp:122`): 1514 bytes, into
  which line 127 reads `data_count` of them without a check. The count is the
  controller's and includes the CRC, and the limit it is given is 1518
  (`enc28j60.cpp:138-139`); `Enc28j60` reads a frame of any size as if it fitted.
- A controller that never gets its clock, or never finishes an MII operation or a
  transmission: the driver waits for ever, which needs no model.
- Collisions and transmission errors of `Send`, whose result
  `lwip_link_out` ignores.
- A header line without `": "` (`sep` is -1 and `data[-1]` is written), and headers
  sent twice.
- The lengths of `string_val` and `currentName` (50 characters, no check), JSON
  strings with escapes, keys that only begin with `jobs`, `name` or `color`.
- Jenkins responses with members after `jobs`: `jobsLevel` stays 1 there and an
  array of structures would be taken for jobs. The request asks for nothing else.
- The scroll and pulse animations, the matrix driver (submodule), DHCP, ARP and TCP
  (lwIP), the board's start-up.
- The Browser page and the generator of test files, which are not part of the
  firmware.

## 7. What could follow

1. The composition of `EventLoop`, `Enc28j60` and `EncController`, with `Interrupt` called
   by the main loop instead of by fairness, showing `FrameQueue` from the edge of INT
   on. The ring's addresses times the register calls is far beyond an explicit
   state space at the grain used here; it needs the two abstract specifications
   in place of the detailed ones.
2. The composition of `HttpParser` and `Drawing`: a request as bytes to cells.
3. The composition of `JsonParser` and `Jenkins`: that the events `JsonParser` is proved
   to report are those `JenkinsStatus` is proved about, document by document.
