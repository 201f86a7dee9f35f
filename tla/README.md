# A verification project for go-tftp

TLA+ models of [go-tftp](https://github.com/vcabbage/go-tftp) (package
`pack.ag/tftp`): a TFTP client and server in Go with option negotiation,
windowed transfers (RFC 7440), netascii and an experimental single port mode.
The models are written from the source; TLC checks them on small instances and
TLAPS proves the safety properties of the data phase, the handlers, the server, the
request phase, the netascii codec and the Client for every value of the constants.

`PROJECT.json` lists the components, the runs, the mutants that show that each
property can fail, the source lines behind every definition, the findings, the
hazards and the theorems.

## 1. Inventory

| Part | State | Operations | Interacts with | What is hard | What makes it correct |
|---|---|---|---|---|---|
| **conn, data phase** (`conn.go`) | `block`, `window`, `catchup`, `tries`, `err`, `closing`, `done`, `txBuf`, `rxBuf` | `Write`, `Read`, `Close`; state functions `writeData`, `getAck`, `read`, `readData`, `ackData` | peer conn over UDP; application | loss, duplication, reordering; retries; 16 bit block numbers; windows on both sides | the reader gets the file in order; EOF only at its end; Close tells the truth; both sides end |
| **ring buffer** (`conn.go`) | slots, `current`, `head` | `Read`, `UnreadSlots`, `Len` | `writeData`, `getAck` | reuse of slots while a retransmission may need them | it holds every block not yet received |
| **conn, request phase** (`conn.go`) | `tries`, `err`, `optionsParsed`, `blksize`, `windowsize`, `timeout`, `tsize`, `remoteAddr` | `sendWriteRequest`, `sendReadRequest`, `receiveResponse`, `writeSetup`, `readSetup`, `sendOACK`, `parseOptions` | server port, then the conn of the request | lost or duplicated requests, OACKs, ACKs; timeouts | both sides agree on the options; one conn serves the client |
| **Server** (`server.go`) | `conn`, `dispatchChan`, `reqDoneChan`, `reqMap`, a `reqChan` per request, `close` | `Serve`, `connManager`, `dispatch*Request`, `Close` | goroutines over bounded channels | blocking sends, ended handlers, resent requests, shutdown | datagrams reach only their transfer; nobody blocks for ever; Close stops it |
| **Datagrams** (`datagram.go`) | a byte buffer | constructors, accessors, `validate`, `options` | conn | NUL separators, fields in pairs, any order of the options | what is written is what is read; what `validate` accepts can be taken apart |
| **Netascii** (`netascii/`) | `last`, bufio buffers | `Reader.Read`, `Writer.Write`, `Flush` | conn's `reader`, `writer` | CR at the border of two chunks; bytes held back in two bufio buffers | well formed output; the text arrives; EOF only at its end |
| **Handlers** (`handlers.go`) | the conn of a request | `WriteError`, `WriteSize`, `FileServer` | Server, conn, files | an error of a file in mid-transfer, empty files | an error is not mistaken for the end of the file; both sides return |
| **Client** (`client.go`) | mode, shared option map | `Get`, `Put`, options | conn | a map shared by all requests; two errors of one Put | a request says what was configured; a nil Put means that the server has the file |
| errors, logging, examples | none | | | | |

## 2. Modules

| Module | Models | Extends |
|---|---|---|
| `Network` | UDP between two ports (external): a set of datagrams, any of which may arrive at any time, any number of times or never (`Ordered = FALSE`), or a FIFO queue with a bounded number of losses | |
| `Pipe` | the abstract specification of a transfer | |
| `Transfer` | the data phase: sending conn, ring buffer, receiving conn | `Network`, instance of `Pipe` |
| `NetworkProofs` | lemmas about the channels | `Network` |
| `TransferSafety` | theorems and proofs: `Transfer` over any network, without wraparound | `Transfer`, `NetworkProofs` |
| `TransferFifo` | theorems and proofs: `Transfer` over FIFO channels, with wraparounds | `TransferSafety` |
| `Handlers` | the applications on both ends of a transfer: `Put` with `ReceiveTFTP`, `ServeTFTP` with `Get` | `Transfer` |
| `HandlersProofs` | theorems and proofs about `Handlers` | `Handlers`, `TransferFifo` |
| `Negotiation` | the request phase: a client and the server's conns | `Network` |
| `NegotiationProofs` | theorems and proofs about `Negotiation` | `Negotiation`, `NetworkProofs` |
| `Server` | the goroutines and channels of the server | |
| `ServerProofs` | theorems and proofs about `Server` | `Server` |
| `Netascii` | a transfer in netascii mode, byte by byte | |
| `NetasciiProofs` | theorems and proofs about `Netascii` | `Netascii` |
| `Datagram` | layout, validation and parsing of datagrams (operators only) | |
| `Client` | `NewClient`, its options, the requests of `Get` and `Put`, the answers to them | `Datagram` |
| `ClientProofs` | theorems and proofs about `Client` and the operators of `Datagram` | `Client` |
| `MC*` | values for the constants | the component, or the module with its inductive invariant |

**Transfer.** A state function of `conn.go` is a value of `pc`, and the actions
are the ways through it: `writeData` is `WriteReturns` and `WriteData`, `getAck`
is `GetAckGivesUp`, `GetAckTimeout` and `GetAck` (with `HandleAck`), `read` is
`ReadReturns` and `ReadContinues`, `readData` is `ReadDataGivesUp`,
`ReadDataTimeout` and `ReadData` (with `AckData` for `ackData`). The calls of the
application are `Write`, `CloseSender`, `Read` and `CloseReceiver`; `pc = "app"`
means that the application has the control. Data is counted in blocks of
`blksize`: chunk *c* is the *c*-th block of the file, and the chunk that Close
makes of the rest is short. A DATA datagram carries its block number and,
independently, the chunk that the ring buffer served, so that a mix-up of the two
is visible. Block numbers are taken modulo `BlockMod` (2^16 in the code).

The first DATA finds what the negotiation left in the channels
(`LeftToSender`, `LeftToReceiver`): duplicates of ACK 0 and of the OACK, a
datagram from elsewhere, the ERROR of a second conn.

**Handlers.** Composes `Transfer` with the two programs that use it. `src` is the
application that writes, `dst` the one that reads; `flow` says whether the client
or the server is the source. An `io.Copy` is `CopyWrites` (or `CopyReads`) as often
as it likes and `CopyReturns` (or `CopyFinds`); the deferred Close is `SourceCloses`
or `SinkCloses`. Files fail in `SourceFails`, `SinkFails`, `SourceRefuses` and
`SinkRefuses`, the last two with the `WriteError` that follows. The receiver's conn
belongs to `Transfer`; a `Response` has no Close, so that `SinkCloses` only says that
nobody reads it any more. `calm` marks the behaviours in which nothing fails.

**Negotiation.** One request of a client, sent to the listening port; the network
may duplicate it, and then the server makes a second conn, with its own port. An
option value is a small number, `Default` the value of a conn without the option.
A datagram carries what `options()` finds in it: nothing for an ACK, and for a
DATA datagram nothing or bytes on which it panics (`Garbled`). The model ends
where each side sends or gets the first DATA. `calm` is as in `Handlers`.

**Server.** `Serve`, `connManager`, `Close` and one goroutine per request, with
`dispatchChan`, `reqDoneChan` and the `reqChan`s as bounded queues. A blocking send
is a program counter of its own (`"send"`), so that the goroutine can be stuck
there. `Route` is the lookup in `reqMap`. `config` is the mode and the handlers that
are registered. A handler receives what it likes and returns at any time; what it
does with its conn is module `Transfer`. The `form` of a request is what `validate` makes of
it: it accepts it, refuses it (`HandlerRefuses`), or panics because there is no NUL in it
(`HandlerPanics`, which is also open to a running handler). Nothing recovers that panic, so
the process ends: in a `Crashed` server no goroutine takes another step.

**Netascii.** The bytes go from `text` through `Writer.Write` (`EncodeByte`, one turn
of its loop) into the bufio buffer `enc.buf` and on to `wire`, which is what reaches
`txBuf`; in blocks of `BlkSize` (`Receive`) to `rxBuf`, which holds the bytes
`rd.taken + 1 .. rd.arrived` of `wire`; into the buffer `rd.buf` of the bufio.Reader
(`Filled`) and through one turn of `Reader.Read` each (`DecodeByte`) to `out`. That the
blocks arrive in order is what `Transfer` shows, and is taken over here.

**Datagram and Client.** A datagram is an opcode and a sequence of atoms, of which
`"NUL"` is the byte 0. `WriteReq` and `WriteOptionAck` write the options in any order, as
`range` over a map does; `Split` (the pieces between the cuts that `Cuts` makes at the
NULs), `Filename`, `Mode`, `Options` and `Valid` take a
datagram apart as the code does. `OptionsPanic` says where `options()` indexes out of range,
and `ValidatePanics` where `filename()` does, and with it `validate`: in a request without a
NUL, in a buffer as long as the request. That is how the server gets it; a conn's receive buffer
is longer than the datagram, and such a request is refused there. `Client` has `ClientOpt`s with arguments at and beyond the ends of their
ranges, the requests of two Clients one after the other, and answers of this
package's server or of any other; `Response` is the client's conn after an answer.

Definitions called "the first version is wrong" in a comment are deliberately
faulty variants; no specification uses them. They serve as mutants.

## 3. Runs

Passing:

| Run | Instance | Shows |
|---|---|---|
| `transfer_udp` | unordered network, window 2, 8 block numbers, 2 tries, up to 4 full blocks, failing writes, a reader that may quit, all leftovers | `InOrder`, `EofMeansComplete`, `RingCoversUnreceived`, `ImplementsPipe`, and the inductive invariant `IndInv` that the proof uses |
| `transfer_wraparound` | FIFO, fair, window 2, 4 block numbers, up to 6 full blocks, 2 losses, timers up to 2 datagrams early, failing writes, a reader that may quit | `ImplementsPipe` across a wraparound, `UnreadWithinSlots`, `NilCloseMeansReceived`, `Termination`, and the inductive invariant `FifoInv` |
| `handlers` | both flows, calm or not, FIFO, fair, window 2, 4 block numbers, up to 5 full blocks, 2 losses | a nil `Put` means that the server's conn has the whole file (`PutNilMeansReceived`); a reader at io.EOF has every chunk that was written, in order and once, and they are the whole file unless reading it failed (`EofMeansWholeFile`); if nothing is lost, `WriteError` is not overtaken by the last block that Close sends (`ErrorBeforeEof`); `BothReturn`; `CalmDelivers` |
| `negotiation_udp` | unordered network, 2 conns of the server, reads with all sorts of options, one of them with the size that an earlier Put has left behind, writes that get no OACK, first blocks on which `options()` panics | `Agreement`, `SizeReported`, `OnlyRequestedOptions`, `OnlyPeerTransfers`, `NilMeansAnswered`, and the inductive invariant `NegotiationInv` |
| `negotiation_settles` | FIFO, fair, every request, calm or not, 2 losses | `Settles`, and in the calm environment `Succeeds` |
| `server` | fair, both modes, 2 clients, 5 datagrams, channels of one place, a read handler or none, Serve and Close at any time | `NoCrossTalk`, `RejectsOnlyStrangers`, `KeepsUp`, `HandlersEnd`, `CloseStopsServe`, and the inductive invariant `ServerInv` |
| `netascii` | fair, every text of up to 4 bytes, writes of 1 or 2 bytes, blocks of 3, reads of 1, 2 or 9, bufio buffers of 3 | `WellFormed`, `TextArrives`, `EofAfterShortRead`, `ReaderEnds`, and the inductive invariant `NetasciiInv` |
| `client` | 2 Clients, 2 `ClientOpt`s, 3 requests, all OACKs of up to 5 atoms and other answers | `RequestUnderstood`, `BuffersFit`, `PutTellsItsSize`, `GetAsksForSize`, `OackNeverPanics`, and that the client takes over what the server grants (`AnswerUnderstood`) |

Runs that find a violation of what a comment of the code says (`findings` in
`PROJECT.json` quotes the comments):

| Run | What happens |
|---|---|
| `transfer_stale_close` | a late duplicate of an ACK rolls the sender back further than the ring reaches (`getAck` does not compare the difference with `windowsize`), the ring serves the last chunk under an old number, and Close returns nil although the receiver lacks the last block |
| `negotiation_lost_oack` | the server answers a timeout with ACK 0 in place of the lost OACK, and the two sides use different options |
| `netascii_eof` | a `Read` that fills `p` returns io.EOF while the bufio.Reader still holds the end of the text |
| `handlers_empty_file` | an empty file is served without a call of `Write`, so that nothing at all is sent and `Get` times out |

**Where the passing runs stop.** Some properties name an exception, because the code
does not do better; outside of it they hold:

* `KeepsUp`: `Wedged`, `connManager` blocks in its send to the full `reqChan` of a
  handler that has returned. The server then serves nobody.
* `CloseStopsServe`: `StuckSending`, Serve has a datagram for a full `dispatchChan` when
  `connManager` returns or is wedged.
* `HandlersEnd`: `StuckSignalling`, `reqDoneChan` is full and `connManager` is gone or
  wedged.
* All three: `Crashed`, the goroutine of a request has panicked, on a request without a NUL or on
  what its client asked for, and the process has ended.
* `EofMeansWholeFile`: reading the file failed; Close ends the transfer as if the file
  ended there, unless the handler calls `WriteError`. What was read before has all arrived.
* `WellFormed`: the last byte of a text that ends in CR (`EndsInCR`). The Writer adds the NUL
  only when another byte follows, and Close does not; the package comment (netascii.go:8) says
  "CR to CRNUL".
* `GetAsksForSize`: an earlier Put of this Client had no size and deleted `tsize` from
  the shared options.
* `TextArrives`: texts with a CR (a CR at the end of a text, and a NUL after a CR, are
  lost).
* `CalmDelivers`: empty files in a `Get` (`handlers_empty_file`).

Other cases are kept out of a passing run by one of its constants, because the
property does not hold there; each is in `hazards`:

* `UnreadWithinSlots`, `NilCloseMeansReceived`: with an unordered network
  (`transfer_stale_close`).
* `RejectsOnlyStrangers`: with `Resends = TRUE`, the done signal of the first handler
  deletes the `reqMap` entry of the second one.
* `Agreement`: for a write that gets an OACK, with a timer that fires before it arrives
  (`negotiation_lost_oack`).
* `Succeeds`, `CalmDelivers`: when something is lost (neither the request nor the OACK is
  resent after a timeout), or a timeout of `receiveResponse` or `getAck` comes before the
  answer (`c.err` keeps the timeout although the next try gets the answer).
* `NilMeansAnswered`: with `Retransmit = 0`, where `receiveResponse` returns before its
  first try.

**Bounds.** A window of 2 is the smallest with a block
in the middle of a window and with ring slots that are reused in turn; files of
4 to 6 blocks go around the ring at least twice. With 4 block numbers and a
window of 2 the wraparound happens within the file, and old and new numbers are
as close as the code's test `diff > windowsize` can bear. Two tries are enough
for a retry that succeeds and for one that does not. Two server conns are one
more than a request needs. Channels of one place stand for 64, bufio buffers of 3
bytes for 4096, a block of 3 bytes for 512: what matters is that they are full, and
that a CR LF is cut at each border. Five datagrams are a request, one that fills its
`reqChan`, one in which `connManager` is stuck, one that fills `dispatchChan` and one in
which Serve is stuck, so that every send can block, all of them at once. Three requests are two Puts and what comes after them. An OACK
of 5 atoms is one whole option and the beginning of another. `MaxPackets`,
`MaxConns`, `MaxFull`, `MaxRead`, `MaxLosses`, `MaxText`, `MaxOpts` and `MaxRequests` are
guards of the model only.

**Timers.** A deadline may pass at any time in the unordered runs. Over FIFO
channels the resent ACKs would grow without bound, so a deadline passes only while
at most `Lateness` datagrams are on the way. In a `calm` environment a timer fires only
when everybody waits and nothing is on the way, that is, in a deadlock that
the timers are there to end.

**Fairness.** Weak fairness of each goroutine (Go's scheduler runs what can run;
a timer that is set fires) and of the applications' calls: `Client.Put` and the
server defer Close, `io.Copy` ends because files do, a reader goes on until an error,
and a handler returns. None is assumed of the network, of a client's sending, or of a
call of `Server.Serve` or `Server.Close`.

`CHECK_DEADLOCK FALSE` is used for the server, which may wait for datagrams
for ever when the bound is reached, or stop after Close, and for the client, which
makes no more requests when the bound is reached. `client` uses the symmetry of the two
Clients; it checks invariants only.

## 4. Proofs

Each component has an inductive invariant (`Transfer` and `Handlers` have two, one for each
kind of network), which is defined at the head of its proof module as a conjunction of
named parts and proved with one lemma per action. TLC checks those of `Transfer`,
`Server`, `Negotiation` and `Netascii` in the runs named above, whose `MC` modules extend the
proof modules; `HandlersInv`, `UdpHandlersInv` and `ClientInv` are in no run. An
invariant contains the component's type invariant `TypeOK`, which
therefore has no run of its own. The assumptions on the constants are the `ASSUME`s of the modules;
what a theorem needs beyond them is its hypothesis.

| Module | Theorem | Property | Hypothesis |
|---|---|---|---|
| `TransferSafety` | `TypeCorrect` | `TypeOK` | |
| | `Invariance`, `ReadsInOrder`, `EofIsComplete`, `RingKeepsUnreceived`, `TransferImplementsPipe` | `IndInv`, `InOrder`, `EofMeansComplete`, `RingCoversUnreceived`, `ImplementsPipe` | `NoWrap` |
| `TransferFifo` | `FifoInvariance`, `ReadsInOrderFifo`, `EofIsCompleteFifo`, `RingKeepsUnreceivedFifo`, `RollsBackWithinSlots`, `NilCloseIsHonest`, `FifoImplementsPipe` | `FifoInv`, the same and `UnreadWithinSlots`, `NilCloseMeansReceived` | `Ordered` |
| `HandlersProofs` | `HandlersInvariance`, `PutIsHonest`, `EofIsTheWritersEnd`, `ErrorsArrive`, `CopiesImplementPipe` | `HandlersInv`, `PutNilMeansReceived`, `EofMeansWholeFile`, `ErrorBeforeEof`, `ImplementsPipe` | `Ordered` |
| | `UdpHandlersInvariance`, `UdpEofIsTheWritersEnd`, `UdpCopiesImplementPipe` | `UdpHandlersInv`, `EofMeansWholeFile`, `ImplementsPipe` | `NoWrap` |
| `ServerProofs` | `ServerInvariance`, `ServerTypeCorrect`, `TransfersAreSeparate` | `ServerInv`, `TypeOK`, `NoCrossTalk` | |
| | `StrangersOnly` | `RejectsOnlyStrangers` | `~Resends` |
| `NegotiationProofs` | `NegotiationInvariance`, `NegotiationTypeCorrect`, `OacksAreAsked`, `DuplicatesStaySilent` | `NegotiationInv`, `TypeOK`, `OnlyRequestedOptions`, `OnlyPeerTransfers` | |
| | `NilIsAnswered` | `NilMeansAnswered` | `Retransmit > 0` |
| | `SizeIsReported` | `SizeReported` | `AsksOtherSize` |
| | `SidesAgree` | `Agreement` | `PlainBlocks`, `WritesUnacked` |
| `NetasciiProofs` | `NetasciiInvariance`, `NetasciiTypeCorrect`, `WriterMakesNetascii`, `TextIsKept`, `ShortEofIsComplete` | `NetasciiInv`, `TypeOK`, `WellFormed`, `TextArrives`, `EofAfterShortRead` | |
| `ClientProofs` | `ClientInvariance`, `RequestsAreUnderstood`, `RequestsFitBuffers`, `PutsTellTheirSize`, `GetsAskForSize`, `OacksNeverPanic`, `AnswersAreUnderstood` | `ClientInv`, `RequestUnderstood`, `BuffersFit`, `PutTellsItsSize`, `GetAsksForSize`, `OackNeverPanics`, `AnswerUnderstood` | |

**The transfer over any network** (`IndInv`). None of the properties is inductive. The
difficulty is that a late duplicate of an ACK may roll the sender back further than the
ring reaches: the sender then really sends wrong data under old numbers. `IndInv` says
why this does no harm to the receiver.
`SenderInv` and `RingInv`: the sender is at most a window ahead of the receiver
(`ring.head <= Received + WindowSize`), so the newest `WindowSize` chunks are in the
ring, each in its slot. `NetworkInv`: a DATA datagram carries the chunk of
its number, or its number is one that the receiver has passed; the number of an ACK is
at most what was received. `ReceiverInv`: the receiver's block number is how much
it has got. `NoWrap` says that the file has fewer than `BlockMod` blocks: over a network that
reorders, a datagram of an earlier round of block numbers may pass for a new one.

**The transfer over FIFO channels** (`FifoInv`), across any number of wraparounds. A block
number says nothing about the round it belongs to; what makes it unambiguous is that
everything on the way is at most a window off. `DataFifo`: a DATA datagram carries the
chunk of its number, is less than a window behind the receiver, and less than a window
behind any DATA before it. `AckFifo`: there are numbers `f[i]`, not decreasing, of what
the receiver had when it sent the i-th datagram to the sender, and the sender is at most
a window ahead of the oldest. So `diff > windowsize` in `getAck` tells old from new
(`WindowSize < BlockMod` is all that is needed), the ring is never unread further than it
reaches, and the ACK that lets Close return nil is that of the last block. The
last two are false over an unordered network (`transfer_stale_close`).

**Refinement.** `Transfer` implements `Pipe` in both cases: a step simulation under the
invariant, whose only interesting case is a receiver that accepts a DATA datagram
(`AcceptsNext`: what it accepts is the next chunk). Under `Handlers` the same
step simulation applies to the calls that the applications make.

**Handlers** (`HandlersInv`, `UdpHandlersInv`). The invariant of the conns still holds, because
each step of an application is a step of `Transfer`, one that only an application makes a
conn take, or leaves the conns alone (`StepKinds`). `AppInv` holds over either network:
`SourceInv` relates what `io.Copy` and the deferred Close have returned with the conn's
error and its `closing`; `SinkInv` says that the conn is untouched before the handler reads.
With `IndInv` it gives that a reader at io.EOF has all that was written, in order, that this is
the writer's end, and the refinement of `Pipe`
over UDP at its worst. Only FIFO channels give also `CloseInv` (a Close that returned nil has
had its last block received; see `transfer_stale_close`) and `RefusalInv`: after a
`WriteError`, as long as nothing was lost, the ERROR is ahead of any last block in the channel
or has been met.

**Server** (`ServerInv`). `Routing`: an entry of `reqMap`, and the channel that connManager
is about to send to, belong to the address. For single port mode without repeated
requests also `FreshRequests` (a request that is still queued is the only one of its
address) and `EntriesStand` (the entry stands until the handler's goroutine has ended; only
then is its address in `reqDoneChan`). With a repeated request `EntriesStand` is false
and so is `RejectsOnlyStrangers`, hence the hypothesis.

**Request phase** (`NegotiationInv`). `ConnSetUp`: a conn of the server parses the options of
the request once, before it sends or expects anything. `AnswerTrue`: what is on the way to
the client comes from such a conn, and DATA after an OACK only from the one that the
client has answered. `PeerFixed`: the client has the defaults until it is answered, and then
one peer. The hypotheses are what the code does not ensure: a retry limit of 0 makes
`receiveResponse` return before its first try; a read request may carry, left over from
a Put, the very size of the file, which the server's conn has then not from its handler
(`AsksOtherSize`); a first block may look like options (`PlainBlocks`); an OACK to
a write may be lost (`WritesUnacked`, `negotiation_lost_oack`).

**Netascii** (`NetasciiInv`), for all sizes of buffers, blocks, writes and reads. `WriterInv`:
`enc.last` is the last byte of the text that was encoded and of what was produced, which
makes `Paired` (LF only after CR, LF or NUL after every CR but a last one) inductive, and says
that a last CR is that of the text, which is the rest of `WellFormed`. `TextProduced`: byte *i* of a text without CR ends at
`EndOf(i)` of what is produced. `TextRead`: the Reader's position is the end of the last byte it
returned, or just after a CR whose LF had not arrived; the CR is then lost, and the LF
comes alone.

**Client** (`ClientInv`), for any number of Clients, options and requests. `AskedFor`: the map of a
Client holds, in decimal, what its `ClientOpt`s have asked for, all of it in range; only the
size is different (`SizeKept`), because a Put replaces or deletes it. `RequestInv`: while a
request waits for its answer, its datagram is made of the map that the Client still has. What is
left is that reading a datagram gives back what was written. It needs no induction: a
flattened sequence of options is given by an index formula, so that the datagrams of this
package are `Frame`s, with a NUL at every second place after the file name, and the cuts
of a frame are the places of its NULs (`CutsOfFrame`, `FieldsOfFrame`). From there `RequestRead` and
`OackRead` show, for every map and every order of its options, that `validate` accepts
what was written and that `Options` returns the map. For an OACK of anybody else, `OackPairs`
counts: an even number of NULs with one at the end leaves an even number of fields, so that
`options()`, which takes them in pairs, stays within its slice.
The assumptions are what the code gets from the library: a number has one decimal form,
and neither it nor the file name of a URL has a NUL in it (`NumbersAssumption`,
`ArgumentsAssumption`). The latter is one about the caller: a `%00` in the fragment of a URL
would put a NUL in the file name.

Model-checked only are the liveness properties (`Termination`, `BothReturn`, `CalmDelivers`,
`KeepsUp`, `HandlersEnd`, `CloseStopsServe`, `Settles`, `Succeeds`, `ReaderEnds`): fairness is beyond
the prover's reach. Each safety property that a passing run checks is proved.

## 5. Not modelled

* Error texts (`errors.go`), logging, `String` methods and the examples: no logic that a
  property could be about. Errors are names in the models.
* The bytes inside a slot of the ring buffer (`size`, `slotsLen`, offsets): a slot holds a
  block in `Transfer`.
* Lengths of datagrams and of receive buffers, except for `blksize + 4` (`BuffersFit`).
  Paths of `FileServer` and the parts of a URL beyond what `parseURL` tests.
* Concurrent requests of one Client, which race on its map of options, and a second
  call of `Server.Serve` or `Server.Close`: uses that the documentation does not foresee.
* The timer of single port mode (`Reset` without draining); timers may fire early in
  `Transfer` instead.
* In `Transfer`, both conns use the same retry limit. The source address is checked by
  `getAck` (a `STRAY`), and `Negotiation` models that `readData` does not.
* Netascii on windows, where CR LF is not decoded.

## 6. Plan

1. Done: `Network`, `Pipe`, `Transfer`, `Server`, `Negotiation`, `Netascii`, `Handlers`, `Datagram`,
   `Client`; the safety theorems of section 4.
2. Open: the safety half of the server's shutdown (who can be stuck in which send); concurrent
   requests of one Client.
