# lightsocks-c in TLA+

lightsocks-c is a pair of proxies that hide SOCKS5 traffic behind a substitution
cipher.  `lightsocks-local` (client/client.c) listens beside the application,
dials the other proxy once per accepted connection, encodes what the application
says and decodes what comes back.  `lightsocks-server` (server/server.c) decodes
what the client sends, is to parse the SOCKS5 exchange in it, dials the
destination and encodes its answers.  Both are one-threaded programs around
libevent's event loop and share lib/.

The repository's own README says "Lightsocks-server does not work now"; the
model of the server shows what it does.

## 1. Inventory

| part | source | state | operations | hard because |
|---|---|---|---|---|
| client relay | client/client.c:28-144 | a `Client` and two bufferevents per connection | `local_listener_cb`, `local_readcb`, `remote_readcb`, `local_eventcb`, `listener_errorcb`, `signal_cb` | deferred callbacks and socket I/O interleave; either side may close, half-close or abort at any point; dialling is asynchronous and may fail; freed memory is shared by two callbacks; descriptors run out |
| secure socket | lib/securesocket.c | none of its own | `encode_copy`, `decode_copy` (and `_pass`), `decode_read`, `encode_write`, `bufferevent_clear_free`, `securesocket_free` | a chunked loop whose first empty read means something else than its last |
| password cipher | lib/password.c | the 256-byte table | `encode_data`, `decode_data`, `rand_password`, `password_string`, `gen_password_by_string` | in-place loops; the inverse table is only an inverse if the table is a permutation, which nothing checks |
| base64 | lib/base64.c | none | `b64_encode`, `b64_decode_ex`, `b64_decode` | remainders, padding, an unset size on one path |
| server relay | server/server.c:31-264 | an `LsServer` and two bufferevents per connection | `local_listener_cb`, `local_readcb` with `parse_socks5`, `remote_readcb`, `local_eventcb`, `listener_errorcb`, `signal_cb` | a protocol parsed without waiting for it; the split of the bytes over reads; pointers that may not have been assigned |
| start-up and shutdown | client/client.c:147-240, server/server.c:266-327 | configuration, password, listener, signal event, loop | `main` | one step of several fails and the common error path frees what may not exist |
| configuration | lib/parson.c (vendored) | a tree of values in memory | `json_parse_file`, `json_validate`, getters, the writer, `json_value_equals`, setters, removal, copies, release | the getters hide what is missing, so parser and validation must let nothing pass; numbers become 16-bit ports; two arrays that must move together, values that one container must own; escapes, UTF-8 and surrogates |
| log | lib/log.c (vendored) | level, quiet | `log_log`, setters | pure output |
| event loop, TCP, peers | outside src/ | buffers, wires, descriptors | see LibEvent below | everything above happens in its order |

How they interact.  The event loop calls the callbacks of the programs, one at a
time.  A read callback moves bytes from the input buffer of one bufferevent to
the output buffer of the other through the copy routines, which call the cipher.
A listener callback creates the two bufferevents (the server's second one only
after SOCKS5).  The two callbacks of a connection share its `Client` or
`LsServer` as context.  The password is read once, before the listener exists.

What makes each part correct: of the relay, that both byte streams arrive in
order and without gaps while the connection is up, that the two bufferevents of a
connection are freed together and take their callbacks with them, that no callback uses
what has been freed, and that the end of a connection closes its sockets; of the copy routines, that the loop
moves everything and tells an empty buffer from the end of a full one; of the
cipher, that decoding inverts encoding for every password the program generates;
of base64, that bits are regrouped exactly and a written password is read back; of
parson, that texts are read and written as the same values and that what a program
does to values in memory it does to the documents they stand for; of the server, that a SOCKS5 exchange is served once and what is relayed is in order.
PROJECT.json lists the hazards at their lines, with the property that watches each.

## 2. Modules

* **Password** - the cipher as operators on sequences of bytes: `encode_data`,
  `DecodeTable` (the zeroed, last-index-wins table of `decode_data`), `decode_data`.
  `PASS_LENGTH` is a constant.
* **LibEvent** (external) - what the code relies on outside src/: the process
  (`proc`), the bufferevents with their sockets (`bev`) and the programs at the far
  ends (`peer`).  Its actions are the steps of the loop between two callbacks
  (a socket is read, an end of file is seen, output is flushed or fails, a connect
  ends, a timer fires, accept runs out of descriptors) and those of the peers
  (send, shut down, close, abort).  Written from libevent 2.1's socket bufferevents
  with `BEV_OPT_DEFER_CALLBACKS`, which both programs use: a callback is owed when
  data arrives and runs later, as one step, in a *deferred run* that is queued exactly
  while a callback is owed.  A queued or running deferred run has a reference to its
  bufferevent: `bufferevent_free` unsets the callbacks, but while such a run exists
  the bufferevent is only "held" - its memory and its socket stay and are served - and
  the end of the run destroys it (`EndRun`, `Decref`).  Without one it is destroyed by
  the call itself (`Destroyed`).  That reference is all that makes client.c:75 and
  server.c:214 harmless, where `local_eventcb` asks `bev` for its descriptor after it
  has freed it: in the models a callback whose own bufferevent was destroyed by its own
  call ends in "undefined" (`ReleasePair`, `FreeBoth`).
* **SecureSocket** - the copy routines as operators from two bufferevents to two
  bufferevents, and `bufferevent_clear_free`.
* **Client** - client.c: one action per callback.  Libevent runs the owed callbacks
  of one bufferevent in one deferred run, read callback first, so `RunLocal` is
  `local_readcb` followed by `local_eventcb` where both are owed; `RunRemote` is
  `remote_readcb`, the only callback `remote_bev` has.  The three ways in which
  `local_listener_cb` can end are `Accept`, `AcceptDialFails`, which leaks the `Client`
  of client.c:94 (124-127 free the bufferevents only), and `AcceptSetupFails`.
* **Relay** - the abstract specification of one proxy: two byte streams per
  connection, each passed on in order through the cipher, and a life of idle, up,
  over.  Client implements it (`ImplementsRelay`): `phase` is read from `client`
  and the bufferevents, `said` and `heard` from `peer`; buffers, sockets and callbacks disappear, and
  socket reads, copies and connects are stuttering steps.
* **Codec** - the in-place loops of `encode_data` and `decode_data`, one assignment
  per step; justifies the operators of Password.
* **CopyLoop** - the loop of `encode_copy_pass` and `decode_copy_pass` through its
  fixed buffer, one statement per step; justifies the operators of SecureSocket.
* **Shuffle** - `rand_password`.
* **Base64** - `b64_encode`, `b64_decode_ex` and `gen_password_by_string`, one byte
  or character per step.
* **JsonString** - the strings of parson byte by byte: `json_serialize_string`,
  `skip_quotes`, `process_string`, `parse_utf16`, `is_valid_utf8`.
* **PasswordString** - the way of a password, as lib/password_test.c and the
  configuration send it: Shuffle, then Base64 (an instance whose `pc` is `b64`), then
  a JSON string that is written and read, then `gen_password_by_string`.  Other
  byte strings, texts and strings start in the middle.
* **Server** - server.c: one action per callback; `parse_socks5` and its two reads
  inside the one callback are operators on the bytes, so that the split of bytes
  over reads is visible.  A connection has two dialled sides, "remote" and "again":
  server.c:159-194 may dial any number of times, here a third exchange can only fail to
  dial.
* **JsonValue** - the tokens of a text, the values that parson makes of them, and the
  getters.  How strings and numbers are spelt is abstract; the token `Other` stands
  for what parson refuses, `Minus` for a '-' that begins no number, which parson
  takes for 0 and does not consume (parson.c:777-786).
* **Parson** - lib/parson.c on sequences of tokens: the parser, the writer,
  `json_value_equals`, `json_validate`.
* **JsonTree** - the values of parson in memory, with parents, the two arrays of an
  object and their capacity, and every call that changes them; each call is an
  operator from one heap to the next, each action one call.  A name with dots is a
  sequence of names.
* **Documents** - the abstract specification of those calls: documents are functions
  from paths to types, a call makes, ends or changes one, or puts one into another.
  JsonTree implements it (`ImplementsDocuments`): a value without a parent stands for
  the document of what it reaches; addresses, order of members and capacity
  disappear.  A step of JsonTree is shown to be *some* call of Documents or none: which
  call is not tied to the action by the refinement as such, only by what the two change;
  in the proof every action is mapped to a call of its own.
* **ConfigText** - what a text says, by its grammar: the reference for Parson.
* **Startup** - what the two `main` functions share: the next statement, what each
  pointer points to, and the statements that use and free pointers.
* **ClientMain** - `main` of the client, one action per statement that can fail, own
  or release something; `Dispatch` is where module Client runs.  `inet_addr` is a
  function on the strings that are addresses in numbers and `INADDR_NONE`
  (255.255.255.255) everywhere else; nobody checks it.  The string that
  `password_string` returns at client.c:200 is leaked; main keeps no pointer to it and
  the model does not follow it.  What parson makes of
  a text is a parameter (`Parsed`, `Validates`): the run MainStarts gives it the parser
  and the `json_validate` of module Parson, the theorems hold for any.
* **ClientConfig** - what `main` of the client makes of the text of its file with
  module Parson, against what the text says by its grammar.
* **ServerMain** - `main` of the server, with its table of 256 bytes.
* **MC...** - instances for TLC: streams, tables, inputs.
* **StreamTheorems, LibEventTheorems** - lemmas about the operators of Password and
  of LibEvent and SecureSocket, for the modules with theorems: **ClientProofs,
  ServerProofs, LoopProofs, PasswordProofs, JsonTreeProofs, MainProofs**, section 5.

Composition: Client and Server extend SecureSocket, which extends LibEvent, which
extends Password; Client instantiates Relay.  ClientMain extends Startup and
JsonValue, ClientConfig extends ClientMain and ConfigText, which extends Parson, which
extends JsonValue; ServerMain extends Startup, MCMain runs both.
PasswordString extends Shuffle and JsonString and instantiates Base64; JsonTree
instantiates Documents.
ClientMain ends in the assumption that Client starts from: a base, a listener and a
password that decoded to a table (not necessarily a permutation).

Some definitions come right before another one with nearly its name and a comment
"Mutant of ...": they are the bugs that PROJECT.json pairs with a property to show
that the property notices.  No specification uses them.

Outcomes of the process.  `proc` is "running", "exiting" (SIGINT was caught, the
loop ends in one second), "stopped" (the loop has ended), "killed" (SIGPIPE, which
nothing ignores), "crashed" (an unassigned or NULL pointer is given to
`bufferevent_clear_free`) or "undefined" (freed memory was used or freed again, or
memory that is no bufferevent was freed).  Nothing follows the last two.
Undefined behaviour is nondeterministic: the unassigned pointer that server.c:199 frees
(`ParseFails`) crashes the process, or names `bev` itself, memory that is no bufferevent
or one that is gone ("undefined"), or names any bufferevent in use, of this connection or
of another, which is then freed.

## 3. Runs

Deadlock is not checked: the process ends, peers fall silent, loops finish.

| run | instance | question and answer |
|---|---|---|
| Client | 1 connection, 2 different bytes each way, 2 descriptors; 55 874 states | all safety properties of the client and `ImplementsRelay` hold, and under the loop's fairness `LocalEndReleases` and `Delivery` |
| ClientRemoteEnd | as above, one byte out | **violated**: nothing closes the application's side when the other proxy ends the connection |
| Codec | all 27 tables of 3 bytes, all messages up to 2; 3 591 states | the loops compute the operators; exactly the last-index bytes survive a bad table |
| CopyLoop | buffer of 2, inputs of 0 to 5 bytes; 152 states | the loop moves everything; -1 exactly on empty input |
| PasswordString | table of 4, all 256 sequences of draws; sources of 1 to 4 bytes out of 6, base64 strings of up to 8 characters; every string of one byte, texts of up to 6 characters, escapes at 12 edges in pairs; 46 830 states | always a permutation; bits regrouped exactly; what is accepted; a password comes back from the configuration as it was; parson reads what it writes and exactly what RFC 4627 lets stand between quotes |
| JsonTree | 4 values, 3 names, all sequences of calls, with symmetry; 9 344 states | the arrays fit, every value has one owner, what is set is got, and `ImplementsDocuments` |
| ServerAhead | a client that sends all at once, greeting as long as the buffer; 573 129 states | what is relayed is one piece of the stream; answers in order; which address a relayed connection has been dialled at; what crashes the server; no bufferevent outlives the other or is used after it, the pointer of server.c:199 apart |
| ServerAddress | as above | **violated**: a relayed connection has been dialled at another port than it asked for |
| ServerServed | a client that waits for each answer and then goes on, fair loop | **violated**: nothing is ever dialled, although the greeting arrived whole and the client is ready to go on |
| ServerTwice | two exchanges through one connection | **violated**: the second replaces `remote_bev` |
| MainStarts | both programs, every statement of `main` that may fail, some 6 000 files; 131 906 states | the client accepts the files it can use, starts as they say, with 255.255.255.255 for a host name, and releases all it holds, the base last; what it has read can be written and read again; four failures crash |
| ServerExit | `main` of the server | **violated**: the base is freed before what is attached to it |

Why the bounds are enough.  The client treats bytes alike and connections apart:
two *different* bytes each way are the least that can be split, merged, swapped or
doubled, and the cipher of the instance is a permutation that is not its own
inverse, so that encoding and decoding differ.  Every read and write takes any
part of what is there.  One connection with two descriptors reaches every path of
`local_listener_cb` and the exhaustion of accept; for several connections the
theorems of section 5 hold.  The copy loop's inputs are below, at, above and at a
multiple of its buffer.  A table of three bytes has tables with no, one and two
collisions.  Base64's octets set and clear every bit that a mask or shift touches
and the strings hold a lone digit, a pad and a foreign character in every
position; a password of 4 bytes leaves a remainder of one byte, as 256 do, and its
string has 6 digits, fewer than the longest of the strings.  One byte decides how
`json_serialize_string` writes it, two or three show that it goes on at the right
place, and the escapes lie on both sides of each length of UTF-8 and of the
surrogates.  In JsonTree three members are the fewest of which the
removal of one moves another than its neighbour, and fill and grow arrays of 2;
four values make a tree of three levels beside another, or an object of three; the
calls do not look at addresses or at what names are, so that both are symmetric.  In the server's instances bytes are 0 to 10 and `SOCKS_BUF` is 11: as
257 in the code, the length of the longest greeting and more than a request
for an IPv4 address; two dialled sides show what a second exchange does.
`CrashesUndialledOrOnData` speaks of *a* connection that explains the crash, which in
this run can only be the one that crashed.  The configuration files are all of up to three tokens, all of
up to five that begin with a bracket, and everything one token away from a good file
(deleted, replaced, inserted), with numbers below, at and beyond the range of ports
and of int; `MAX_NESTING` is 1, so that a value within two brackets is too deep.  Ports
have two bits and numbers are counted in halves, so that truncation shows.

Fairness.  Assumed is what the loop does of its own accord: an owed callback runs,
a readable or writable socket is served, a connect ends (TCP gives up after its
retries), a timer fires (weak fairness of each, per connection and side: libevent
serves all active events before it polls again), and a deferred run gives up its
reference.  Nothing is assumed of peers, accepts, aborts or SIGINT, with one exception:
in `ServerServed` (`TalkingSpec`) a client that may go on does so (`Talk`), for of one
that falls silent after its greeting no server could parse a request; what is violated
there is the server's part.  No run asks for liveness of a server that has dialled:
where anything is dialled the states are too many for TLC's check of fairness, and
`ServerServed` shows that a client of the protocol never gets there.

## 4. Findings

* client.c:121 gives `remote_bev` no event callback: an application whose other
  proxy goes away waits for ever, and "close all" (securesocket.c:50) never happens
  (`ClientRemoteEnd`).
* server.c:82 reads the request in the callback that read the greeting: a client that
  waits for the answer is never served, however whole its greeting arrived and although
  it goes on as soon as it is answered (`ServerServed`).
* server.c:95 takes the port from the end of the second read.  It is the port asked for
  only if that read ends with the request, and then nothing is left to copy, which
  server.c:194 takes for an error: a connection that is relayed has always been
  dialled at a port made of what follows the request (`ServerAddress`), against
  server.c:41 and 77-81.
* server.c:159 parses whatever comes next on a relaying connection as SOCKS5 again
  (`ServerTwice`), against "SOCKS5 FINISH, START TRANSMIT" (server.c:192).
* server.c:323 frees the event base before the listener and the signal event, which
  use it when they are freed, after "exiting cleanly" (`ServerExit`).

Visible in the model without a line of the repository to set against it: bytes that
wait for the other side are dropped when the application closes; SIGPIPE kills the
process with all its connections; running out of descriptors ends the process with
exit code 0; the error paths of both `local_listener_cb` free unassigned pointers;
both `local_eventcb` use `bev` after freeing it (client.c:75, server.c:214), which
libevent's deferred run happens to make harmless; a failed dial leaks the `Client`, the
log of the configuration a string (client.c:200); a host name in the configuration is
dialled as 255.255.255.255 without an error;
the client crashes on a wrong number of arguments, on a port that it
cannot listen on (the check comes one line too late, client.c:196-197) and, after it
has begun to listen, on a password of another length, and frees its JSON twice when
the signal event cannot be added; it listens on the port modulo 2^16; the shuffle of
password.c:58 draws every number from the whole table, so it is not "kruth's"
(password.c:56) and not uniform; encode_write returns 0 and not the count of bytes its header names
(securesocket.h:31), which no caller looks at.

## 5. Proofs

All proofs are for every value of the constants, under the named assumptions of the
modules only: `PassLengthAssumption` (a positive table length), `StreamAssumption`,
`MaxFdsAssumption`, `PasswordAssumption` (the password is a table, not
necessarily a permutation), `SideAssumption`, `CodecAssumption` and
`CopyLoopAssumption` (tables are tables and inputs bytes, of any number), and for the server
`ServerAssumption`: its replies are bytes (`PASS_LENGTH > 5`) and its buffer holds a
request as far as the address (`SOCKS_BUF >= 8`; 256 and 257 in the code);
`JsonTreeAssumption` makes the values finitely many, NULL none of them, the first
capacity of an array positive, and names no numbers (a path in a document holds both, the
strings of the code and the places in arrays); `PasswordStringAssumption` says that what is encoded are
bytes, what is decoded and parsed are characters, and that an unsigned char holds every
byte of a table (`PASS_LENGTH <= 256`); `ClientMainAssumption` that there are ports and
ints, that addresses are numbers up to `INADDR_NONE` and that no string both decodes to a
password and leaves the size unset;
`ValidatesAssumption` that `json_validate` lets no file through that lacks one of the two
strings main asks for, which TLC evaluates with the parser of Parson on every file of
MainStarts.

* **StreamTheorems** and **LibEventTheorems**: what the operators do.  The first has
  the sequence facts (concatenation, prefixes, `encode_data` of a concatenation) and
  `DecodeEncode`, the cipher's round trip for permutations; the second what each step
  of the loop, of the peers and of the copy routines does to one bufferevent and
  its peer (`NetworkEffect`, the lemmas `...Moves`), and `Ordered`: heard bytes,
  output buffer, encoded input buffer and encoded wire, in that order, are the
  encoding of what was said (a prefix of it after the speaker's abort; nothing but
  heard being a prefix once the hearer has closed).
* **ClientProofs**.  Three inductive invariants.  `LifeInv` says of each connection
  what `Lifecycle` says and, to be inductive, which callbacks are set, that a read
  callback is owed exactly while the input buffer is not empty and that a held
  bufferevent has a deferred run; from it follow
  `ClientTypeOK`, `ClientLifecycle`, `ClientNoUseAfterFree`, `ClientReadOwed` and
  `ClientIsFreed`.  `FlushInv` adds when output waits for a write event, which is
  `ClientNoStalledOutput`.  `StreamInv` adds `Ordered` for each direction:
  `StreamIntegrity` alone is not inductive, because a step that hears more must know
  what the buffers hold.  From it follow `ClientStreamIntegrity` and
  `ClientLosesNothing`.  `ClientImplementsRelay` maps the initial state and every step: an
  accept opens a phase, a peer's step says, a write to a socket hears, the end of
  the last bufferevent ends the phase, and what else a step does is hidden from Relay; a
  hearing step is one of Relay's because of `StreamInv`.
* **ServerProofs**.  The inductive invariant `IInv` has, for each connection, five
  parts.  `Shape`: a live local bufferevent has a live `LsServer`,
  `remote_bev` tells which dialled bufferevents have been made, and what has not been
  made is untouched.  `In`: what a live client has said is what has been
  taken from it, what the server holds or has still to read, and what a reset lost,
  and nothing has been taken before the first dial.  `Out`: what is heard by and on its way
  to a destination is a piece of what the client said.  `Answers`: on the way to the
  client are the two replies and then what the destination said, `Ordered`.  `Addr`: if
  something was dialled and its connection relays, both reads of `parse_socks5` were full.
  The properties speak of what is heard, the invariant of what is on its way as well;
  without `In` nothing is known of what a read of `parse_socks5` returns.  From it
  follow `ServerTypeOK`, `ServerDestinationHearsAPiece`, `ServerAnswersInOrder`,
  `ServerDialledAddress` and `ServerCrashes`.  The invariant was checked by TLC first, on
  the instances of `ServerAhead` and `ServerTwice`.
  `ServerNoOrphan` has two hypotheses, because `NoOrphan` is false without either: there
  is one connection (the error path of `parse_socks5` may free a bufferevent of another,
  `ParseFails`), and behind the first `2 * SOCKS_BUF` bytes the client says nothing that
  decodes to 5 (`NoLaterGreeting`; else a second exchange may dial again, or fail to, and
  free the local bufferevent alone).  The instance of `ServerAhead` meets both.
  What it claims has an exception that `NoOrphan` names (`FreesUnassigned`): the process
  may be "undefined" after server.c:199 has freed an unassigned pointer, for that this
  happens cannot be excluded.  That `local_eventcb` frees its own bufferevent and then
  uses it (207, 214) is not an exception: the deferred run holds it.  Its
  invariant `Alone` says that the two sides of a relay live and end together and,
  because a later `parse_socks5` must fail, that neither the input buffer nor the wire
  of a relaying client holds the beginning of a greeting.
* **LoopProofs**: of Codec, `LoopsCompute`, `RoundTripHolds` and `SurvivesExactlyIfLast`,
  with `LoopInvariant` as the core of the inductive invariant; of CopyLoop,
  `CopyLoopCopiesAll`, from `Conserved`, which only the proof states: what has been
  moved, what the buffer holds and what is left are the input.
* **PasswordProofs**, for tables of up to 256 bytes and all inputs.
  `RandPasswordIsPermutation` comes from the fact that a swap keeps a permutation one;
  the other five from `PasswordInv`, which says of the whole way what is a permutation,
  what base64 has done so far, and that what goes in is what came out of the step before.
  *JSON strings*: `QuotedReadBack`.  The text that `json_serialize_string` writes is a
  concatenation of pieces, one per byte, and the places at which they begin are known
  (`Places`); `skip_quotes` and `process_string` are recursive functions of the place,
  so their values are stepped back from the last piece to the first.
  *Base64*: bytes are encoded by three and characters decoded by four, so the invariant
  says what the string holds in terms of the groups consumed (`EncodingAt`,
  `EncodedAt`) and of the bytes held back in `tmp`, and likewise for decoding
  (`DecodingAt`, `DecodedAt`).  `EncoderKeepsBits` and `DecoderKeepsBits` follow by
  splitting a bit's number into group, place in the group and bit (`SextetBits`,
  `OctetBits`), `PasswordIsReadBack` because decoding undoes encoding group by group.
* **MainProofs**, for every file and whatever parson makes of it.  `ClientInv` says for
  every statement of `main` which pointers are live, freed, NULL or unassigned
  (`ClientOwns`): `ClientCrashesOnlyThen` and `ClientExitReleases` speak of a crash and
  of the end, the ownership at each statement on the way is what makes them inductive.
  With it `ClientTypes`.  For the server `ServerPasswordIsPermutation`: its table is one,
  and stays what it was copied from.

* **JsonTreeProofs**, for any number of values and names.  The inductive invariant
  `Good` has three parts.  `Nodes`: each value is well formed (the arrays fit, only
  objects have names, none twice).  `Linked`: a container holds a value if and only if
  the value knows it as its parent.  `Ranked`: there is a rank that grows from a
  container to what it holds, so no value is below itself; without it `json_value_free`
  could reach the container that a value is being taken from.  What a release frees is
  the least closed set (`TreeIsLeast`, `TreeIsClosed`), by induction over a *set* of
  numbers, which needs no operator parameter.  From it follow `JsonTreeTypeOK`,
  `JsonTreeOwnership` and, with the lemma that what led somewhere still does (`Keeps`),
  `JsonTreeSetIsGot`.  Paths are of one or two names, as in the client: the fold over
  a path is unfolded.
  `JsonTreeImplementsDocuments` is the refinement of Documents, every action mapped to one
  of its calls or to no change.  The mapping is recursive, the path of a value being that
  of its parent and one step more; `TraceExists` and `TraceIsOne` say, from `Ranked`, that
  there is exactly one way to give every value a root and a path with these steps
  (`Traced`), `TraceIsInjective` that the two determine the value, and `TraceTree` that
  what a release reaches is what is at or below a path.  Then each effect on the
  heap is described once for all calls that have it: a value goes into a container
  (`Puts`, `PutDocuments`: *grafted*), a part is lost (`Loses`, `LostPart`), the items
  behind a removed one move up (`CloseTraces`; `Back` and `Forth` are inverse away from
  what is removed), a tree is copied (`Copied`, `CopiesPart`).  `Outcome` says what a
  call that is to put a value somewhere leaves when it fails: nothing, or the objects on
  the way.

Only model-checked: the liveness properties (out of the prover's reach); what the parser
and the writer of Parson compute (`ParsesAllAndOnlyValues`, `WrittenIsReadBack`,
`ChecksConfig`, `StartsAsConfigured`), which are recursive operators the prover cannot use;
`ReadsJSONStrings`, which compares the reading of any text with a grammar;
`NoOrphan` beyond the hypotheses of its theorem, without which it is false.

## 6. Not modelled

* Log output and the wording of messages (lib/log.c: levels and printing, nothing the
  programs depend on), tests other than as callers, build files.
* Of parson: the spelling of numbers (`strtod`, `sprintf`), white space and
  indentation, comments (the client never asks for them), booleans and null as further
  scalars in memory, the size pass of the serialiser, and a failing malloc.  Nothing
  in parson prevents a program from putting a value into itself; JsonTree leaves that
  to the caller (`Legal`).
* Memory that no pointer of the model stands for: the `Client` or `LsServer` of a failed
  connection is marked "leaked" and not followed further, the string of client.c:200 not
  at all; `ExitReleases` is about the pointers `main` keeps.
* What undefined behaviour does after it has happened.  In particular the indices
  before `buf` and the array of negative length in `parse_socks5` (server.c:95-101, after
  a read of less than six bytes) give a port nobody looks at or an end of the
  connection; `DialledAddress` is about connections that are relayed, for which both
  reads were full.
* Name resolution beyond what its result leads to; Windows.
* The two proxies back to back.  There is no tunnel to verify: by
  `ServerServed` the server serves no client that waits for its answers, and what
  passes through a connection of a client that does not is parsed again as SOCKS5
  (`ServerTwice`), so a composition would implement the identity relay only with a
  server other than this one.

## 7. Plan

1. (done) cipher, event loop, copy routines, client, abstract relay, server, base64,
   shuffle; type, life and stream theorems of the client.
2. (done) start-up and shutdown of both programs, configuration and parser.
3. (done) parson's values in memory as an implementation of documents, its strings
   and its writer; the way of a password through all of it; what the server dials and
   what crashes it.
4. (done) proofs: the client to its refinement of Relay, the server, the codec.
5. (done) proofs: the values of parson, and the life of a server's only connection.
6. (done) proofs: strings, base64 and the way of a password; `main` of both programs; the
   refinement of Documents by the values of parson.
7. Left: `ReadsJSONStrings`, by the length of the text; paths of more than two names.
