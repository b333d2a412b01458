# TLA+ models of JPSSL

JPSSL is a C++ library of cryptography and TLS. These modules model the code in which
several things meet: two programs and a network, callers and timers, coroutines and
descriptors, a clock and a cache, and, inside the algorithms, the buffers, blocks,
lanes and lengths around the numeric kernels. The kernels themselves (block functions,
compression functions, curve and modular arithmetic) are opaque.

Contents: [inventory](#1-inventory), [plan](#2-plan), [modules and
code](#3-modules-and-code), [runs](#4-runs), [fairness](#5-fairness),
[proofs](#6-proofs), [violations](#7-what-the-violations-show), [divergences without a
run](#8-divergences-without-a-run), [not modelled](#9-not-modelled),
[limits](#10-limits).

## 1. Inventory

### Components

All files are in `src/src/` unless a path is given.

| Component | Source | State | Operations | Modules |
|---|---|---|---|---|
| Reassembly of DTLS handshake messages | `dtls.cpp` `collect_handshake` | `recv_msg_seq`, `reassembly_*`, `retransmit_requested` | one fragment of a record | `DtlsReassembly`, `InOrderDelivery` |
| DTLS session and record layer | `dtls.cpp` | `dtls_session`: epochs, record numbers, secrets, transcript, `last_sent`, ACK list | protect, unprotect, parse a datagram, frame a flight | `DtlsSession` |
| DTLS client, server | `dtls.cpp` `client_step`, `server_step` | the same session | one step per datagram | `DtlsClient`, `DtlsServer`, `Dtls` |
| `dtls_connection` | `dtls.cpp` | `s_`, `open_`, retry counter and deadline of the loops | `connect`, `server_handshake`, `send`, `recv`, `close` | `Dtls`, `SecureChannel` |
| DTLS 1.3 record numbers | `dtls.cpp` | `send_epoch`, `send_seq`, `recv_epoch`, `recv_seq` | protect, unprotect, switch of epoch | `DtlsRecordNumber` |
| TLS handshakes | `tls12_client.cpp`, `tls12_server.cpp`, `tls13_client.cpp`, `tls13_server.cpp`, `tls_router.cpp`, `tls_socket.cpp` | `tls_session`: configuration, transcript, shares, keys, record numbers | ClientHello, both flights, Finished, the loops that read them | `TlsParameters`, `TlsSession`, `Tls12Client`, `Tls12Server`, `Tls13Client`, `Tls13Server`, `TlsHandshake` |
| Resumption, tickets, 0-RTT | `tls_router.cpp`, `tls12_server.cpp`, `tls13_client.cpp`, `tls13_server.cpp` | the process-wide session cache; PSK, ticket age, early keys | store, look up, resume; issue, present, accept a ticket; early data | `Tls12SessionCache`, `Tls13EarlyData`, `TlsResumption` |
| `tls_connection`, data | `tls_socket.cpp`, record layer of `tls_router.cpp` | `open_`, `rbuf_`, `datagram_`, `ktls_active_`, record numbers | `send`, `recv`, `co_send`, `co_recv`, `enable_ktls`, `close` | `TlsSocket` |
| `tls_co_executor` | `tls_socket.cpp` | list of waiters | `add_waiter`, `run_once`, `run` | `TlsSocket`, `TlsEndpoints` |
| Endpoints: `tls_connection`, `tls_listener` | `tls_socket.cpp` | `sock_`, `open_`, `owns_socket_`, `datagram_` | `connect`, `attach`, `listen`, `accept`, `accept_udp`, `close`, destructors | `TlsEndpoints` |
| Certificate Transparency | `ct.cpp` | roots, entries, leaf hashes, last tree head | `add_chain`, `add_pre_chain`, `get_sth`, proofs, SCT formats, precertificates | `CtLog` |
| X.509, keys, trust stores | `x509.cpp`, `tls_router.cpp` | the cached roots of the system | encode, parse, issue, verify; load keys and stores | `Codecs`, `X509`, `X509Keys` |
| Cipher modes | `aes_*.cpp`, `sm4*.cpp`, `chacha20*.cpp`, `poly1305*.cpp` | running hash, counter, partial block, chunk in flight | seal, open, pad, dispatch by CPU | `CipherBlocks`, `GcmModes`, `CcmModes`, `ChaChaPoly` |
| RSA | `rsa*.cpp` | none that survives a call | encrypt, sign, verify and decrypt, in batches, Montgomery kernels, key generation | `Rsa` |
| Hashes and key derivation | `sha*.cpp`, `sm3*.cpp`, `hkdf.cpp` | buffer, length, position of the sponge | update, final, squeeze, HMAC, HKDF, batches | `Hashes` |
| Base64 | `base64*.cpp` | none | encode, decode, vector kernels | `Codecs` |
| QUIC TLS layer | `tls_quic.cpp` | none of its own | varint, transport parameters | `Codecs` |
| kTLS | `ktls.cpp` | none of its own | the switch of a connection | `TlsSocket` (the switch) |
| Curve arithmetic, random numbers, GPU, command line, Android and iOS | the rest | none that survives a call | functions and glue | none, see section 9 |

### How they interact

* `dtls_connection::connect` and `server_handshake` run a loop on the caller's
  thread: wait for a datagram, hand it to `client_step` / `server_step`, send what the
  step returned. A step parses the datagram into records, opens them with the keys the
  session has at that moment and passes handshake payloads to `collect_handshake`,
  which calls `process` for each whole message. Records of DTLS 1.3 that cannot be
  opened yet are tried again after the messages before them have derived keys. The
  endpoints share nothing but the network; `last_sent` is the only thing sent again.
* `do_client_handshake` does not know how many records the server's TLS 1.3 flight
  has. It processes a copy of the session with what has arrived whenever nothing more
  is readable, keeps the copy when that works, and gives up when nothing arrives for
  250 ms.
* `tls_connection` keeps one record number per direction; `tls_encrypt` and
  `tls_decrypt` advance it, not the writes and reads of the socket. Blocking,
  non-blocking and coroutine calls share `rbuf_` and the session.
* Coroutines are resumed by one thread in `tls_co_executor::run_once`, which remembers
  a descriptor by its number; connections and listeners close descriptors and the
  kernel hands the numbers out again.
* The TLS 1.2 session cache belongs to the process: every server connection stores to
  it and reads from it. TLS 1.3 tickets are carried by the applications.
* The TLS handshakes take certificates from `X509Keys` (loading) and verify chains as
  in `X509`. A CT log verifies chains with the same code and signs the roots of its
  Merkle tree.

### What is hard

Datagrams that are lost, repeated or reordered; records that arrive before their keys;
timers that race with answers; the last flight of a handshake, whose sender does not
wait for an answer; flights cut into records in ways the receiver does not know;
negotiation in which each side chooses from what the other offered; counters and ages
that wrap; clocks that are set back; a cache at its limit; partial writes and reads in
the middle of a record; a call that fails after it has changed the session; coroutines
that wait for each other or outlive their descriptor; descriptors that are owned, lent
or given away; back ends that must agree at every length and hand a running state to
one another; lengths and numbers at the limit of their encoding. `PROJECT.json` lists
each at its line under `hazards`, with the properties that cover it.

### What correct means

* Reassembly: messages reach `process` whole, in order, once; no buffer is stuck.
* Handshakes: sides that complete agree on keys, suite, protocol and record numbers;
  what is negotiated was offered by both; without a trusted server nobody completes;
  compatible sides complete; every handshake ends; loss is repaired.
* Resumption: a session is continued with its own secrets, while it lives, and a fresh
  ticket is accepted; early data opens.
* Records: a number is used once under a key; a good record that is not too old opens.
* Data: what `recv` returns was sent by the peer, in order, once; a call that waits
  loses nothing; nothing waits for ever.
* Endpoints: only its owner closes a socket, somebody does, and no coroutine touches
  another's.
* Algorithms: every back end computes what the standard defines, at every length and
  cut; a changed message is refused; decoding inverts encoding; a chain is accepted
  exactly when it holds.
* Log: every promise the log has signed stays true and can be audited.

## 2. Plan

The order in which the modules were written, the most important first: DTLS reassembly
with its abstract specification and proofs; the DTLS endpoints with `SecureChannel` and
proofs; record numbers with proofs; the data path of TLS sockets with proofs; the TLS 1.2 and 1.3
handshakes with proofs; resumption and early data with proofs; endpoints with proofs; the algorithms, codecs
and certificates; the CT log with proofs; RSA.

Left to do:

1. Theorems about the rounds of `RsaHolds` and `CiphersMatch` that a fold carries from
   one block to the next, which `FoldSteps` puts within reach.
2. Two connections in one `TlsSocket`, so that two `co_send` on one connection, which
   nothing serialises, can be said to break the stream and be shown to.
3. Runs for the other divergences of section 8 that are reachable in the modules.

## 3. Modules and code

| Module | Role |
|---|---|
| `InOrderDelivery` | abstract: messages are delivered in order, once, or delivery is aborted |
| `DtlsReassembly` | `collect_handshake`; refines `InOrderDelivery` |
| `DtlsSession`, `DtlsClient`, `DtlsServer` | `client_step` and `server_step` as functions from a session and a message or record to a session and a flight |
| `SecureChannel` | abstract: two endpoints that share a key when both are open; delivery only of what was sent |
| `Dtls` | `dtls_handshake_step` on a datagram, both connections and the network; refines `SecureChannel` |
| `DtlsRecordNumber` | numbering and reconstruction of record numbers |
| `TlsParameters` | suites, groups, signature schemes and the functions that choose among them |
| `TlsSession` | `tls_session`, transcript, keys, certificate managers and the client's checks |
| `Tls13Client`, `Tls13Server`, `Tls12Client`, `Tls12Server` | the messages of each side as functions of the session |
| `TlsHandshake` | both sides over TCP, or QUIC, with the loops of `tls_socket.cpp` |
| `Tls12SessionCache`, `Tls13EarlyData`, `TlsResumption` | the two ways to continue a session |
| `TlsSocket` | application data of two `tls_connection` objects, the kernel's buffer, the executor |
| `TlsEndpoints` | which object holds which descriptor |
| `CipherBlocks` | bytes as sums of atoms, blocks, counters, the padded modes |
| `GcmModes`, `CcmModes`, `ChaChaPoly`, `Hashes` | the symmetric algorithms and their back ends |
| `Rsa` | the encodings of PKCS #1, batches, Montgomery limbs, the Chinese remainder, key generation |
| `Codecs` | Base64, the integers and transport parameters of QUIC, the bytes of DER |
| `X509`, `X509Keys` | certificates, keys, stores |
| `CtLog` | Certificate Transparency: Merkle tree, log, formats |
| `Algorithms` | one call to any of these, and the life of a log |
| `...Proofs` | inductive invariants and theorems |
| `MC...` | instances for TLC |

**DtlsReassembly.** The variables are the fields of `dtls_session` with the same names.
An action is one turn of the loop over the fragments of a record; the branches of the
loop (`OldMessage`, `FutureMessage`, `WholeMessage`, `StoreFragment`, `LastFragment`)
are the actions. The fragments are all ranges of all messages of the peer, at any time
and any number of times, which contains every order, overlap, repetition and loss.
`process` accepts or rejects freely.

**DtlsSession, DtlsClient, DtlsServer.** A session is a record with the fields of
`dtls_session` that a branch depends on. A key is the term it is derived from: two keys
are equal exactly when they are derived from equal inputs. A record carries its epoch,
number, key and content; it opens where the receiver has the same key. A signature or a
Finished message carries the transcript it covers and is compared with the receiver's.
`process` is one operator per message, called in the order of the datagram; the
trailing parts of a step (retrying pending records, resending `last_sent`, the ACK of
DTLS 1.3) are part of the same step. In `Dtls` the handshake works on whole messages;
that fragments yield whole messages is what `DtlsReassembly` shows.

**Dtls.** `Connect` is the beginning of `connect`; `HandshakeDatagram`, `Timeout`,
`HandshakeDeadline` and `SocketError` are the ways one turn of either loop can go;
`Send`, `Recv`, `CloseOpen` are the calls on an open connection. The network holds a
set of datagrams per direction; it delivers any of them, keeps a copy or loses one.
`env`, chosen once, is how the connections are configured and what the world may do.
`env.split` names the endpoints that put each record of a flight in a datagram of its
own; this code puts a flight in one datagram, but other implementations do not, and the
receiving code says it accepts both.

**DtlsRecordNumber.** The 16-bit wire field is `2 * Half` values wide. `recv_seq` is one
counter for all epochs, as in the code: a late record of epoch 2 after the switch to
epoch 3 sets it back. `EarlyRecordsOpen` states what survives this: while no epoch has
used half the wire range every record opens. For longer connections `NearRecordsOpen` is
what holds.

**TLS handshakes.** A session is a record again, and a key, a MAC, a signature or a hash
is the tuple of its inputs. `Tls13Client`, `Tls13Server`, `Tls12Client` and
`Tls12Server` have one operator per function that makes or processes a message, in the
order of its checks. In `TlsHandshake` an action is one turn of a loop of
`do_client_handshake`, `do_client_handshake_tls12` or `do_server_handshake`: reading what
has arrived, trying a copy, giving up, writing. `conf`, chosen once, is what the two
applications have configured. A server may be one of another make (`foreign`) that cuts
its flight into records and sends alerts, because the reading loops exist for such
servers; the client may sit behind a network that stalls (`slow`). The checks of the
client are those of the code; `Trusted`, `Compatible13`, `Compatible12` and the other
definitions the properties use are written without them.

**Resumption.** `Tls12SessionCache` has the vector of entries, expiry on lookup and
store, and the eviction of the oldest entry; the wall clock may be set back. Its client
is one of another make, since jpssl's own never names a session. `Tls13EarlyData`
has the ticket, the obfuscated age in `AgeModulus` values, the binder, and early records
under their own keys; a ClientHello may come again to a fresh server session. `Loads`
says which fields of the PSK the server's application carries over.

**TlsSocket.** A record is `RecordUnits` pieces, so that the kernel can cut it anywhere;
in datagram mode a record is one datagram. `use`, chosen once, is the version, the
records and messages, and the mode of each side. The caller sends the messages and
repeats a call that would block; `recv` is called again whatever it returned. An action
is one turn of the loop around `::send` or `::recv`, or the handling of one complete
record. A coroutine runs from one suspension to the next, and only one at a time.
With `ktls` the receiver may hand its record numbers to the kernel at any moment between
two calls, with records in `rbuf_` or not; the kernel opens what it reads from then on.

**TlsEndpoints.** `kernel` is the table of descriptors; `obj` has the fields of each
object; `duty` says who has to close a descriptor by the contract of `attach`, `accept`
and `accept_udp`. Each call is an action per way it can end, the failures included. A
waiter is a descriptor number and the connection that waits: `Resume` is what
`run_once` does when it finds the number readable. The one descriptor whose duty the
documentation and the code see differently is kept in `lent` (section 8).

**Algorithms.** A byte in `CipherBlocks` is the set of atoms it is the sum of (message
byte, key stream byte), and XOR is the symmetric difference, so two byte strings are
equal in the model exactly when the code's are for every key and message. A GHASH or
Poly1305 value is a polynomial: a set of terms with their power. The chaining value of a
hash is the sequence of blocks compressed. Each back end is an operator (scalar, AES-NI
and PCLMULQDQ, AVX2, VAES and AVX-512, GFNI, NEON), with its group size, its tail and
its hand-over of the running state, and the dispatchers choose between them by the
features of the CPU. Sizes are scaled down by constants named for what they are in the
code (`BLK`, `CTR`, `LANES2`, `CHUNK`, `HB`, `RATE`, `COUNT`). `Codecs`
works on real byte values, or on bytes of `BYTE` values
where the ranges are what matters. In `X509` DER is a tree of tagged values and a
signature remembers who made it, how and over what. `Algorithms` makes one call
(`call`, `answer`), or opens a log and lets it live.

**Rsa.** Its encodings are over the same bytes, with two atoms for a byte of a digest
because PSS clears the top bit; a signature or ciphertext is named by the block it is the
power of and by whether it is below the modulus. Tiers and digests have a sixteenth of their
length. Below the encodings it is arithmetic on numbers: the kernels of a batch limb by limb
with limbs of `LIMB_BITS` bits, each carry and borrow as the code finds it, and the Chinese
remainder and key generation over small primes. A search for a prime is what it ends with,
a prime or its deadline. The AVX2 and AVX-512 kernels are modelled although
`rsa_batch_decrypt_dispatch` no longer calls them.

**CtLog.** The log's roots, entries, leaf hashes, timestamps and last tree head; the
clock may show anything each time it is read (it is the caller's function, or the wall
clock), and the code reads it twice in one submission. The histories `scts` and `sths`
are what has been signed.

## 4. Runs

`tlc -config <cfg> <module>`, each in `PROJECT.json` under `runs`. The modules of
`tls_resumption` and `endpoints` are the components themselves; they need no definitions
for TLC beyond their constants. `MCDtlsRecords` explores two components that share no
variable one after the other: the record numbers once the last message is processed.

| Run | Bounds | Shows |
|---|---|---|
| `records` | three messages of 4, 0 and 6 bytes; a wire field of 8 values, numbers up to 18 | messages in order, once, byte for byte; the count of missing bytes is exact; refinement of `InOrderDelivery`; no wedged buffer. Numbers: uniqueness, reconstruction at two wraps, monotony |
| `dtls` | the environments below | `KeysAgree`, `NoHonestFailure`, `UnauthenticatedNeverCompletes`, `NonceUnique`, refinement of `SecureChannel`; on a prompt network the sender of the last flight always completes; both loops end, although each datagram resets the retry counter |
| `socket` | records of 3 pieces, kernel buffer of 5, 6 or 8 records in 4 or 6 messages, 10 record numbers, eight uses | waiting calls lose nothing and deliver everything; retried calls never cut a record or repeat a payload; datagrams; the switch to kTLS |
| `tls_handshake` | the configurations below | who completes agrees on everything and has authenticated the server; compatible peers complete; every handshake ends |
| `tls_resumption` | a cache of 2 entries, 4 sessions, lifetime 3, clock up to 5; 2 tickets, ages modulo 8, 2 early records | sessions resume under their own secrets and keep their place; tickets are accepted exactly when fresh, across the wrap of the age; early data opens |
| `endpoints` | 2 connections, 1 listener, 3 descriptors: a number can be closed, given to another object and closed again | nobody closes, leaks or reads another's socket |
| `algorithms` | the calls below; trees of up to 9 leaves; logs of 3 entries and 2 heads for each kind of key | every back end equals the standard's definition; altered messages are refused; RSA gives back what was put in; codecs, certificates and the log keep their promises |

Five more runs are expected to be violated; see section 7. The deadlock check is off
where the system really stops (connections close, bounds of the clock and of the
numbers are reached) and on in `tls_handshake`, `endpoints` and `algorithms`.

What differs between connections is chosen in the initial state, so that one run covers
it. For `dtls`: DTLS 1.2 with the cookie exchange and DTLS 1.3, each with the four
outcomes of certificate selection and verification, 1 loss, 1 repetition, 2 retries and
one payload each way, in 1.3 with a deadline at any moment; DTLS 1.3 with two payloads
each way; both versions with one record per datagram, in any order, and one repetition;
both on a prompt network with 2 losses, 2 repetitions and 3 retries; DTLS 1.2 with 1 loss,
1 repetition and 2 retries, waits that expire at any time and any certificate outcome.
For `socket`: blocking calls of TLS 1.3, coroutines of both versions, two mixtures of
blocking and coroutine, blocking calls of TLS 1.2 with the switch to kTLS, datagrams,
and non-blocking calls of TLS 1.3 whose callers retry and may close at any time. For
`tls_handshake` (`MCConfigurations`): each of eight key types with each of four groups
in both versions; trust stores and certificate managers with good, expired, foreign and
misnamed certificates, with and without verification, own and foreign servers; clients whose
certificate manager holds nothing (`ByNothing`); pinned
suites with QUIC and application protocols; restricted signature lists on either side;
TLS 1.2 servers with few suites and with right, wrong and missing pre-shared keys; slow
networks. For `algorithms`: every mode and algorithm on each class of CPU at lengths
around a block, a group, two groups, a chunk and two chunks, with IVs whose counter is
about to wrap; every hash cut into up to three pieces around one and two blocks, in
batches, HMAC and HKDF; RSA blocks with a change in each byte, other hashes, salts and
labels, batches of up to 13 records for four threads, every base below 2^6 under twelve
moduli of three limbs of two bits, and every course of the searches for two primes; Base64 around the groups of both kernels and with every
character at the borders between kernel and scalar code; integers at the limits of each length; certificates of each pair of
key types, hash and scheme; chains with every link, date and flag wrong; keys in every
form.

**Why the bounds are enough to be interesting.** The messages of the reassembly cover an
empty body, bodies with equal and with zero bytes (a hole looks like a zero byte), and a
body that needs more than two fragments. In the DTLS runs one loss and one repetition in
any place produce each flight twice, in both orders against its answer; the bound on
retries is reached. In `records` the counter passes the end of the wire field
twice. In the socket runs the buffer is smaller than a message and not a multiple of a
record, so every write blocks in the middle of a record. In `tls_resumption` the cache
is full while sessions live and the clock passes a lifetime; an age passes the modulus.
With three descriptors a number is closed, given to another object and closed again
while a coroutine remembers it. The scaled block sizes keep what the code depends on: a
group of lanes is several blocks, a chunk is several groups, a counter wraps inside a
message, the length field does not fit behind a nearly full block. `max_retries` is 8 in
the code; `max_app`, `max_loss`, `max_dup`, `MaxSeq`, `MaxSessions`, `MaxTime`,
`MaxTickets`, `MaxClock`, `MaxData`, `MaxEntries`, `MaxHeads` bound what is unbounded.

**Prompt networks.** `FinisherCompletes` assumes a network and peers that are quick
against the timers: a wait expires only when no datagram is on its way to an open
socket, and of two waits the one that has been doubled less often ends first (`Slack`).
Without it a timer that is always early exhausts any number of retries and refutes
nothing. `CompatibleCompletes` assumes that the network does not stall for 250 ms
(section 8).

## 5. Fairness

* `DtlsReassembly`: the peer retransmits its flight until it is answered, cut the same
  way each time (`RetransmittedCut`), and the network does not lose a datagram for ever.
  All other cuts remain possible and are not forced.
* `Dtls`: a thread blocked in a loop wakes up when its wait expires (`WaitExpires`), a
  caller that has called `connect` gets to run (`StartConnect`), and a datagram that is
  not lost is read by an endpoint that is still there (`ClientReads`, `ServerReads`).
  Nothing is assumed of losses, repetitions, deadlines, `close`, or application data.
* `TlsSocket`: both threads, or the thread that drives the executor, keep running. The
  kernel's buffer needs none: a write or read that can proceed is a step of the thread.
* `TlsHandshake`: both programs keep running, and TCP delivers. This is weak fairness
  of the next-state relation, written `[]<>Over \/ []<><<Next>>_vars`: a step is possible
  until the handshake is over, which the deadlock check of the same run confirms, so
  `Over` stands for "no step is possible" and TLC need not search for one.

## 6. Proofs

Checked by TLAPS (`tlapm <module>`), for every value of the constants.

**`DtlsRecordProofs`** has two parts. The first, about `DtlsReassembly`, assumes that the
peer's messages are a sequence of records with a type and a body of numbers
(`MsgsAssumption`). The inductive invariant `IInv` joins `TypeOK`, `BufferIsCurrent`,
`ReceivedBytesFaithful`, `RemainingIsMissing` and `InOrderExactlyOnce`; none is inductive
alone: the count is right only for a buffer of the right length, the bytes are faithful only
if the buffer belongs to the expected message, and what `process` gets is the peer's message
only because a count of zero means that every byte has arrived (`MissingCount`, from the
cardinality theorems). Theorems: `TypeCorrect`, `InOrder`, `CountsMissing`, `NeverForeign`,
and `Refinement`: `collect_handshake` implements `InOrderDelivery`.

The second, about `DtlsRecordNumber`, assumes `Half` positive and `MaxSeq` natural. Its
invariant adds to `NumberTypeOK` and `NumbersUnique` that every number of the current epoch
is below `send_seq` and no record is of a later epoch (`NumberedBefore`), and that
`recv_seq` is zero or one above the number of a record that was sent (`RecvFromSent`).
`ReconstructExact` is the arithmetic: two numbers less than half a lap apart are in the same
or in neighbouring laps, and in each case the code picks the right one. Theorems:
`NumberTypeCorrect`, `NonceNumbersUnique`, `NearOpens`, `EarlyOpens`, `Forward`.

**`DtlsProofs`** takes any set of environments (`EnvironmentsAssumption`): either version, any
suites, any outcome of certificate selection and verification, any bounds on losses,
repetitions, retries and payloads, flights in one datagram or one record each. Messages are
handled in the order of `message_seq`, so what a side says is a function of the environment `k`
and of how many messages it has handled: every message and every stage of the transcript has
a name (`CH(k)`, `SH(k)`, `Heard5(k)`, `Read6(k)`). The inductive invariant `IInv` says of the
environment of this connection (`Inv(k)`) that each endpoint is idle, has `Failed`, or is
`Resting` at one of a few stages with exactly the fields of that stage (`At`); that nobody has
handled more messages than the peer has sent (`Follows`); that everything ever sent is a
handshake record of this connection, a payload or the one ACK, each under its number and key
(`SentRecords`); that what the network holds has been sent (`Underway`); and what `last_sent`
and the payloads of the application hold (`LastFlightSent`, `AppData`). None of the four safety
properties is inductive: that keys agree needs the transcripts to agree, and those follow only
from the stages.

A step of the code parses, opens, collects and retries in folds over the records of a
datagram. `Mid` is what holds between two records, each message has one lemma per side, and
`FoldSteps` carries `Mid` through the folds; `Stepped` is what a whole step leaves. Theorems:
`InvariantHolds`, `DtlsKeysAgree`, `DtlsAuthenticates`, `DtlsHonest`, `DtlsNonceUnique`, which
hold for any number of losses, repetitions and retries in any order, and `DtlsImplementsSecureChannel`:
a datagram opens or closes an endpoint of `SecureChannel` or is a stutter, a timeout, deadline,
socket error or `close` closes one, and `Send` and `Recv` are its `Send` and `Receive`. `Recv`
needs that what was sent was sent by an endpoint that was done, whose key is then the
receiver's (`SenderDone`). TLC has checked `IInv` on the instance of the run `dtls`.

**`TlsEndpointsProofs`** assumes that the objects, the application and `nobody` are
different (`EndpointsAssumption`); the number of connections and descriptors is
arbitrary. `NothingLeaks` is not inductive: that closing a socket leaves no other object
with it needs that an open object holds a descriptor (`OpenHasSocket`), that what it owns
is its duty to close (`OwnsItsDuty`), and that a descriptor an `accept_udp` has taken
from its lender is held by one connection (`LentIsHeld`); `EndpointsInv` joins them.
`AfterClosing` states once what a close leaves, and every action that closes first and
assigns then uses it. Theorems: `NeverClosesAnothers`, `NeverLeaks`, `NeverForeignIo`.

**`TlsSocketProofs`** takes any uses, any record of at least two units and any capacity of
the kernel (`SizesAssumption`, `UsesAssumption`). The proofs follow from one picture: `rbuf_`,
the kernel's bytes and what `write_all` still holds are one `Stream`. Each record in it comes
`After` the one before: its number is greater, and where it is the very next number its
payload is the very next one too. The stream starts at the number the receiver expects and
ends at the number the sender uses next (`Chain`, `HeadInv`, `TailInv`, joined in
`FlowInv`). A record that is lost, skipped unopened or abandoned by a send that would block
leaves a gap in the numbers, which never closes, and no record behind a gap opens; where
there can be none (`Strict`), "after" means right after. `StreamFramed`, `NoDecryptFailure`
and `OrderedOnce` are not inductive: that a prefix of the stream is a whole record needs the
chain, that the record opens needs the numbers of both ends, that a payload is not returned
twice needs what a call that has not returned yet holds (`TakenInv`), and that none is left
out needs that a record can open only while everything up to `read_seq` has been taken
(`GapInv`). The executor needs that a suspended call is in exactly one of `waiters` and
`ready` (`ExecutorInv`). `MoveFront`, `TakeRecord`, `LoseRecord` and `AbandonRecords` say once
what moving bytes, reading a record, losing one and giving up a send do to a chain, and
`DivMod...` how the count of written bytes falls into records; `IInv` joins all of it. Theorems: `Invariant`,
`Framed`, `InStep` and `InOrder`; `InOrder` holds in every use. `Framed` leaves out a partly read
record that `enable_ktls` of a non-blocking connection drops, and `InStep` (`Dependable`)
also datagrams, which may be lost, and TLS 1.2 handshake records that are skipped unopened.

**`TlsHandshakeProofs`** takes any set of configurations whose client offers one version, with
QUIC only over TLS 1.3 and on both sides, and whose lists are sequences
(`ConfigurationsAssumption`): any key types, groups, suites, trust stores, certificates,
secrets and protocols, servers that cut and pause as they like. A server's answer is a
function of the two configurations, so each of its messages and each stage of its transcript
has a name for the configuration `k` (`Hello(k)`, `SH13(k)`, `Signed13(k)`, `Flight12(k)`).
`IInv` says, for the configuration of this handshake, what may be on the wire (`Wire13`,
`Wire12`: records of exactly these messages, ChangeCipherSpec, alerts), and what each session
holds at each place: `Beginning` up to the first answer, `Inv13` from there, and in TLS 1.2
`Flying12` while the client collects the flight (only the last record may hold
ServerHelloDone, so the client cannot go on with part of it) and `Exchanging12` after it
has answered (whose turn it is, and that the server's steps follow the client's). None of
the three properties is inductive: that keys agree needs the transcripts to be equal, and
those are tied together only by the Finished messages. A TLS 1.3 client tries its flight again
and again with parts missing, and a part of it may even be read without an error; what makes
a try that succeeds the whole flight is that a Finished covers everything before it
(`Result13Steps` and the lemmas after it). A TLS 1.2 server has the client's secret only
if the key exchange gives both the same premaster, which is shown per key exchange. There is
one lemma per action, and for TLS 1.2 one per message. Theorems: `Invariant`, `Agreement`,
`Negotiation` and `Authentication`. `ServerAuthenticated` speaks of the clients for
which `Checked(conf)` holds: the client has something to compare the server with, the
server's key can sign, and its certificate is not one that an authority issued to itself;
section 8 has what the code does without. `ConfigurationsChecked` in `MCTlsHandshake` says
that `Checked` holds of every configuration of the run but those of `ByNothing`. That a
handshake ends, and that compatible sides complete it, remain with TLC.

**`FoldSteps`** has what the proofs about handshakes, DTLS and the cache need of the community modules' folds: a
`FoldLeft` has a value after each element (`Steps`, by induction over the naturals
with a set, `NatSetInduction`), and `FlattenSeq` yields what its parts hold. The step is a
CONSTANT operator of the module, which an instance replaces, since a lemma cannot be given
an operator.

**`TlsResumptionProofs`** assumes that a second is positive and that the tolerance and every
offset are below the modulus (`AgeAssumption`). `EarlyInv` says what the client kept of a
ticket and put into its hello (`TicketsOk`, `HelloFits`), that its records are numbered from
zero under the key of that hello (`ClientOk`), and that a server which accepted has the same
key and the same count (`ServerOk`); `AcceptedDataOpens` follows, although session objects
are used again with the key and number of their last connection, because deriving a key
resets the number. For `AcceptsTheFresh`, `HiddenAge` shows that the offset gives the age
back up to whole laps, and `Comparison` that comparing a remainder with the full age and
its delays is right on both sides of a lap. The theorem supposes `Loads = {"all"}`: with the
fields of the README's example alone it does not hold (section 8).

For the session cache (`CacheAssumption`: room for one entry at least) `CacheInv` joins
`ResumesOwnSession` with what the entries are: complete sessions under their own secrets,
whose identifiers differ by at least as much as their places do (`EntriesOk`, `Ordered`). As long as the clock is not set back, creation times grow with
the identifiers, so the oldest entry, which a full cache drops, is the first, and has at least
`kTls12SessionCacheMax` younger sessions; that is `RecentOk`, from which `RecentSessionKept`
follows. `remove_if` and the search are folds, which `FoldSteps` takes apart. Theorems:
`CacheInvHolds`, `ResumedIsOwn`, `RecentIsKept`.

**`CtLogProofs`** proves `PromisesKept`: whatever the keys, chains, number of entries
and readings of the clock, every SCT the log has signed verifies against the entry at
its place and agrees with its timestamp, and every head it has signed verifies, is later
than the head before and not earlier than the entries it covers, and is still the root
of the first `tree_size` leaves. `LogKept` alone is not inductive: that a new head is late
enough needs that no entry is later than `last_entry_time` and no head later than
`last_sth_time` (`TimesBehind`), that opening a log disturbs no promise needs that nothing
is signed before (`NothingBefore`), and appends need to know that the histories are
sequences (`Sequences4`); `CtInv` joins them. `AppendFacts` and `PrefixKept` carry what is
said of a prefix over an append. The root of a tree is an opaque function here; what it
is, and that its proofs convince, is model-checked in `LogProofsHold`.

**Only model-checked.** Liveness (`EveryMessageProcessed`, `FinisherCompletes`,
`Terminates`, `AllDelivered`, `CompatibleCompletes`, `HandshakeEnds`) is out of the
prover's reach. So is what a fold or a recursive function computes for every input
(a fold can be taken apart, see `FoldSteps`; relating the result to another definition needs
an induction over the data), which is the substance of `CiphersMatch`, `TamperedRefused`, `RsaHolds`,
`HashesMatch`, `CodecsInvert`, `CertificatesHold` and `LogProofsHold`.

## 7. What the violations show

| Run | Property, from | What the code does |
|---|---|---|
| `dtls_last_flight` | `BothComplete`, `include/dtls.hpp:157` and `:209` | the server leaves its loop with its last flight; if that is lost, nobody answers the client's retransmissions |
| `dtls_overtaking` | `FinisherCompletes`, `include/dtls.hpp:162` and `:216` | a ChangeCipherSpec that overtakes ClientKeyExchange moves `recv_epoch`, and every later copy of ClientKeyExchange is dropped; the sides keep resetting each other's retry counter until the deadline |
| `endpoints_borrowed` | `BorrowedIsNotClosed`, `include/tls_socket.hpp:271` and `:467` | `accept_udp` makes a descriptor that the listener only borrowed the connection's own |
| `socket_retry` | `RetryIsSafe`, `tls_socket.cpp:616` | a `send` that would block has advanced the record number, so the retry cannot be decrypted |
| `hash_padding` | `Sha3Standard`, `include/sha3.hpp:15` | a message that leaves one byte of its last block has the first byte of its padding overwritten |

The passing properties stay clear of these by saying what does hold: `FinisherCompletes`
for the side that sends the last flight and `Terminates` for both, when flights have one
datagram each (as those of this code have), `ClosedByOwner` for descriptors that are not
lent to a UDP listener, `NoDecryptFailure` for senders that are not retried,
`HashesMatch` for SHA-3 messages that leave more than one byte.

## 8. Divergences without a run

Met while the code was modelled. Where a property would meet one, its definition or the
set of calls excludes the case and says so; nothing here is claimed to be checked.

**DTLS.** There is no window of received numbers (`dtls.cpp:1922`, `include/dtls.hpp:7`): a repeated
datagram is delivered twice. The ClientHello after HelloVerifyRequest offers the default
suites instead of the configured one (`dtls.cpp:1462`, `include/dtls.hpp:232`).

**Sockets.** A non-blocking `recv` that has collected a payload and finds part of a next
record returns would-block, and the payload is lost (`tls_socket.cpp:1495`,
`include/tls_socket.hpp:335`). `co_recv` has no case for an alert inside a TLS 1.3 record:
close_notify makes the call fail and the payloads collected in it are lost, where `recv`
returns them. Nothing keeps two `co_send` on one connection apart.

**Endpoints.** If making the accepted socket non-blocking fails in `accept_udp`, the
connection and the listener both hold it (`tls_socket.cpp:1894`). A coroutine
that waits for a descriptor closed meanwhile is woken only if the number is used again.
When `ktls_enable` has set the receiving direction and the sending one fails, the kernel
keeps the first (`ktls.cpp:247`). A TLS 1.3 server never sets `server_finished_received`,
so `ktls_export_params` says `handshake_pending` for it (`ktls.cpp:193`).

**TLS handshakes.** A certificate with a P-521 key cannot sign: the DER signature is
longer than the 127 bytes allowed (`tls_router.cpp:685`, `README.md:671`); a TLS 1.3 server
then sends no CertificateVerify (`tls13_server.cpp:84`), and a client completes without
having seen one, since it checks the message when it comes (`tls13_client.cpp:550`). A
client with a certificate manager that has no certificate for the name compares the
server's with nothing (`tls13_client.cpp:543`). A chain that ends in a certificate which
an authority issued to itself is its own anchor, whatever the store holds
(`tls_router.cpp:1657`). `Checked` leaves these three out of `ServerAuthenticated`.
In TLS 1.2 a manager that holds nothing lets the client go on with the certificate the server
sent (`tls12_client.cpp:405`), so that the signature is checked with the key it came with;
the same for `Checked`. A TLS 1.2 client that meets an RSA-3072 server without ECDHE sends a ClientKeyExchange made for 2048
bits (`tls12_client.cpp:548`), and with `skip_verify` an empty one; `RsaExchangeServed`
excludes both. The pin of a suite is lost when a session is reset
(`tls_socket.cpp:129`). A server that pauses for more than 250 ms inside its flight is
given up (`tls_socket.cpp:905`). A pinned SM suite with another group cannot complete. The
lengths of the server name extension are written as one byte (`tls13_client.cpp:111`). A
client that asked for X448 and is answered with X25519 uses a key from elsewhere
(`tls13_client.cpp:413`). `tls13_client_hello_cache` of a session used twice is stale.
`tls_certificate::from_pem` never sets `rsa_bits`, which `tls_router.cpp:658` calls the
only authority: an RSA-3072 certificate loaded that way is used as one of 2048 bits
(excluded in `CertificatesHold`); nor does it check that the key belongs to the
certificate. `from_system` remembers that nothing was found for ever.

**Resumption.** The example of `README.md:876` carries over only identity and value of a
PSK; the server then computes the age from zero and refuses (`tls13_server.cpp:613`).
`tls12_session_can_resume` does not ask whether the client offered the session's suite
(`tls12_server.cpp:842`). A clock that is set back keeps entries alive. A failed
`tls13_decrypt_early_data` has advanced its number, and `early_data_accepted` is not reset
for a later ClientHello on the same session.

**Ciphers and hashes.** The scalar SM4-GCM carries beyond the low 32 bits of the counter
(`sm4_gcm.cpp:41`), the GFNI and AVX2 ones do not (`sm4_gfni.cpp:130`); they differ for an
IV that is not 12 bytes long, when the low word wraps. SM4-CCM carries into the nonce, does
not check the length, and writes every tag length as 16 into the first block. AES-CCM with a
nonce of 7 bytes shifts by 64 (`aes_ccm.cpp:368`). CCM writes the plaintext before it has
compared the tag (`aes_ccm.cpp:422`; `include/aes.hpp:660` says that the output must not be
used then, which is all `TamperedRefused` covers). HKDF-Expand wraps its one-byte counter beyond 255 blocks without an
error.

**RSA.** PKCS #1 v1.5 with 2048 bits always hashes with SHA-256 and signs bytes it has not
set behind it when the prefix names a longer hash (`rsa_schemes.cpp:54`); it does not compare
a signature with the modulus, and neither tier asks that the digest ends the block. A prefix
that leaves no room is noticed only with 3072 bits. Without CRT numbers v1.5 with 2048 bits,
PSS with 4096 and OAEP compute something else, where the others fall back on `d`. OAEP does not
look at the first byte, and with 2048 bits not at the modulus either; its encryption there
fills 64 bytes of a 32-byte seed (`rsa_oaep.cpp:52`) and is not modelled. A type 2 block of
an empty message is refused. A borrow is lost when a limb of the modulus is all ones and
a borrow comes in (`rsa_batch_dispatch.cpp:72`: the comparison overflows); `Moduli` in `MCAlgorithms` leaves
these out. The kernels reduce only above the modulus, so that a multiple of it may stay.
The comment at `rsa_batch_dispatch.cpp:407` speaks of an unbounded carry in the vector kernels;
in the model no carry leaves the buffer of a lane. The loop that looks for a wider product
does not compare its primes (`rsa.cpp:231`) and cannot be reached, since both have their top
two bits set.

**Codecs and certificates.** Base64 accepts `AB=C` and bits left over in the last
character. A varint from 2^62 on is encoded without its high bits. Years from 2050 on are
read back as 19xx, a path length from 128 on as 0, because only the first byte is read. Key usage and extended key usage
kept raw change their place when a certificate that was read is encoded again (excluded in
`FinalCalls`). A serial number with its high bit set
is read back with a zero in front, so `same_cert_identity` tells a certificate that was
built from one that was read. `build_and_sign` keeps an old `tbs_raw`. RSA verification without a CA
modulus uses the certificate's own; PSS with 4096 bits is not signed. A DER signature as
long as the two fields together is taken for raw ones (`x509.cpp:886`, excluded in
`MCAlgorithms`). A SEC 1 key without a curve is taken for P-256 (excluded). Chain
verification looks at signatures, dates and the CA flag of the last certificate, not at
names, key usage or the flags in between.

**Certificate Transparency.** `add_pre_chain` logs the TBS with its poison
(`ct.cpp:1168`, `include/ct.hpp:10`). Lengths in `extra_data` are 16 bits. The tree head of
an ECDSA log carries r and s raw; a DER signature of 64 bytes is taken for raw.
`finalize_precert` with a kind of key it cannot use returns the poisoned precertificate.
The constructor for 32-byte keys dereferences an empty optional for RSA. The id of a log
with SM3 and ECDSA is that of an SM2 key. The clock is read twice in one submission.

## 9. Not modelled

* **Numeric kernels**: block ciphers, compression functions, field multiplication, the
  assembly and intrinsics inside them, the windowed powers of RSA and its primality
  test, the arithmetic of ECDSA, EdDSA, X25519, X448, DH and SM2. They are computations on numbers of 64 to 4096 bits without control that
  depends on anything but loop counters; TLC cannot reach them, and the tests of the
  repository compare them with published vectors. About half of the implementation's lines
  are of this kind (`ecdsa_p256_adx_inline.cpp`, `ecdsa*.cpp`, `ed448*.cpp`
  and others), and with them `openssl_ref.c`, a test reference from elsewhere.
* **RSA**: keys generated without CRT numbers (`rsa_keygen`), which repeat the generation
  modelled, and the encryption of OAEP with 2048 bits (section 8).
* **GPU back ends** (`*.mu`, `*_musa.cpp`): experimental kernels, off by default.
* **Command line tool, Android and iOS bindings**: argument parsing, file I/O and glue.
* **Random numbers**: system calls.
* **kTLS, the kernel's side**, and the translation of a session into its structures.
* **QUIC keys**: derivations without state in `tls_quic.cpp`; their inputs are those of
  TLS 1.3.
* **The simplified TLS 1.2 functions for callers without sockets**
  (`tls12_server.cpp:528-839`, `tls12_client.cpp:580-638`): they repeat the handshake with
  fixed choices.

## 10. Limits

* Cryptography is ideal: keys, MACs and hashes are terms, and a record that opens was made
  with the same key. The protocol modules say nothing of byte layout, nor of forged
  messages.
* One client and one server per connection; a server's cookie is that of its client.
* `bind`, address resolution, and the choice of the interface are I/O. A socket error in a
  DTLS handshake is modelled as the consequence of the peer's closed socket.
* `TlsSocket` begins after the handshake, carries data in one direction (the other has its
  own number and socket buffer), and calls `close` only between two calls; closing under a
  suspended coroutine is the subject of `TlsEndpoints`.
* `Algorithms` compares at the scaled sizes of its constants. A length that matters only
  at its real size (a counter of 32 bits, an AAD of 65280 bytes) is reached because the
  constant for it is small, not because the message is long.
