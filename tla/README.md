# A verification project for pageant+

pageant+ is an ssh agent for Windows.  Clients reach it by six kinds of
transport (PuTTY's window message, a Microsoft named pipe, a cygwin or native
unix domain socket, a localhost TCP socket, an RDP virtual channel); it holds
keys read from files, smart cards, a Bluetooth device or an RDP client, and it
asks its user before a key is used, added or removed.

This directory holds TLA+ models of its core, of the transports and remote
signers around it, and of the arithmetic, ciphers and file formats under it;
the TLC runs that check them on small instances; and theorems that TLAPS checks
for instances of any size.
Line numbers below are those of the sources beside this directory.

## 1. Inventory

| part | state it keeps | what it does | what makes it hard |
|---|---|---|---|
| **Request handler** `pageant.cpp` | none of its own; the request in hand | `pageant_handle_msg()`: LIST, SIGN, ADD, REMOVE, REMOVE_ALL; `accept_agent_request()` asks for consent | runs in one thread per transport at once; waits for the main thread in the middle |
| **Key store** `keystore.cpp` | the vector `ssh2keys_`, the listeners | add, remove, search, copy, expire | no lock at all; indices used after a search; expiry moves keys silently |
| **Keys** `ckey.cpp`, `encode.cpp` | a key, its lifetime and its constraint | parsing, fingerprints | null pointers on what does not parse |
| **Main window, dialogs** `mainwindow.cpp`, `confirmacceptdlg.cpp`, `keyviewdlg.cpp` | nested Qt event loops | serves `confirmAcceptDlg()` by a `BlockingQueuedConnection`; view, add, remove; terminal lock | loops nest in any order and return innermost first; dialogs time out |
| **Start-up and shut-down** `main.cpp`, `agents_start()`, `agents_stop()` | the server threads | starts them before the window exists, joins them from the main thread | a join of a thread that waits for the joiner |
| **Settings** `setting.cpp`, `settingdlg.cpp` | ini file or registry, and PuTTY's | remembered answers, policy, start-up list | read and written by every thread |
| **Socket server** `sock_server.c` | the slots, the `select()` sets, the exit flag | accepts, receives, sends, times out | one thread for all; a `select()` snapshot that ages during a pass |
| **Socket protocol** `ssh-agent_emu.cpp`, `ud_socket.c` | a buffer per connection | cuts requests out of the stream, cygwin's handshake | two sets of counters; partial reads and writes; blocking `recv()` |
| **Named pipe** `ssh-agent_ms.cpp` | one overlapped pipe, a buffer of 8 KB | connect, read, handle, write | one instance for all clients; a time-out of half a second; writes that wait for the reader |
| **Pageant window** `winpgnt.cpp` | a hidden window | `WM_COPYDATA` | created by a thread that may be stopped before |
| **RDP relay** `rdp_ssh_relay.cpp`, `pageant+_rdp_client.cpp` | global buffers, a flag, events | forwards requests over a virtual channel | shared globals, auto-reset events, overlapped I/O, sessions that end and come back |
| **Bluetooth proxy** `bt_agent_proxy*.cpp` | a thread, a pool of requests, flags | connect, send, receive | callers poll flags with a time-out; one socket |
| **Key files, passphrases** `keyfile.cpp`, `passphrases.cpp` | remembered passphrases, in memory and in the settings | load, ask, remember, forget | dialogs, and other loads, in the middle of a load |
| **Key file formats** `sshpubk.c`, `import.c`, `misc.cpp` | none | PuTTY's files, OpenSSH's old and new, ssh.com's | numbers that lose or gain octets, paddings, MACs, wrong passphrases that look right |
| **Smart cards** `smartcard.cpp`, `cert/` | loaded libraries, sessions, a cache of PINs | find a key, log in, sign | several threads, no lock; devices come and go |
| **Cryptography** `sshbn.c`, `sshecc.c`, `sshrsa.c`, `sshdss.c`, `sshaes.c`, `sshdes.c` | none | big numbers, curves, signatures, ciphers | carries, estimates of quotients, points at infinity, zeros |
| **Utilities** | none of the protocols' | memory, strings, message boxes, help | |

`PROJECT.json` lists every part with its status.

How they interact: each transport is a thread that calls
`pageant_handle_msg()`.  The handler reads and writes the key store and the
settings directly, and calls the main thread through signals of `MainWindow`
that block until the slot has returned.  The main thread reads and writes
store and settings too, from any depth of nested event loops.

What makes the parts correct, in a sentence each:

* handler: no key that a request names is used, added or removed without
  consent, and the answer the user gives reaches the request it was asked for;
* store: no key twice; what is used or removed is what was named;
* main window: every waiting thread is answered, the view shows the store, a
  key that a lock of the terminal dropped does not come back by itself;
* socket server: requests and answers of a connection keep in step, buffers
  are never overrun, nothing is used after it was closed, no connection
  starves another, and a stop ends;
* pipe: what the socket server promises, with one client at a time;
* remote signers (RDP, Bluetooth): as long as the exchange is in step, a call
  returns the answer to its own request or none, and every call ends;
* passphrases and PINs: what is kept is what the user wants kept, or what the
  card took;
* formats and arithmetic: the key that is read is the key that was written, and
  what it signs is valid.

## 2. The modules

| module | lines of code it models | role |
|---|---|---|
| `Agent` | `pageant.cpp`, `keystore.cpp`, part of `ckey.cpp`, `setting.cpp`, `mainwindow.cpp`, `confirmacceptdlg.cpp`, `keyviewdlg.cpp`, `keyfile.cpp`, `main.cpp` | the handler, the store, the dialogs, the life of the process |
| `SockServer` | `sock_server.c`, `ssh-agent_emu.cpp`, `ud_socket.c` | the socket transports |
| `Pipe` | `ssh-agent_ms.cpp` | the named pipe |
| `AgentPort` | | what a transport promises; `SockServer` and `Pipe` implement it |
| `Transports` | `agents_start()`, `agents_stop()` of `mainwindow.cpp`, `main.cpp`, start and stop of `winpgnt.cpp`, `ssh-agent_emu.cpp`, `ssh-agent_ms.cpp`, `bt_agent_proxy.cpp`, `rdp_ssh_relay.cpp` | how the main thread starts, signals and joins the threads of the transports |
| `Relay` | `rdp_ssh_relay.cpp`, `pageant+_rdp_client.cpp` | a signer behind an RDP session |
| `BtProxy` | `bt_agent_proxy.cpp`, `bt_agent_proxy_main.cpp` | a signer behind Bluetooth |
| `RemoteCall` | | what a remote signer promises; `Relay` and `BtProxy` implement it |
| `KeyFiles` | `keyfile.cpp`, `passphrases.cpp`, parts of `main.cpp`, `mainwindow.cpp`, `setting.cpp` | loads, their dialogs, what is remembered |
| `SmartCards` | `cert/cert_pkcs.c`, `cert/cert_common.c`, `cert/pkcs_helper.c` | signatures of a card |
| `Wire`, `PuttyFiles`, `ForeignFiles` | `misc.cpp`, `encode.cpp`, `sshpubk.c`, `import.c` | what is in a key file |
| `Bignum`, `Residues` | `sshbn.c` | numbers as words, and the integers they stand for |
| `Curve`, `Rsa`, `Dss` | `sshecc.c`, `sshrsa.c`, `sshdss.c` | keys and signatures |
| `Ciphers` | `sshaes.c`, `sshdes.c` | AES and DES with their chains of blocks |
| `Parts` | | the pipe, the key files and the smart cards side by side |
| `StoreLemmas`, `AgentTypes`, `AgentConsent`, `AgentStore`, `SockServerSafe`, `TransportsSafe`, `RemotesSafe`, `PartsSafe` | | theorems |
| `MCAgent`, `MCSockServer`, `MCTransports`, `MCRemotes`, `MCParts`, `MCLibrary` | | instances for TLC |

### Agent

`Threads` are the server threads, `Main` the main thread.  `pc[t]` says where
`pageant_handle_msg()` is; an action is a piece of it in which no other actor
can interfere visibly:

    idle --Receive--> stored --ReadDecision--> policy --ReadPolicy--> ask --OpenDialog--> dialog
                                                                \            (main thread)  |
                                                                 \                      CloseDialog
                                                                  v                         v
        reply <-- Sign -- copy <-- get (SIGN) <--------------- granted <----- Decide --- asked
              <-- Push -- add <-- exist (ADD)
              <-- Erase -- search (REMOVE)

`keystore_get_from_blob()` and `keystore_remove()` are two steps each, the
search and the use of the index it found, and so is `keystore_add()`, the check
and the append: that is where the code holds no lock.  What C++ leaves
undefined, one thread in the vector while another changes it, or an index
beyond its end, is `RaceCrash`: the process dies, or both threads go on as if
they had run one after the other.

`stack` is the main thread's nest of `exec()` loops.  A slot runs in the
innermost loop; a dialog's result may be set at any depth (its timer runs on),
but its `exec()` returns only when it is on top.  The passphrase dialog nests
too, and a key file being loaded continues when it closes: `loading` is the
start-up list as `main()` copied it, which a terminal lock in a nested loop
does not see.  `expire()` runs in every search, and tells no listener.

Variables below "history" in the module (`gap`, `consented`, `forgotten`) are
not in the code; the properties need them to name what has happened.

A key is its identity (what a fingerprint or a blob stands for), its expiry
and its constraint; a request is a member of `Requests`.  Time is a bounded
counter; a dialog's time is counted in ticks of its own.

### SockServer and AgentPort

One thread runs `select()` and a pass over the slots; `loop` is where it is,
with the sets `select()` returned, and they are not refreshed during the pass.
`slot[i]` joins `server_list[i]` with the handler's data: `room` is the
server's `recv_size`, `left`, `size` and `buf` are the handler's count, its
allocation and what lies in the buffer, `send` what is left of the answer.
Bytes are counted in pieces: a request of length `n` is `n` pieces, the first
of which holds its length.  The clients are the environment: they connect,
greet, send pieces, pipeline, stop reading, shut down, reset.

`AgentPort` has one phase per connection (away, idle, busy with request n,
owed the answer of n, gone) and the answers received; `Phase` in `SockServer`
is the refinement mapping, and `ImplementsPort` the claim.

### Transports

`main` is where the main thread is: going through `Order` in `agents_start()`
(`start`) or `agents_stop()` (`stop`, and `join` once a thread is signalled),
before its window (`boot`), in an event loop (`loop`), past the end (`gone`).
`thread[t]` is where the thread of transport `t` is, as far as a stop can tell:
waiting for requests, in one (`busy`), waiting for the main thread to serve its
dialog (`ask`, `dialog`), between its look at the Bluetooth proxy and the use
of it (`call`, `poll`), or waiting for somebody who is not bound to answer
(`held`).  `enabled` are the settings the user changes in the setting dialog
and `agents_start()` changes on a failure.

The setting dialog runs in whatever nest of loops it was opened in, and stops
and starts everything from there (`mainwindow.cpp:580`), so that confirmation
dialogs of threads it has to join may lie beneath it.  `Stuck` lists what can
keep a join from returning, and `StopsEnd` says that nothing else does.

### Pipe

`thread` is where `pipe_main()` is; `instance` and `taker` are the one instance
of the pipe and the client that has it; bytes are counted in pieces, as in
`SockServer`.  What the model shows of the code: a request is whole when its
length says so, and whatever came with it is swallowed; half a second without a
byte, a full buffer or the end of the stream drop the client; an answer leaves
in two writes, each flushed, whose results nobody looks at; a client that does
not read holds the thread, and the stop; one that comes between
`CreateNamedPipe()` and the first `ConnectNamedPipe()` (`early`) is never
served, because the event that is waited for is not set, and nobody after it
either, because it has the instance, until the pipe is stopped.  `PipePhase` is the
refinement mapping onto `AgentPort`.

### Relay, BtProxy and RemoteCall

In `Relay` a caller leaves its request in globals, signals the thread of the
channel and waits for its notification; the DLL gets chunks in a callback and
signals its worker, which asks the agent, gives the answer to the client and
frees it (`Reply`), so that what the client then sends (`Deliver`) may be
`Junk`, and waits for the client to say that it has (`WriteComplete`); sessions end and come back as events that may be served in
the wrong order.  In `BtProxy` one thread owns one socket and does what flags
tell it; callers send by themselves and poll globals until their time is up.
A call is for a device, which it need not reach (`Call`).
Every wait of the code is an action with its time-out.

`RemoteCall` says what both promise: a call returns the answer to its own
request, or none, or, where a buffer may be spoilt (`Spoilt`, which is so of
the RDP client's), garbage, and never another call's.  It says nothing of which
agent or device answers.  Neither side defends against everything, so the abstract
specification has a state `muddled` in which anything may return, and the
mapping says exactly when the code is in it.  `Relay`: calls overlapped, or a
request or an answer was longer than a chunk of the channel.  `BtProxy`:
something of an earlier call was under way, or left in a buffer, when a request
was sent, or an answer came in pieces; a call that finds everything at rest
restores the order.  The claim is that nothing else, no session that ends and
comes back, no time-out, no replaced connection, leads to a wrong answer.

Assumed of the outside: the remote desktop client makes its callbacks one at a
time; `vcOpen` fails only without a session; a part of a message, or a freed
buffer, gives `Junk`; a stop comes when no call is under way; `connect()` of
Bluetooth returns.

### KeyFiles

All of it is the main thread, but its passphrase dialog runs the message loop:
`loads` is the nest of loads, the last one's dialog in front.  `kept` is
history: the passphrases whose typing was ticked and that were not forgotten
since.  Forgetting, in the settings or by a lock of the terminal, comes in the
middle of loads that hold their own copies.

The module shows, without calling it an error: a file of PuTTY's that cannot be
read makes `load_putty_key()` return true with no key, and the process ends; a
wrong passphrase for a file in OpenSSH's new format does the same, typed or
remembered, and if the box was ticked it was saved before, so that the next
start that loads passphrases tries it first; a cancelled dialog of an encrypted
PuTTY file comes back for ever; PuTTY's own saved passphrases are back after
"forget" and a restart.

### SmartCards

Each thread that signs goes through the steps of `cert_pkcs_sign()`: search of
the slots, private key, PIN, login, PIN once more, search again, sign, close.
Sessions are handles of an external library; a user stays logged in until the
last session on the token is closed.  The main thread loads keys of the card,
frees the cache of PINs while others read it or are about to put an item in
front of it (`Torn`, `Freed`), finalizes the library on
any change of devices.  `disturbed` is history: whose session or login
something else has touched.  `NextItem[t]` is the list as thread `t` read it
before it writes its head (`LinkPin`, `PushPin`): a PIN saved by another thread
in between is lost, and what was forgotten in between is freed memory in the
list.  A search that meets freed memory takes it for a PIN or ends there.

The module shows: the search closes the number of a slot where it means a
session (`cert_pkcs.c:665`), so that sessions leak, or somebody else's is
closed; `cert_pkcs_load_cert()` never closes its session, which keeps the user
logged in; of two threads that log in at once the second fails though its PIN
is right; after a change of the card's PIN the old one is tried at every
signature until it is forgotten.

### The library

What keeps no state is modelled as operators, each the algorithm of the
function it is named after, and compared with a reference definition over
bounded inputs; `MCLibrary` makes an input a state.

* `Bignum` has words of 4 bits (octets of 2, the Karatsuba threshold at 5
  words), so that carries, truncated estimates of a quotient and the split of a
  product happen with short numbers.  It shows that the operations give what
  the integers say; `Residues` goes on with integers.
* `Curve` has curves that can be looked at point by point: Weierstrass over
  p = 29 (a = -3, 31 points), p = 17 (19 points, and one with points of order
  2), Edwards over p = 109, Montgomery over p = 29.  `Rsa` has moduli up to
  34571, `Dss` the groups (7879, 101, 170), (23, 11, 4) and (7, 3, 2).
* `Ciphers` is AES-256 and triple DES with the tables of the source.
* `Wire`, `PuttyFiles` and `ForeignFiles` write and read keys in seven formats.
  Hashes, HMAC and bcrypt are toy functions; the ciphers are the real ones.
  Comments are empty, of 4 octets with a quote and a backslash, or of 141
  octets; passphrases absent, empty, of 1 and of 2 octets.  PuTTY's files are
  altered in one place of each line, or lose, double or lack lines, and none is
  then read as another key; of the other formats, which have no MAC, it is only
  said that a line that is lost or doubled, DEK-Info apart, gives no other key.

What they show of the code: two representations of zero; `modinv` with modulus
1 and `bignum_rshift` by whole words read outside their arrays (inputs the
callers do not give); ECDSA does not try another nonce for r = 0 or s = 0; a
private key that is 0 modulo n ends in a null pointer in `createkey`; the two
SHA-2 flags together give plain `ssh-rsa`; `dss_openssh_createkey()` does not
check y = g^x (`sshdss.c:422`), so that an altered octet of a DSA file in
OpenSSH's new format, without a passphrase, gives another key; an ed25519 key
whose file lost a zero octet is refused; the third key of triple DES in `des3_*_pubkey` is the first
again; a PEM file with AES whose length is a multiple of 8 and not of 16 hits
an assertion; `Proc-Type` without `DEK-Info` leaves the cipher uninitialised;
`ber_read_id_len()` misreads identifiers of several octets, which no caller
meets.

## 3. The runs

| run | instance | checks |
|---|---|---|
| `agent_all` | 1 thread, 1 key, all request kinds, key view, user's adds and removes, start-up list, lock, kill, restart | `TypeOK`, `ViewFaithful`, `ForgottenStaysForgotten` |
| `agent_consent` | 2 threads, 1 key, time-out 1, refusals on record beside PuTTY's own, policy and records changed by the user at any time, fairness | `NamedKeyNeedsConsent`, `OneDialogPerWaiter`, `OneCopyPerActor`, `AcceptRecordedByUser`, `DialogsAreAnswered` |
| `agent_serial` | 1 thread, 2 keys | `NoDuplicateKeys`, `SignsWithRequestedKey`, `ErasesRequestedKey` |
| `agent_nokey` | 1 thread | finds `SignAnswersAbsentKey` violated |
| `agent_wrongkey` | 2 threads, 2 keys | finds `SignsWithRequestedKey` violated |
| `sock_unix` | cygwin socket, 2 connections, 1 slot, requests of 2 pieces, buffer grown by 1, answers of 2 pieces, 2 requests each | `RoomAndTypes`, `SlotsAreConnections`, `AnswersInStep`, `ImplementsPort` |
| `sock_tcp` | TCP, 2 connections, 2 slots, 1 request each, fairness | `WritesToLiveConnection`, `RequestsAreAnswered`, `ExitStops` |
| `sock_flush` | TCP, 1 connection, fairness | finds `DisconnectsAreNoticed` violated |
| `transports` | window, cygwin, Bluetooth, TCP, RDP; any settings, any nest of dialogs, fairness | `SettingsTellWhatRuns`, `ProxyOutlivesItsUsers`, `NothingRunsAfterTheEnd`, `QuitAnswersDialogs`, `StopsEnd` |
| `remotes` | RDP: 2 callers, 2 calls, 2 chunks, a session that is lost once; Bluetooth: 1 user, 2 devices, 2 requests of 2 pieces, 2 connections, 1 cut; fairness | `RemotesTypeOK`, `ChannelFollowsSession`, `SendsLiveRequest`, `ClientNotFrozen`, `OneClient`, `WaitsEnd`, `ImplementRemoteCall` |
| `rdp_freeze` | as `remotes` | finds `WorkerReads` violated |
| `parts` | the pipe: 2 clients, 2 requests of 2 pieces, a buffer of 3, 2 starts, fairness; key files: 5, one of each kind, 3 passphrases, one of them PuTTY's, 2 loads at a time, 6 events; smart cards: 2 threads, 2 certificates, 2 PINs, 2 slots, 3 sessions, 3 signatures, 2 events; the library's inputs | `PartsTypeOK`, `PipeAnswersInStep`, `PipeServes`, `PipeImplementsPort`, `RememberedAsTicked`, `PinsWereRight`, `SignsUnlessDisturbed`, `ComputesExactly`, `SignaturesValid`, `KeysKeptAsWritten` |

A behaviour of `remotes`, and of `parts`, is of one of the components only:
they share nothing, and one run stands for several.  `WaitsEnd` and
`ImplementRemoteCall` are conjunctions of a claim about each signer, as
`ComputesExactly` and `KeysKeptAsWritten` are about each group of functions.

Bounds, and why they are enough.  Two server threads are the least that race
and nest dialogs, and the safety properties of the consent run are proved for
any number.  Two keys are the least with a wrong neighbour.  `MaxTime` 3 lets
a key of `agent_all` expire, which is added at 1 with a life of 1 and dropped by
the first search after 2; in the other runs of `Agent` none does.  `MaxNesting` bounds only what the user opens herself.  One slot
for two connections makes the table overflow and be reused; two slots let one
connection disturb the other.  A buffer that grows by less than a request
makes it grow; two requests on a connection let the second meet what the first
left.  The message and buffer sizes of the code (8 KB, 256 KB) only change how
many pieces there are.  `transports` has one transport of each behaviour: the
window, whose thread may be told to end before it can hear it; a socket with a
handshake; the proxy, with a user stopped before it and one stopped after it;
the RDP server, that holds requests.  The native socket behaves as the TCP one
does but for what a failed start does to its setting; the pipe's wait for its
client is the same as that for an RDP client.  Two callers, and two calls, are
the least with an answer that belongs to another; one lost session lets a
request meet the next one's channel; two devices let a connection be made over
another.  The pipe's buffer of one piece more than a request lets one be read
with the start of the next.  Three sessions let a leaked one exhaust the
library.  Numbers on both sides of the Karatsuba threshold, of even and of odd lengths,
take every branch of the arithmetic; an RSA signature is made with each of three
blindings, a DSA one with one nonce for each input; the groups are small enough for all their elements, and have the
points of order 2 and the products at infinity where the formulas differ.

Fairness.  `Agent`: the threads and the main thread run (weak); posted slots
and finished dialogs are served although other events keep arriving, because
Qt's queue is first come first served (strong).  The user owes nothing, which
is why `agent_consent` sets a time-out and opens no other window: a view
or passphrase dialog on top of a confirmation dialog keeps its `exec()` from
returning even after the time-out.  `SockServer`: the loop runs and the handler
returns (weak, on the server's next step).  Nothing is assumed of clients; the
liveness properties are checked without the cygwin handshake because
`ud_accept()` blocks in `recv()` for as long as a client says nothing, and
with it they do not hold.  `Transports`: the main thread and the threads run;
a thread that has been told to end does so although requests keep coming
(strong: `select()` is followed by a look at the flag, a pipe looks at its
control event first whenever it has to wait, a posted `WM_CLOSE` is served
after what was sent before it).  `Pipe`: its thread runs, but no clock ticks
and no client reads unless it has left (`PipeOwes`, weak).  `Relay`: the
server's thread, the DLL's two threads and a caller that is told run (weak).
`BtProxy`: its thread runs and its connect() returns, and the main thread sees
the notification it waits for (weak); devices and users owe nothing.

`transports`, `remotes` and `parts` do not check for deadlock: the process
exits, or the bounds are used up, and the code can really deadlock where
`Stuck` says.

## 4. Findings

* `agent_nokey`: `signer()` ignores the result of `keystore_get()`
  (`pageant.cpp:288`) and reads through a null pointer when the key is not in
  the store, where the comment says that the answer depends on it.
* `agent_wrongkey`: with two transports a removal between search and copy
  makes SIGN copy the neighbouring key.
* `sock_flush`: a connection whose partial request was flushed by a time-out
  has no receive buffer any more; its end is never noticed and its slot never
  freed.
* `rdp_freeze`: of a request in two chunks the second one's callback waits for
  the worker (`pageant+_rdp_client.cpp:247`), which waits for another callback
  of the same thread.

Seen while modelling, and in the models as the code has it: two transports can
add the same key twice (and no more often: `OneCopyPerActor`); REMOVE_ALL asks
nobody (`pageant.cpp:641`), though there is a prompt for it, "Accept deletion of
all SSH2 identities?" (`pageant.cpp:155`); a request for a device that an inquiry
found connected to Windows is sent to whatever is at the other end of the one
socket (`bt_agent_proxy_main.cpp:190`); PINs forgotten between
`cert_common.c:650` and `651` leave freed memory in the list of PINs, where a
later search reads it; a key's
CONFIRM constraint is looked at when the key is added, not when it signs
(`pageant.cpp:476`); "Don't ask again" with Cancel records nothing
(`confirmacceptdlg.cpp:69`) though the handler is written for it
(`pageant.cpp:174`); a cancelled passphrase dialog comes back for ever
(`keyfile.cpp:126`); a malformed ADD reads through a null pointer
(`ckey.cpp:385`); a start-up list under way survives a terminal lock (`main()` has its own copy,
which `mainwindow.cpp:584` does not empty), and what it still lists is loaded
afterwards; a
pipelined request that shares a `recv()` with its predecessor is discarded
(`ssh-agent_emu.cpp:159`).  A stop can hang: on a request that waits for a
dialog, on a silent cygwin client, on a pipe client that does not read, on an
RDP client that does not answer, and on a window not created yet
(`winpgnt.cpp:166`).  A request that needs a dialog before `MainWindow` exists
meets a null `gWin` (`main.cpp:299`).  The TCP transport is stopped after the
Bluetooth proxy its requests may be using (`mainwindow.cpp:463`), and a failure
to start it is not written to the settings as those of the others are
(`mainwindow.cpp:525`).  The setting dialog writes `bt/timeoute`
(`settingdlg.cpp:315`) and `agents_start()` reads `bt/timeout`
(`mainwindow.cpp:514`), so that what the user sets has no effect.  What the models of the pipe, the
remote signers, the key files, the cards and the library show is with them, in
section 2.

## 5. The theorems

| theorem | says | argument |
|---|---|---|
| `AgentTypes!TypeCorrect` | `Spec => []TypeOK` | `TypeInv` adds what a request in hand may be at each label, and that each dialog on the stack serves one thread that waits for it |
| `AgentConsent!ConsentNeeded` | `Spec => []NamedKeyNeedsConsent` | `ConsentInv` adds what each dialog, answered or not, may hand over |
| `AgentConsent!DialogsServeWaiters` | `Spec => []OneDialogPerWaiter` | from `TypeInv` and `ConsentInv` |
| `AgentConsent!AcceptIsAnAnswer` | `Spec => AcceptRecordedByUser` | only `Decide` writes, and only what its dialog said |
| `AgentStore!LockHolds` | `Spec => []ForgottenStaysForgotten` | `ForgetInv` adds that what the main thread carries, or still has on its start-up list, was not dropped |
| `AgentStore!ViewShowsStore` | `Spec => []ViewFaithful` | `ViewInv` says it also of a view that is being opened, between its listing and its registration: until an update is queued, or the gap lets a key be added unnoticed, keys only expire |
| `AgentStore!CopiesAreBounded` | `Spec => []OneCopyPerActor` | `CopiesInv`: each copy of a key is charged to an actor of its own, which is not about to add that key (`Charged`) |
| lemma `KeysDiffer` of `AgentStore` | `Spec /\ OneAtATime => []NoDuplicateKeys` | `StoreInv`: what an actor has in hand is what its request names, a position it has found is that of the key asked for, and a key about to be added is in the store under no other; `Undisturbed` keeps the last two true while others run |
| lemma `SignsRight` of `AgentStore` | `Spec /\ OneAtATime => []SignsWithRequestedKey` | `StoreInv` again |
| lemma `ErasesRight` of `AgentStore` | `Spec /\ OneAtATime => ErasesRequestedKey` | `StoreInv`; only `Erase` takes an actor from its place with the process alive (`WhoErases`), and it takes out one element (`WithoutProperties`) |
| `AgentStore!AloneIsOneAtATime` | `Alone` gives `Spec => OneAtATime` | `Resting`: with no start-up list and no window that touches keys the main thread never leaves its event loop |
| `AgentStore!AloneKeysDiffer` | `Alone` gives `Spec => []NoDuplicateKeys` | from the above |
| `AgentStore!AloneSignsRight` | `Alone` gives `Spec => []SignsWithRequestedKey` | the same |
| `AgentStore!AloneErasesRight` | `Alone` gives `Spec => ErasesRequestedKey` | the same |
| `SockServerSafe!RoomAndTypesHold` | `Spec => []RoomAndTypes` | the two counts of room move together in every handler |
| `SockServerSafe!SlotsAreConnectionsHolds` | `Spec => []SlotsAreConnections` | `Placed`: each connection is in the backlog, in `loop.new`, or in one slot, and in one of these only |
| `SockServerSafe!WritesToLiveConnectionHolds` | `Spec => []WritesToLiveConnection` | `Placed` has `StillWritable`: what `select()` found writable is still so when its turn in the pass comes |
| `SockServerSafe!AnswersInStepHolds` | `Spec => []AnswersInStep` | `InStep`: what was read, what is in the buffer and what is still to come are together the next requests of a client, in order |
| `SockServerSafe!SockImplementsPort` | `Spec => ImplementsPort` | each step maps to one of `AgentPort` or to none, by `IInv == TypeOK /\ Placed /\ InStep` |
| `TransportsSafe!TypeCorrect` | `Spec => []TypeOK` | part of the inductive `SafeInv` |
| `TransportsSafe!SettingsRight` | `Spec => []SettingsTellWhatRuns` | `Passed` says it in the middle of a start: what is passed agrees with the settings, what is ahead does not run; a stop leaves nothing behind it |
| `TransportsSafe!ProxySafe` | `Spec => []ProxyOutlivesItsUsers` | when the proxy is joined the servers before it in the order are gone, by `Passed` |
| `TransportsSafe!NothingLeft` | `Spec => []NothingRunsAfterTheEnd` | `Passed` again |
| `TransportsSafe!QuitClean` | `Spec => []QuitAnswersDialogs` | `Frames`: a thread has its dialog on the stack exactly while it waits for it; after the last `exec()` the stack stays empty |
| `RemotesSafe!RemotesTyped` | `RemotesSpec => []RemotesTypeOK` | part of `RelayInv` and `ProxyInv` |
| `RemotesSafe!ChannelFollowsSessionHolds` | `RemotesSpec => []ChannelFollowsSession` | `RelayInv`: until the events are served they are set where channel and session differ |
| `RemotesSafe!SendsLiveRequestHolds` | `RemotesSpec => []SendsLiveRequest` | `RelayInv` follows a request from its caller to the channel, and says what a caller that waits is owed |
| `RemotesSafe!ClientNotFrozenHolds` | `RemotesSpec => []ClientNotFrozen` | `RelayInv`: which thread of the client waits for which other; without chunks, what is on the wire is one whole message |
| `RemotesSafe!OneClientHolds` | `RemotesSpec => []OneClient` | `ProxyInv`: connections, the notices of them that are under way, and the count agree |
| `RemotesSafe!SignersAnswerTheirCalls` | `RemotesSpec => ImplementRemoteCall` | each step of either signer is one of `RemoteCall` or none, by `RelayInv` and `ProxyInv`; nothing is claimed in a state that is `muddled` |
| `PartsSafe!PipeTyped` | `PipeSpec => []PipeTypeOK` | with `Places`: a thread that neither reads nor answers has nothing of a client in hand |
| `PartsSafe!PipeKeepsStep` | `PipeSpec => []PipeAnswersInStep` | `InStep`: of a client that waits, what was read and what was sent are together the first pieces of its next request, or the answer to it is being written; reading moves the border between the two (`Moves`) |
| `PartsSafe!PipeImplements` | `PipeSpec => PipeImplementsPort` | each step of the pipe is one of the abstract transport or none of them, by where the thread and the client are (`PhaseKnown`) |
| `PartsSafe!FilesTyped` | `FilesSpec => []FilesTypeOK` | a load is added only when the last has its dialog open |
| `PartsSafe!TickedRemembered` | `FilesSpec => []RememberedAsTicked` | inductive with the types; a start loads what was saved and PuTTY's, and nothing else (`LoadedSettings`) |
| `PartsSafe!PinsAlwaysRight` | `CardsSpec => []PinsWereRight` | `PinsKept` adds the PIN in the hands of a thread between its login and the cache, and the list it has read and is about to put its item in front of (`KeptItems`) |
| `PartsSafe!CardsKeepTypes` | `CardsSpec => []CardsTypeOK` | part of `CardsInv`; the loop over the slots by induction over its turns (`LookupLoop`, `LookupKeeps`), each of which keeps the sessions whose handle it does not close (`TrySlotKeeps`) |
| `PartsSafe!SignsAsPromised` | `CardsSpec => SignsUnlessDisturbed` | `Fit`: an undisturbed thread has its session open on the card, nobody is logged in before it has a PIN, and it stays logged in until it has signed |
| `PartsSafe!PartsTyped` | `PartsSpec => []PartsTypeOK` | the three together, side by side |

The theorems hold for constants of any size, under the assumption each module
states of its own, which only gives the constants their types and says which
values differ: any sets of threads, keys and requests, any time-out and any
bounds for `Agent` (`ConstantsAssumption`); any connections, slots, lengths of
requests and buffers for `SockServer`; any transports in the order
`agents_start()` has for `Transports` (`OrderAssumption`); any callers, chunks
and devices for `Relay` and `BtProxy` (`RelayAssumption`, `BtAssumption`); any
clients and any buffer that holds a request for `Pipe` (`PipeAssumption`); any
files, passphrases and nests of loads for `KeyFiles` (`FilesAssumption`, in
which PuTTY has finitely many passphrases saved); any threads, certificates,
PINs and lists of slots for `SmartCards` (`CardsAssumption`).  TLC evaluates
them in the runs.  Every step is checked by TLAPS.

`StoreLemmas` has the facts about the store's operators: what expiry keeps and
in which order, that a search returns the first match, what erasing leaves, and
that none of them brings a key in twice.  Every invariant above was run through
TLC before it was proved.

Three properties of the store are proved of one server thread only.  Nothing
locks the vector of keys, and with two threads `NoDuplicateKeys`,
`SignsWithRequestedKey` and `ErasesRequestedKey` are false: run `agent_wrongkey`
shows how.  `Alone` is one server thread, in a process whose user opens no window
that touches keys; it is the instance of run `agent_serial` and all larger ones
of its kind.  The lemmas the three rest on have a weaker hypothesis,
`OneAtATime`, which is what a lock in `keystore.cpp` would give and which the
code does not: between the search and the use of its index, and between the
check and the `push_back()`, nobody else changes the vector.  What does hold of
the code as it is, with any number of threads, is `CopiesAreBounded`.

`ForgottenStaysForgotten` has exceptions that are in the code: a client's ADD,
what the user loads, an answer of hers to a dialog that was open at the lock,
and the start-up list that was under way then.

### What is only model-checked

* Liveness, which is out of the prover's reach: `DialogsAreAnswered`,
  `RequestsAreAnswered`, `ExitStops`, `StopsEnd`, `WaitsEnd`, `PipeServes`.
* What the library computes: `ComputesExactly`, `SignaturesValid`,
  `KeysKeptAsWritten`.  Its operators are recursive, over numbers as words and
  over bytes.  (Where a loop is a recursive function, as the search of the slots
  is, a proof can follow its turns: the library's theorems about induction take
  an operator, which the installed provers cannot instantiate, but that every
  set of numbers has a least member takes a set, and that is enough.)

## 6. What is not modelled, and why

* The hashes (`sshsha.c`, `sshsh256.c`, `sshsh512.c`, `sshmd5.c`), bcrypt and
  HMAC are functions given to the models: that they compute the standard's
  values is what test vectors tell, and no small instance would.
* SSH-1 key files and ciphers and key exchange are compiled and never called
  (the checks of signatures are not called either, but the models have them, to
  check what is signed); `sshprime.c`, `sshrand.c`, the key
  generators, `sshcrc*.c`, `ssharcf.c` are not compiled.
* `cert_capi.c` keeps no state of its own; what Windows does with a key there
  is not in the sources.
* The settings' file and registry, language, help, version and debug output,
  message boxes, the texts a key is shown with, the dialogs that only show.
* The socket file of `ud_socket.c` and the search for a free port: file system
  and network, one step each.
* `exit(1)` on `WM_APP + 1` (`mainwindow.cpp:665`): its one sender
  (`main.cpp:160`) is compiled with `DEVELOP_VERSION` only, which
  `pageant+.h:8` has commented out.
* An error of `select()`, which only sends the loop round again.
* The list of Bluetooth devices and its listeners (`btselectdlg.cpp`).
* How the list of a remote agent's keys is taken apart
  (`pageant_get_keylist()`): the call that fetches it is one of `Relay` and
  `BtProxy`; and the window message by which a pageant is a client of another.

What a next step would be: theorems about the arithmetic, with the loops of
`Bignum` and `Residues` as recursive functions of the position, so that what
they compute can be followed turn by turn as the search of the slots is.  The
claims of `Relay` about overlapping calls would become worth stating if the
callers were given a lock.
