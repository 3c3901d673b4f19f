# TLA+ models of the libpurple cipher framework (and its neighbours)

This directory holds TLA+ modules, TLC configurations and the project file
(`PROJECT.json`) for the code under `src/`. The centre of the repository is
`src/libpurple/cipher.c`: a registry of named ciphers, reference-counted
contexts bound to them, a generic dispatch API, the DES/3DES, SHA-1, SHA-256
and RC4 engines, and the HTTP Digest helpers built on MD5 contexts. The other
files under `src/` are unrelated fragments of pidgin/gaim (network listening,
DBus pointer ids, OSCAR SNAC cache, MSN nexus login, Jabber BOSH, UI code).

## 1. Inventory

### 1.1 Components of `src/libpurple/cipher.c`

| Component | Code | State | Operations |
|---|---|---|---|
| Registry | `ciphers` GList, `struct _PurpleCipher` (1700-1925) | list of ciphers in registration order; per cipher `name`, `ops`, `ref` | `purple_ciphers_register_cipher`, `_unregister_cipher`, `_find_cipher`, `purple_ciphers_init` (8 built-ins), `purple_ciphers_uninit` |
| Context lifecycle | `struct _PurpleCipherContext`, `purple_cipher_context_new(_by_name)`, `_destroy` (1967-2027) | `context->cipher` (immutable), `context->data` (engine state) | new (ref++, ops->init), destroy (ref--, ops->uninit, free) |
| Generic context API | 1926-2305 | none of its own | set/get option, reset, set_iv, append, digest, digest_to_str, encrypt, decrypt, set_salt, set_key, set_key_with_len, batch mode, block/key/salt size: each forwards to `ops->X` or warns and returns -1/FALSE/NULL |
| SHA-1, SHA-256 engines | 925-1695 (hand-written path, used when GLib < 2.16) | `H[5]`/`H[8]`, `W[80]`/`W[64]`, `lenW` (bytes in the current block), `sizeHi:sizeLo` (64-bit bit count as two 32-bit halves) | init, reset, append, digest (pad, length, serialise, reset), set_opt/get_opt of `sizeHi`, `sizeLo`, `lenW` |
| GChecksum wrappers | 41-121, and the GLib >= 2.16 branches of SHA-1/SHA-256 | a `GChecksum*` | init, reset, append (split at G_MAXSSIZE), digest (length check, get_digest, reset) |
| DES | 122-573 | 32 encryption and 32 decryption subkeys | set_key (key schedule, reversed pairs), encrypt/decrypt (ECB over 8-byte blocks, zero-padded last block) |
| Triple DES | 575-923 | batch mode (ECB/CBC), 8-byte IV, three DES key schedules | set_key, set_iv (len must be 8), set/get batch mode, encrypt/decrypt in ECB or CBC |
| RC4 | `RC4Context` and `rc4_*` (1625-1698) | 256-byte permutation, indices `x`, `y`, `key_len` (default 5) | init/reset (identity, x = y = 0, key_len = 5), set_key (key schedule over the *current* table), set_opt/get_opt `key_len`, get_key_size, encrypt (keystream continues from the stored x, y, table) |
| Digest-region helper | `purple_cipher_digest_region` (1779-1805) | a temporary context | find, new, append, digest, destroy |
| HTTP Digest helpers | 2306-2485 | temporary MD5 contexts | session key (MD5, MD5-sess), response (qop none/auth/auth-int) |

The registry is global, mutated at startup/shutdown and by plugins; contexts
are created per operation by protocol code. All calls are synchronous and run
on the single GLib main-loop thread: there is no concurrency inside the
component, so the hard behaviours are *sequences of legal calls* (a context
outliving its cipher, uninit while contexts are alive, re-keying a used RC4
context, a digest after a failed digest_to_str), *numeric edges* (the 64-bit
bit counter split in two 32-bit halves, the last partial block, the padding
boundary at 55/56 bytes) and *partial failure* (a check that fails after
state was already changed; a helper returning early without destroying its
contexts).

### 1.2 Interactions

* Callers (protocol engines, `HTTP Digest` helpers, `digest_region`) find a
  cipher by name in the registry, create a context (which bumps the cipher's
  `ref`), drive it through the generic API, and destroy it.
* The generic API dispatches on the cipher's `ops` table; a missing entry is
  a warning and an error value, never a crash.
* `sha1_digest`/`sha256_digest` feed their own padding back through
  `purple_cipher_context_append` and finish with `purple_cipher_context_reset`.
* Registration and removal emit the `cipher-added`/`cipher-removed` signals
  (external observers, not modelled).

### 1.3 Other files under `src/`

| File | What it is | Modelling value |
|---|---|---|
| `src/src/network.c` | listening sockets on a port or a port range | `gaim_network_listen_range` walks an `unsigned short` range (wraps at 65535); `gaim_network_do_listen` formats the port into `char serv[5]` (truncates 5-digit ports) |
| `src/src/protocols/oscar/snac.c` | cache of outstanding SNAC requests, hashed by id | ids from a 32-bit counter, insertion, removal, age-based cleanup |
| `src/libpurple/protocols/jabber/bosh.c` | BOSH (XMPP over HTTP) connection | `rid` counter, `receive_cb` state machine boot -> auth -> received, ready flag, reconnect |
| `src/src/dbus-server.c` | DBus pointer <-> id tables, dispatch | three hash tables kept in step, `last_id` counter (modelled: `DBusServer`) |
| `src/src/protocols/msn/nexus.c` | MSN Passport login over SSL | the callback sequence connect -> write -> read, the challenge key check, destruction of the nexus on every path (modelled: `Nexus`) |
| `src/src/protocols/oscar/family_advert.c`, `src/src/prefix.h`, `src/libpurple/protocols/yahoo/libyahoo.c`, `src/console/libgnt/gntcolors.c`, `src/finch/gntsound.c`, `src/plugins/musicmessaging/musicmessaging.c`, `src/libpurple/ciphers/sha1.c` | stubs, plugin tables, UI, GStreamer playback, a GObject SHA-1 wrapper over GChecksum | little or no state machine of their own |

### 1.4 What makes each component correct

* Registry: names unique up to ASCII case; `ref` equals the number of live
  contexts; a cipher is freed only when no context points to it; the global
  list never points at freed nodes.
* SHA engines: every digest equals the Merkle-Damgard hash of exactly the
  bytes appended since the last reset (padding `0x80`, zeros to offset 56,
  the 64-bit *pre-padding* bit count), the state is back to the initial
  constants afterwards, and the bit count carries correctly between halves.
* DES/3DES: decrypt(encrypt(m)) = m block by block in ECB and CBC; the
  reported output length matches what was written.
* RC4: the keystream over several encrypt calls equals the keystream of one
  call over the concatenation; a set_key yields the standard RC4 keystream.
* HTTP Digest: every exit path destroys the contexts it created; unsupported
  algorithms/qop are refused; the response follows RFC 2617.

## 2. Plan and status

1. `CipherRegistry` (+ `MCCipherRegistry`): registry and context lifecycle. **Done.**
2. `DigestSpec` / `ShaEngine`: the streaming SHA engine shown to implement
   the abstract digest context. **Done.**
3. `BlockModes`: DES ECB and 3DES ECB/CBC loops, round trip and reported
   length. **Done.**
4. `Rc4Spec` / `Rc4`: key schedule and keystream with persistent state. **Done.**
5. `HttpDigest`: the two helpers as step machines over their MD5 contexts. **Done.**
6. `ShaHash`: the bit-level SHA-1 and SHA-256 compression, append and
   digest, checked against the FIPS 180-2 vectors. **Done.**
7. Neighbours: `SnacCacheSpec` / `SnacCache` (snac.c) and `Bosh` (bosh.c).
   **Done.** `Network` (network.c's listening sockets). **Done.** The three
   are checked side by side by `MCNeighbours`.
8. The generic dispatch API over each cipher's `ops` table
   (`purple_cipher_context_set_salt` ... `set_key_with_len`,
   `purple_cipher_get_capabilities`, `purple_cipher_digest_region`) in
   `CipherRegistry`. **Done.**
9. `Word32` / `DesCore`: the bit-exact DES key schedule and block function
   checked against the FIPS 46 vector. **Done.**
10. `DBusServer` (dbus-server.c): the pointer registration tables, signal
   emission, argument unpacking. **Done**, checked in `MCSideBySide` with
   the cipher registry and the HTTP Digest helpers.
11. `Nexus` (msn/nexus.c): the login callbacks. **Done**, checked in
   `MCSideBySide`, with the finding of the `nexus_null_format` run.
12. `MCPrimitives`: the DES/3DES and RC4 runs merged into one, side by side,
   to keep the number of runs at twelve. **Done.**
13. Open: `set_option` / `get_option` / `set_iv` dispatch and `set_data`;
   the music-messaging session.

## 3. Modules and runs

### CipherRegistry

State: `ciphers` (the GList, a sequence of cipher addresses), `allocated`,
`name`, `ref` (fields of each `PurpleCipher`), `ctxCipher` (`context->cipher`
of each live context), `listFreed` (the list was freed by uninit while the
global still points at it). Actions: `RegisterCipher`, `UnregisterCipher`,
`CiphersInit` (the built-ins, in order, duplicates refused), `CiphersUninit`
(unregister everything that can be, then free the list), `ContextNew`
(find + new: ref++), `ContextDestroy` (ref--). Each cipher also has `ops`,
the set of non-NULL entries of the table it was registered with, and
`lastCall` records the last call made through the generic API. `Dispatch`
is the common body of `purple_cipher_context_set_salt` ... `set_key_with_len`
(call `ops->X` if the entry is there, else warn and return -1 from the
getters); `DigestRegion` is `purple_cipher_digest_region` (refuse a cipher
without append or digest; the temporary context's ref++ and ref-- happen
within the call); `GetCapabilities` is the caps mask as a set. What the
reached operation does to the context's data is modelled per cipher in the
other modules.

`MCCipherRegistry`: names `md5`, `MD5`, `des` (so a plugin name clashes with
a built-in up to case), built-ins `<<"md5", "des">>`, three cipher addresses
(enough for both built-ins plus a plugin, and for address reuse after free),
two contexts (two contexts on one cipher, or one on each). The tables:
`des` as `DESOps` (init, uninit, encrypt, decrypt, set_key), `md5` as a
digest (init, reset, append, digest), the plugin `MD5` with encrypt only;
callers dispatch `set_key` (some tables have it) and `get_block_size` (none
has it).

| Run | Checks | Result |
|---|---|---|
| `side_by_side` | `TypeOK`, `UniqueNames`, `RefCountExact`, `NoFreeUnderContext` (with the HTTP Digest and D-Bus properties, see MCSideBySide below) | pass: any order of registration, init/uninit, context use and dispatch keeps names unique up to case, `ref` exact, and never frees a cipher under a context |
| `registry_dangling` | `NoDanglingList` | violation: `purple_ciphers_init`, a context on `md5`, `purple_ciphers_uninit` -> the list is freed with `md5` still in it |

The `side_by_side` config sets `CHECK_DEADLOCK FALSE` for the registry: once uninit has freed a list
that still holds ciphers, no registry operation has defined behaviour, and
after the last context is destroyed the model has nothing left to do.

### DigestSpec, ShaEngine and ShaHash

`DigestSpec` is what a digest context promises (spec.md 4.2, 4.4, 7): its
state is `msg`, the bytes appended since the last reset, and `out`, the
result of the last digest call. A digest with a large enough buffer returns
`Hash(msg)` and empties `msg`; a refused call returns FALSE and changes
nothing. `Hash(m)` is the sequence of 64-byte blocks that FIPS 180 feeds to
the compression function (message, `0x80`, zeros to offset 56, the bit length
as two big-endian 32-bit halves). Here the compression function is left free:
two engines that hash the same block sequence compute the same digest
whatever the compression function is.

`ShaEngine` is the hand-written `sha1_*` code (SHA-256 has the same buffering,
counter and padding code). State: `lenW`, `W` (the bytes of the current
block), `H` (the blocks passed to `sha1_hash_block` since the last reset,
standing for the accumulator `H[]`), `sizeHi`, `sizeLo`, `out`.
`AppendByte` is one iteration of the loop in `sha1_append` (shift the byte in,
hash at the 64th byte, add 8 to `sizeLo`, carry when `sizeLo < 8`);
`Finalize` is `sha1_digest`: capture `padlen`, append `0x80`, zeros while
`lenW != 56`, `padlen`, all through the same per-byte path, then reset.
Actions: `AppendData`, `Digest`, `DigestToStr`, `Reset`, `SetSizeHi`,
`SetSizeLo`. The refinement mapping is `msg <- FlattenSeq(H) \o W`. The
abstract context also keeps `bits`, the two-word bit count: an append adds
8 per byte modulo `Word^2`, set_option overwrites one word, and `Hash(msg,
bits)` pads with it. Refinement therefore also checks the engine's carry
from `sizeLo` into `sizeHi` and the wrap of `sizeHi`.

`Word` (2^32 in the code) is a constant. With `Word = 64`, `sizeLo` wraps
into `sizeHi` every 8 bytes and `sizeHi` itself wraps, so the carry code is
exercised on every run; the set_option value 63 is off the byte grid, just
below the wrap. `MaxMsgBytes = 72` with chunks of 1, 7 and 56 bytes reaches
every offset in a block, including 55 (the padding fits) and 56..63 (the
padding spills into a second block).

`ShaHash` is the bit-level side: `sha1_hash_block` and `sha256_hash_block`
(message schedule and rounds), the `sha256_K` table, both resets, and the
shared append and digest loops, as pure operators over a context record
`[H, W, lenW, sizeHi, sizeLo]`. A `guint32` is a pair of 16-bit halves
(TLC's integers are signed 32-bit), with `Add32` wrapping modulo 2^32 and the
bitwise operators of the community module `Bitwise` on each half.
`MCShaEngine` checks it against FIPS 180-2 vectors. The vectors in spec.md
section 8 are truncated (a digit is missing in each), so the full published
values are used.

| Run | Checks | Result |
|---|---|---|
| `sha_refinement` | `TypeOK`, `RefinesDigestSpec`, `Sha1KnownVectors`, `Sha256KnownVectors` | pass (83,348 states): every digest hashes exactly the bytes appended since the last reset, padded with the bit count as carried and wrapped by the code, under any order of appends, digests, refused digests, resets and set_option; from a fresh context the 56-byte message gives SHA-1 `84983e44...e54670f1` (two blocks, padding spilling over) and `""` gives SHA-256 `e3b0c442...7852b855` |
| `sha_digest_to_str` | `RefinesDigestSpec` | violation: append one byte, then `digest_to_str` with a 40-byte buffer. The call returns FALSE, but the context has already been digested and reset (spec.md 7 says a refused call leaves it unchanged) |

### BlockModes (DES and Triple DES)

The data is scaled down, but the code's structure is kept: a "byte" is one bit, a
block is 8 of them, and a half-block 4. `DesRound` is one Feistel round
of `des_ecb_encrypt` (expansion and permutation collapsed, a 4-bit S-box
taken from row 0 of DES S1 on the right half XOR the subkey). `Rounds` runs the 16
rounds with two subkeys each, then swaps the halves, as the code does. The key
schedule (`des_key_schedule`) is abstract: any subkey sequence the key determines.
The properties depend on how encryption and decryption subkeys are *paired*
and *reversed*, and `DecryptSubkeys` models that exactly (line 437-441).
`DesEcb`, `Des3EcbEnc`/`Des3EcbDec` and `CbcEnc`/`CbcDec` are the loops of
`des_encrypt`, `des3_ecb_*` and `des3_cbc_*`: whole blocks, then the partial
tail copied into a zeroed buffer. `OutLen` is what the code stores in
`*outlen`.

State: `desKs` (the DES context's subkeys), `des3` (mode, IV, three key
schedules), `encLast`/`last` (history: the last encrypt call and the last
call's result). The 3DES actions are `Des3SetKey`, `Des3SetIV` (refused
unless the length is 8), `Des3SetBatch`, `Des3Encrypt` and `Des3Decrypt`; the DES
actions are `DesSetKey`, `DesEncrypt` and `DesDecrypt`. `Contexts` is the set of
contexts the module drives. `MCBlockModes` lets one run cover both: its
initial state picks one context (`use`), and the action constraint
`OneContext` keeps the other unchanged, so the two state spaces are added
rather than multiplied.

| Run | Checks | Result |
|---|---|---|
| `primitives` | `TypeOK`, `RoundTrip`, `DesKnownVector` (with the RC4 properties, see MCPrimitives below) | pass: DesCore encrypts and decrypts the FIPS 46 example exactly; and for the DES context and for the 3DES context in ECB and CBC (keys `k1,k2,k3` and `k2,k2,k1`, the latter collapsing EDE to single DES, a valid and a 7-byte IV, messages of 0, 5 and 13 bytes, any order of set_key, set_iv, set_batch, encrypt, decrypt), decrypting the last ciphertext under the same keys gives the zero-padded plaintext |
| `des_outlen` | `OutLenReported` | violation: encrypting 5 bytes reports `*outlen = 10` and writes 8 |

### Word32 and DesCore (bit-exact DES)

`Word32` holds the `guint32` helpers shared by ShaHash and DesCore: a word is
`<<hi16, lo16>>`, with wrapping `Add32`, rotations, shifts, the byte
conversions of `READ_64BIT_DATA` / `WRITE_64BIT_DATA`, and XOR/AND/OR both
via `Bitwise` (used by SHA) and via 4-bit lookup tables (`XorT`, `AndT`,
`OrT`, used by DES, whose deeply nested expressions would exhaust TLC's stack
through the recursive `Bitwise` operators).

`DesCore` translates `des_key_schedule`, `des_set_key` and `des_ecb_crypt`
as pure operators: the eight S-box tables, `leftkey_swap`, `rightkey_swap`,
`encrypt_rotate_tab`, `DO_PERMUTATION`, the initial and final permutations,
`DES_ROUND`, and the sixteen rounds. The per-round rotations of the key
schedule loop are computed as cumulative rotations (`Rotated(k)`), which is
the same value. Conditions such as `IsWord(x)` (true of every word) and
`keys # <<>>` appear in the operators only to make TLC compute an
intermediate result where it stands instead of re-expanding it lazily
inside the next stage; they never select a different value.
`MCBlockModes` runs DesCore on the FIPS 46 example that spec.md quotes (key
`133457799BBCDFF1`, plaintext `0123456789ABCDEF`, ciphertext
`85E813540F0AB405`) in both directions, as the invariant `DesKnownVector`
of the `primitives` run.

### Rc4Spec and Rc4

`Rc4Spec` is spec.md 4.5: set_key schedules the key over the *identity*
table, and encrypt XORs the data with the keystream of that key, continued
from where the previous call stopped (`pos`). The keystream is recomputed
from scratch each time. `Rc4` is the code, over the full 256-entry table:
`SetKeyLoop` is the loop of `rc4_set_key` over the *current* table with the
key index cycling modulo `key_len`; `EncryptLoop` is the loop of
`rc4_encrypt` from the stored `x`, `y`; `Init`, `Reset`, `SetKeyLen`
(`rc4_set_opt`) complete the actions. The 256-iteration loop is evaluated in
runs of sixteen (`SetKeyRun`) so that TLC's recursion stays shallow; it is
the same loop. History variables `keyed`, `pt`, `ct` give the refinement
mapping `key <- keyed, pos <- Len(pt)`.

The run uses `SpecFreshKey`: set_key only on a new or reset context.
spec.md 4.5 makes that the caller's duty (re-keying a used context
schedules over the permuted table, which is listed as a hazard, not a
finding). `MCRc4` uses the spec's vector (key `"Key"`, plaintext `"Plaintext"`, key_len
3), split across two encrypt calls, plus a second 5-byte key.

| Run | Checks | Result |
|---|---|---|
| `primitives` | `Rc4TableIsPermutation` (Rc4's `TypeOK`: the table is a permutation), `KnownVector`, `RefinesRc4Spec` | pass: callers that key only a fresh or reset context get the spec's ciphertext `BB F3 16 E8 D9 40 AF 0A D3` when the plaintext is fed as `Plain` then `text` in two calls (the only split the bounds give that spells it), and the standard keystream continues across calls |

### HttpDigest

`purple_cipher_http_digest_calculate_session_key` and `_response` as step
machines. A step is the stretch of code between two context creations,
digests or returns (`SkCall`, `SkSess`, `SkFinal`, `RsCall`, `RsInt`,
`RsEntity`, `RsHash2`, `RsQop`, `RsFinal`). State: where the running call is
(`pc`, `fn`, `args`), what was appended to each local MD5 context and which
exist (`ctx`, `live`), the static `hash2` buffer, whether `md5` is
registered, and the last return (`ret`). MD5 is abstract: `Hex(s)` is the
hex digest of a token sequence, `RawDigest(s)` its raw bytes. Names compared
with `g_ascii_strcasecmp` carry their text and case-folded form.

`MCHttpDigest` gives every argument a value or NULL. Names come in two
spellings (`MD5-sess`, `AUTH-INT`), and an empty algorithm or qop is
included, so every early return and every case-insensitive test is taken.

| Run | Checks | Result |
|---|---|---|
| `side_by_side` | `NoContextLeak`, `ResultMatchesRfc` | pass: every exit of either helper has destroyed every context it created, and every result is the RFC 2617 value, NULL exactly when the arguments are refused |
| `http_unsupported` | `ResultMatchesRfc` | violation: the check `strcasecmp(alg, "MD5") \|\| strcasecmp(alg, "MD5-sess")` holds for every name, so `SHA-256` (and qop `token`) is not refused and an MD5-based value comes back |

The session key for MD5-sess feeds HA1 to the second MD5 as its 16 raw
bytes (`purple_cipher_context_digest`, as RFC 2617's reference code does).
spec.md 4.6 describes the hex string there. `SpecSessionKey` follows the RFC
and the code, and the divergence is recorded in PROJECT.json's hazards.

### SnacCacheSpec and SnacCache (oscar/snac.c)

`SnacCacheSpec` is the promise in the comment at the top of snac.c. It keeps
a set of outstanding SNACs `[id, family, flags, data, t, n]`, where `n`
numbers the sends so two SNACs that got the same id after a wrap stay
apart. `Cache` takes the next id (and may fail, returning 0 with the id used
up). `Rem(id)` removes one outstanding SNAC with that id, freeing its data
if it has the destructor flag, or returns NULL. `Clean(maxage)` removes
every SNAC older than `maxage` at the start of the call, and possibly
those that turn old while it runs.

`SnacCache` is the code: `hash`, one sequence per chain with new SNACs
pushed at the head, and `snacidNext`. `CacheSnac` is `aim_cachesnac` plus
`aim_newsnac`, with both mallocs able to fail; when the node malloc fails,
the data copy is leaked. `RemSnac` walks chain `id % size` to the first
match. `CleanSnacs` reads `time(NULL)` per non-empty chain, so the clock
may move between chains, and `Sweep` is its unlink loop. The mapping is
`outstanding <- Cached` (the union of the chains).

Bounds: `IdMod = 3`, so ids wrap to 0 and repeat within `MaxSent = 4`
sends. `HashSize = 2` lets equal ids share a chain and different ids use
different chains. `MaxTime = 3` with `MaxAges = {1}` makes SNACs age out
both before and during a clean-up.

The refinement is deliberately permissive, and it says nothing about three
of the cache's hazards. The leaked copy after a failed node malloc
(snac.c:81) is not state of either module. `Rem` may remove any SNAC with
the id, so which of two duplicates a reply removes (snac.c:108) is not
checked. `Clean` allows both clock readings, so the clock moving between
chains (snac.c:141) is not checked either. What the refinement does show is
that no SNAC is lost, duplicated or changed, and that the ids are handed out
in order.

| Run | Checks | Result |
|---|---|---|
| `neighbours` | `RefinesSnacCacheSpec` (with the BOSH and network properties, see MCNeighbours below) | pass: the chains implement the abstract cache; with duplicate ids the reply removes the most recent one, which the abstract `Rem` allows |

`result` holds what the last call returned. The id returned by
`aim_cachesnac` is kept as the record `[snacid |-> id]`, not as a bare
integer, so that `result` always has one kind of value. TLC's liveness
checking in the `neighbours` run compares values of `result` across states,
and it cannot compare an integer with a SNAC record.

### Bosh (jabber/bosh.c)

One pipelined HTTP connection (`conn_a`) between the BOSH client and a
connection manager. The client state is `hc` (init, connecting, open,
failed, closed), the `receive_cb` stage `cb` (boot, auth, received),
`ready`, `sid`, `use_bosh`, `rid`, the queue of outstanding request rids,
and the read buffer `current_data` with the parsed-header flag. The manager
holds its `inbox` of unanswered requests and the `wire` of unread bytes. A
response is a header unit, a body unit naming the request it answers, and
possibly an Eof. A read takes any non-empty prefix of the wire, so
responses can be split or coalesced arbitrarily. `Receive` is the whole
read handler: buffer, parse the header, take the body if complete, pop the
oldest request, call the callback, and send the empty poll if the
connection was ready and nothing is outstanding. `Boot`, `SendStanza`,
`Callback` (the boot/auth/received stages), `Terminated`, `ConnectCb` and
`ReadEof` complete the client. `Answer` and `Close` are the manager.

`MaxRid = 4` and `MaxAnswers = 5` allow boot, authentication (failure or
success, then the stream restart), session establishment and the first
polls, including two responses outstanding at once.

| Run | Checks | Result |
|---|---|---|
| `neighbours` | `RidConsecutive`, `ResponsePairing` | pass: the requests on the socket carry consecutive rids (the stream restart increments rid too), and every body goes to the callback paired with the request it answers |
| `bosh_stall` | `AllAnswersHandled` | violation: two responses arrive in one read. The handler handles the first and leaves the second in `current_data`. No more bytes come, because the manager has nothing left to answer, so the second response is never handled |

`FairSpec` assumes weak fairness of `ConnectCb`, `Receive` and `ReadEof`
(the GLib main loop runs a pending proxy callback and an input watcher whose
fd is readable) and of `Answer` (a connection manager answers every request
within its wait time). `Close` and the XMPP layer's `SendStanza` get no
fairness. The configs set `CHECK_DEADLOCK FALSE` because the client really
stops: nothing reconnects after a failed connect or a closed socket, and the
bounds end the session.

### Network (network.c)

`gaim_network_listen(port)` refuses port 0 and calls `gaim_network_do_listen`.
`gaim_network_listen_range(start, end)` replaces both bounds with the
`ports_range_*` preferences when `ports_range_use` is set. It raises `end` to
`start` only when the preferences are not used. It then loops
`for (; start <= end; start++)` over an `unsigned short`.

State:
* `prefs`: the three preferences, starting from `gaim_network_init`'s
  defaults.
* `listening`: the ports that have this process's listening sockets. A
  socket is named by its port.
* `pc`, `cur`, `lo`, `hi`: the loop.
* `ret`, `returned`: what the last call returned.

Actions:
* `Listen` and `ListenRange` are the calls.
* `Step` is one iteration of the loop. It is written as
  `Iterate(start <= end, start + 1 mod 2^16)`, so the mutants change only the
  condition or the increment.
* `SetPrefs` is the user editing the preferences.
* `CloseListener` is a caller closing its socket. That code is outside
  network.c, but it frees ports for later calls.

`DoListen` is `gaim_network_do_listen` in the `getaddrinfo` build, and it can
produce four outcomes:
* `socket()` fails once `MaxFds` sockets are open.
* `snprintf` into `char serv[5]` keeps four digits (`Serv`).
* Service `"0"` binds a port of the kernel's choosing (from `Ephemeral`).
* Otherwise the bind succeeds exactly when nobody listens on the port.

The loop runs on the main loop without yielding, so no other action is
enabled while `pc = "range"`. That same fact justifies the weak fairness
of `Step` in `Network`'s `Spec`. No run states a liveness property of the
walk: it returns whenever the range does not end at 65535, and when it
does, `network_wrap` already shows the wrap.

Properties:
* `ListenResult`: whenever a call returns, the socket is on the first usable
  port of the requested range. -1 means that no port of the range was usable.

Bounds (`MCNetwork`):
* Port 1024 is taken.
* The kernel hands out port 40000.
* Two descriptors are available.
* Callers ask for the range 1024..1025 and for 1026..1024, which the code
  raises to 1026..1026.
* Callers call `gaim_network_listen` with 0 and with 1025.
* The preferences may hold 1025 or 1026 for either bound. This gives empty
  preference ranges, which the code does not correct.

These bounds give a busy first port, a free last port, descriptor exhaustion,
reuse after a close, and both preference paths.

| Run | Checks | Result |
|---|---|---|
| `neighbours` | `ListenResult` | pass: for ranges below 10000 that do not end at 65535, each call returns a socket on the first usable port, or -1 exactly when none is usable. The preferences never hold 0, so a start of 0 (network.c:204) is not exercised |
| `network_wrap` | `ListenResult` | violation: `gaim_network_listen_range(65534, 65535)` with port 6553 taken. Both ports become `"6553"`, and `start++` wraps to 0. `do_listen(0)` then returns a socket on port 40000, outside the range. With every port failing, for example when the process is out of descriptors, the same walk never ends |

### MCNeighbours

The SNAC cache, the BOSH client and the network sockets share no state. The
run cap keeps one run for all three: `MCNeighbours` instantiates
`MCSnacCache`, `MCBosh` and `MCNetwork` over one set of variables. Its
initial state picks one component (`use`), and only that component moves. The
run therefore explores the three state spaces one after another, not their
product (131,361 states in total). Each component keeps the constants of its
own MC module. All of its properties are safety properties, so its
specification states no fairness.

### DBusServer (dbus-server.c)

`gaim_dbus_register_pointer(node, type)` gives an object the next handle
from a static `gint last_id`. It inserts the handle into three
`GHashTable`s: `map_node_id`, `map_id_node` and `map_id_type`.
`gaim_dbus_unregister_pointer` removes the object's entries.
`gaim_dbus_pointer_to_id` and `gaim_dbus_id_to_pointer` translate in each
direction. The second one accepts a handle whose type is the asked type, or
whose `parent` chain reaches it: `gaim_dbus_init_ids` makes buddies,
contacts, chats and groups children of `GaimBlistNode`. Signals are
forwarded to the bus under a converted name, with each pointer argument
replaced by its handle.

State:
* `nodeId`, `idNode`, `idType`: the three tables. Each is a function whose
  absent keys read as NULL, which is 0 for a handle.
* `lastId`: the counter. It is a `gint` of `IdBits` bits, and `last_id++`
  past `G_MAXINT` wraps to `G_MININT`. The overflow is undefined, and the
  build wraps.
* `conn`, `initErr`: `gaim_dbus_connection` and `init_error`.
* `alive`: the objects that exist and their types. Their constructors and
  destructors are outside the file, and they register and unregister the
  objects.
* `regs`: the number of creations.
* `result`: the last lookup.
* `sent`: the last signal sent.

Actions:
* `Create` / `Destroy`: a constructor or destructor with its register or
  unregister call.
* `PointerToId` / `IdToPointer`: the `_error` forms of the lookups, called
  with every live object and NULL, or with every handle and every type.
* `EmitSignal`: `gaim_dbus_signal_emit_gaim`. It does nothing without a
  connection or for `dbus-method-called`.
* `Uninit`: frees `init_error` and does nothing else.

`Init` is `gaim_dbus_init`. The tables are empty, and `dispatch_init` either
succeeds or fails at one of its three steps. One failure, at the object
path, keeps the connection.

Two pure functions are operators checked against reference definitions:
* `ConvertSignalName`: `gaim_dbus_convert_signal_name`, a loop with a
  `capitalize_next` flag.
* `GetArgs`: the loop of `gaim_dbus_message_iter_get_args_valist`. It stops
  at the first container ("for testing only!"), and the reference states
  that shortcut.

Properties:
* `TablesConsistent`: every live object has a non-zero handle, which the
  other two tables map back to it and to its creation type. Every handle
  in the tables names a live object.
* `ResolveSound`: every handle a client sends, with every type, resolves
  to the live object holding it when the object is of that type or a
  subtype, and to NULL otherwise. The set of types an object is an
  instance of is computed by its own operator.
* `SignalNameMatchesReference`, `GetArgsMatchesReference` (stated in
  `MCSideBySide`): the conversion and the argument check agree with
  reference definitions on every input up to length four (names) or three
  (argument specification and message). Each input is one initial state of
  the side-by-side run's "pure" choice.

`MCDBusServer` has the following bounds:
* Two addresses, so an address is freed and reused, possibly for another
  type.
* A buddy, a group and an account, plus `GaimBlistNode` as a query type.
* Two signal names.
* A 3-bit `gint`.

With four creations, handles run 1, 2, 3 and then -4 past `G_MAXINT`, which
the passing run covers. With eight creations, the counter reaches 0.

| Run | Checks | Result |
|---|---|---|
| `side_by_side` | `TablesConsistent`, `ResolveSound`, `SignalNameMatchesReference`, `GetArgsMatchesReference` | pass: over any creation, destruction and address reuse, and across the wrap to negative handles, the tables stay inverse, no handle reaches a destroyed object or an object of an unrelated type, and both pure functions match their references |
| `dbus_id_wrap` | `TablesConsistent` | violation: seven create/destroy cycles take `last_id` to -1, and the eighth object gets handle 0, stored as `GINT_TO_POINTER(0)` = NULL. `gaim_dbus_pointer_to_id` then reports a live object as unregistered, and the next registrations reuse handles that live objects may hold. With a real `gint` this takes 2^32 registrations |

### Nexus (msn/nexus.c)

The nexus makes one Windows Live ID request over its own SSL connection. The
notification server code (not in the repository) creates it with
`msn_nexus_new`, fills `challenge_data` from the server's `USR TWN S` reply,
and calls `msn_nexus_connect`. From there the SSL layer drives it through
callbacks:

| Action | Code | What it does |
|---|---|---|
| `Init` | `msn_nexus_new` | nexus live, `session->nexus` set, a challenge table from `ChallengeTables` |
| `Connect` | `msn_nexus_connect` | SOAP init with `connect_cb`/`error_cb`, connect |
| `ConnectCb` = `KeyError` or `SendRequest` | `nexus_login_connect_cb` | login step; if a key of line 218 is NULL: error, close, destroy, `session->nexus = NULL`, return; else format challenge and request, write |
| `ErrorCb` | `nexus_login_error_cb` | report the error only; the comment says the error destroys the nexus |
| `WrittenCb` | `nexus_login_written_cb` | set `read_cb` |
| `ReadCb(r)` | `nexus_login_read_cb` | split the reply into the table, copy `t`/`p` to the passport, format `t=%s&p=%s` for `msn_got_login_params`, destroy, `session->nexus = NULL` |
| `Disconnect` | the disconnect `msn_session_set_error` leads to | destroy `session->nexus` if set |

A string is abstracted to whether it is NULL: `challenge` is the set of keys
with a non-NULL value. A reply parameter without `=` inserts NULL and so
removes its key. The SOAP layer (`soap.c`) and `session.c` are not in the
repository. The SOAP layer is the environment that calls the callbacks, and
`msn_nexus_destroy` closes it, so no callback runs after it. The comment in
`nexus_login_error_cb` says `msn_session_set_error` "will result in nexus
being destroyed". It is modelled as a scheduled disconnect that destroys
`session->nexus` when the pointer is still set. That is the only reading
under which both callbacks are right: `error_cb` must not destroy, and
`connect_cb`, which destroys, clears the pointer first.

`MCNexus` has four challenge tables: complete, without `fs`, without `rn`
and without `lc`. It has three replies: with `t` and `p`, with `p` given
without `=`, and without `t`.

| Run | Checks | Result |
|---|---|---|
| `side_by_side` | `FreedOnce`, `ErrorExcludesLogin` | pass: on every path (key error, SSL error, reply, each with the scheduled disconnect before or after) the nexus is freed at most once, and a session never gets both an authentication error and login parameters |
| `nexus_null_format` | `NoNullFormatted` | violation: a challenge without `rn` passes the key check at line 218, and line 242 formats `rn` with `%s` as NULL. The comment at lines 213-217 says this crashes `g_strdup_printf` on Windows and that the check is there to return an authentication failure instead. The reply without `t` reaches the unchecked format at line 144 the same way |

### MCPrimitives

The DES/3DES contexts and the RC4 context share no state. They are checked in
one run, built like `MCSideBySide`: `use` picks `des`, `des3` or `rc4` and
only that context moves. Each context's constants are those of its MC module
(`MCBlockModes`, `MCRc4`). The run reaches 6,162 states in under two minutes.
The SHA engine stays in its own run: through an instance, its steps are not
cached and the run would exceed the time limit.

### MCSideBySide

The cipher registry, the HTTP Digest helpers, the D-Bus registry and the
nexus login share no state. The run cap keeps them in one run, built like
`MCNeighbours`. A `use` variable picks one component in the initial state,
and only that component moves. The components that stay put are held in one
initial state each: `md5` present, D-Bus initialised without error, and the
nexus with the complete challenge table. Their state spaces are therefore
added rather than multiplied. Another choice, `pure`, takes no step. Its
initial states are the inputs of the two pure D-Bus functions: 781 signal
names, or one of 7,225 pairs of argument specification and message. The run
reaches 284,875 states in under a minute and a half. A nexus login stops
once the nexus is gone, which is one more reason the config sets
`CHECK_DEADLOCK FALSE`.
No component has a liveness property, so the run states no fairness.

## 4. Not modelled (and why)

* nexus.c: the reply text itself. `g_strstr_len` returning NULL when a token
  is missing (lines 107-109) makes `base` and `c - base` undefined, and
  nothing in the model stands for the bytes. There is also no timeout on the
  reply: the SOAP layer that would need one is not in the repository.

* SHA `set_opt("lenW")` and `get_opt`: an arbitrary `lenW` (above 319 or
  negative) is an out-of-bounds write into `W`, memory corruption that
  TLC cannot model; get_opt only reads.
* The GChecksum path (GLib >= 2.16): forwards to GLib, except the
  digest length check, which the hand-written path shares.
* Signals `cipher-added`/`cipher-removed`: observers are external.
* MD4, MD5, HMAC engines: not in `src/` (only their ops tables are used).
* UI, GStreamer, DBus marshalling, socket I/O: pure I/O with no state
  machine worth checking (see 1.3).
* dbus-server.c method dispatch (`gaim_dbus_dispatch`,
  `gaim_dbus_dispatch_cb`, `gaim_dbus_register_bindings`) and
  introspection: a method call is offered to the binding tables through
  the `dbus-method-called` signal, and the signal subsystem that orders
  the handlers is not in the repository. Each table's own lookup is a
  `strcmp` loop.
* dbus-server.c `gaim_dbus_iter_hash_table`, `gaim_dbusify_GList` and the
  other list/array helpers: data conversion with no state. The empty
  dictionary case reads the first element before testing that there is one
  (line 368), which is a read of memory outside the model.
* D-Bus objects registered before `gaim_dbus_init`: the model starts with
  the tables created. The order of core initialisation is in `core.c`,
  which is not in the repository.
* network.c's address lookups (`gaim_network_get_local_system_ip`,
  `gaim_network_get_my_ip`, the UPnP/NAT-PMP queries): they only read from
  the network interfaces or the preferences and keep no state.
* `gaim_network_do_listen` in the build without `getaddrinfo`: that branch
  binds `port` directly and has no `serv` truncation. The model is of the
  `getaddrinfo` build.
* `purple_cipher_context_set_option`, `get_option` and `set_iv`: the same
  forwarding pattern as `Dispatch`, not separate actions; `set_data` /
  `get_data` store and read one field.
* SNAC families, flags and payloads beyond the destructor flag; the BOSH
  XML beyond the attributes the client reads (`sid`, `ver`, `type`, the
  `<success/>` and `<session/>` children), and reconnection, which this
  version of bosh.c does not have (one connection, `pipelining = TRUE`).
* DES/3DES key schedule and full S-boxes are abstracted in BlockModes (the
  round trip depends only on the subkey order, which is modelled exactly);
  they are modelled bit for bit in DesCore, on one known vector.
* 3DES CBC across calls: each call restarts from `ctx->iv` (the chain is not
  carried over), which matches spec.md's per-call description; listed as a hazard.
* A 3DES batch mode outside ECB/CBC: the enum has only those two.
* RC4 `key_len` 0 (division by zero in `rc4_set_key`) and keys shorter than
  `key_len` (read past the buffer): undefined behaviour with no state to model;
  `SetKey` states the precondition. `rc4_uninit` frees memory only.
