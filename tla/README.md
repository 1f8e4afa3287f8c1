# Verification of threshold-signature-Frost

TLA+ models of the FROST distributed key generation (DKG), the threshold signing
and the on-chain verification of this repository, checked with TLC and proved
with TLAPS. File names below are relative to the repository; `fserver` is
`packages/rust/fserver/src/main.rs`, `dkg` is `packages/rust/dkg/src/main.rs`,
`signing` is `packages/rust/signing/src/main.rs`, `server.ts` is
`packages/ts/ts-fserver/src/server.ts`, `lib.ts` is `packages/ts/web/src/lib.ts`.

## The system

A coordinator relays between participants over WebSockets. Participants run a
DKG session to obtain shares of a group key, and later a signing session to
obtain a Schnorr signature, which contracts verify. There are two coordinators, in
Rust and in TypeScript, and two kinds of clients, command-line programs and web
pages. Nothing a coordinator keeps is persistent; a client keeps its secrets in
memory until it writes, or offers, its files.

| Component | State | Operations | Interacts with |
|---|---|---|---|
| Rust coordinator: registry (`fserver`) | `conns`, `challenges`, `active_tokens`, per-socket `principal_json` | RequestChallenge, Login, Logout, the end of a socket | every client, by its WebSocket |
| Rust coordinator: DKG sessions | `sessions` (joined, round-1 packages, round-2 inboxes, finalized, agreed key), `completed_dkg_sessions` | announce, join, Round1Submit, Round2Submit, FinalizeSubmit, the 15-minute timer | DKG clients |
| Rust coordinator: signing sessions | `sign_sessions` (joined, commitments, shares), `completed_sign_sessions` | announce, join, SignRound1Submit, SignRound2Submit with aggregation, the timer | signers |
| Rust DKG client (`dkg`) | round secrets, cached packages, key package; `group.json`, `share_*.json` | one handler per server message | coordinator; session-id file |
| Rust signer (`signing`) | nonces; `signature.json`; offline: nonce, commitment and share files | `ws` loop; offline Round1, Round2, Aggregate | coordinator, or files only |
| Helper, WASM | none | authentication payloads, ECIES, wrappers of the FROST crate | linked into the clients |
| TypeScript coordinator (`server.ts`) | sockets with their challenge and key; sessions with a `state` that outlives the protocol; no timer | the same messages; aborts a started session on a disconnect; list pending | web pages |
| Web client (`lib.ts`, `DkgPage.tsx`, `SigningPage.tsx`) | refs (`sessionIdRef`, `dkgState`, nonces) and React state behind each handler | message handlers, some of which sleep before they go on; clicks; reload | a coordinator |
| Contracts (`packages/ts/onchain-verify/contracts`) | AppManager: apps by id, the verifier; ZecFrost: none | setZecFrost, addApp, updateApp, removeApp, getApp, verify | accounts |
| Verifiers and signer off the chain | none | `verifyFrost` and `sign` of `scripts/helper.ts`; `offchain-verify` | signature files |

### What makes it hard

- **Steps repeat.** A repeated join or submission makes the Rust coordinator
  broadcast the round again (`fserver:809`, `1038`, `1145`, `1531`): the rounds
  are not phases, and clients in the middle of one are put into another. The
  TypeScript coordinator serves a join in any state of the session
  (`server.ts:384`).
- **A principal has several sockets over time.** A client that dies or a page that
  is reloaded logs in on a new socket while the old one may still hold unread
  messages; each message is attributed to the principal, not to the process
  (`fserver:603`, `1036`, `1530`; `server.ts:103`).
- **State is replaced before it is accepted** in the clients (`dkg:421`, `536`).
- **Handlers sleep.** A page's handlers wait a second and then go on with what the
  refs hold by then (`lib.ts:274`, `298`).
- **The timer** of the Rust coordinator removes a session whose submissions are
  under way (`fserver:416`); the TypeScript coordinator has none (`server.ts:543`).
- **Everyone waits for everyone**, without retries.
- **Nonces must serve once** (`signing:925`, `lib.ts:613`).
- **The chain moves** between the reading of a key and the check of a signature
  (`AppManager.sol:98`), and `ecrecover` computes with exceptions that the Schnorr
  equation does not have (`ZecFrost.sol:24`).

`PROJECT.json` lists these hazards line by line, with the properties that cover
each, and says why for those that none covers.

### What makes each component correct

- DKG session: only a group key that every participant derived is announced;
  a derived key holds no polynomial its owner did not deal; the rounds are
  complete when they are announced; at most one outcome; with no failure,
  everybody ends with a share that belongs to the group; with expiry nobody who
  joined is left waiting, and after an abort no page that joined once is.
- Signing session: nonces serve one package; the signature is over a package
  that everybody signed; at most one outcome; with no failure everybody gets the
  signature.
- Registry: the running client's socket is the registered one; on the web, the end
  of an old socket takes neither the login nor the place in a session from the
  open one.
- Contracts: only the owner and the admin change an app; the contract and the
  verifiers off the chain agree; what is signed for a key that was read is accepted
  as long as the app's owner and the admin are silent.

## The modules

    Contributions         who contributes what to a session
      SessionNet          Rust: sockets, processes, the registry of connections
        DkgNet            DKG messages
          FserverDkg      the coordinator of a DKG session
          DkgClient       its clients
            DkgCeremony   both composed; refines DkgOutcome
        SignNet           signing messages
          FserverSign     the coordinator of a signing session
          SignClient      its signers
            SignCeremony  both composed; refines SignOutcome
      WebNet              web: sockets, challenge and login
        TsFserverDkg      the TypeScript coordinator of DKG sessions
          WebDkgClient    the DKG page and its handlers
            WebDkgCeremony   both composed; refines DkgOutcome, per session
        TsFserverSign     the TypeScript coordinator of signing sessions
          WebSigner       the signing page and its handlers
            WebSignCeremony  both composed
      FrostDkg, FrostSign what the FROST crate checks and computes
    Secp256k1             the curve, any with the group laws
      ZecFrost            the verifier contract with the ecrecover precompile
        AppManager        the registry contract
        FrostVerify       the signer and the verifiers off the chain
          OnchainVerify   reading a key, signing, submitting, among transactions

`MCDkgCeremony`, `MCSignCeremony`, `MCWebDkg`, `MCWebSign` and `MCOnchain` are the
instances for TLC. Proofs: `QueueProofs` (what types of messages a queue holds);
on it `SessionProofs` (the Rust sockets) with `DkgProofs` and `SignProofs`, and
`WebNetProofs` (the web's sockets) with `WebDkgProofs` and `WebSignProofs`;
`OnchainProofs`.

**Cryptography.** What a participant draws is named by a generation: a
polynomial in the DKG, nonces in signing. A group key is the function from
participants to the generation each contributed; a signing package is the
function from signers to the generation of their nonces; a signature share and a
signature are named by the package. `Part3Accepts` (a round-2 package must agree
with the commitment in its sender's round-1 package), `SignAccepts` (the
package must hold the commitment to one's nonces) and `AggregateAccepts`
(every share must be computed on this package) are what the FROST crate checks.
The on-chain part is below that level: there points, scalars and their arithmetic
are modelled, and the hash is any function into the scalars.

**History variables.** `dealt`, `derived`, `signed` and `gen` are what a
participant has sent, computed or drawn over all its processes; `silent` is whether
an app's owner and the admin have sent nothing since its key was read.

### The Rust programs

**Processes and sockets.** `<<p, k>>` is the socket of the k-th start of p's
client. `toServer` and `toClient` are FIFO queues; a dead client's socket keeps
a prefix of what was sent and then ends with `Close`, while its successor
already talks on the next socket. `conns` and `logged_in` are `Inner.conns` and
the per-socket `principal_json`; challenge and login are one `Login` message, as
nothing else is possible on the socket before they succeed.

**Atomicity.** Each coordinator handler takes the mutex over `Inner` before its
first read and keeps it until its last send, so it is one action. A socket's
messages are handled in order. A client is one loop and handles one message at a
time. The timer takes the same mutex; the 15-minute limit is an action that may
happen at any moment while the session is open, and nothing else about time is
modelled.

**Correspondence.** An action `HandleX` or `OnX` is the handler of message X.
A `session` value stands for the table the session is in. A coordinator handler's
early returns are `Refuse`; in a client, every `?` that a modelled condition can
trigger is `Abort`.

**Taken for granted.** One session at a time; announcements are well formed
(distinct participants, keys for all of them); clients follow the protocol; one
login per socket; participants are started when the session id is in the file,
and a creator that is started again is started with the session id, not with
`--create`; a creator crashes only after the id was written. `Info`, and `Error`
where the client only prints it, are not sent.

### The TypeScript coordinator and the web pages

**Pages and sockets.** A participant has one page open, which has at most one
socket at a time; `<<p, k>>` is the k-th one. `Disconnect` is the loss of the
socket or the user's click, `Reload` also empties the page. The coordinator may
still be reading the old socket when the page logs in on the next.

**Atomicity.** Node runs one message to its end, so a coordinator handler is one
action. The page does not await its handler: a handler that sleeps ends its action
by queueing the message in `sleeping`, and `WakeUp` is the rest of it, with what the
refs hold by then. Sleeps of equal length end in order. Both are one event loop, so
nothing interrupts an action.

**Sessions.** There may be several, all of one roster, announced by one
participant. A session's `state` is the coordinator's field: it is not terminal, and
the model lets joins and submissions arrive in each. TLC checks one session; the
proofs are about any number.

**Taken for granted.** Each socket logs in with the key of its own participant;
announcements are well formed; the page never sends `Logout` (no page of the
repository does). `Info` and the lists of completed sessions change nothing that is
modelled. `keccak` of a message always has 32 bytes, so the hash check of the
announcement holds. A user clicks Refresh only when nothing is under way on the
page's socket (DKG) or nothing is listed (signing): another refresh gets the same
answer. `IsCreator` is who had the box checked when the page connected.

### The contracts and the verifiers

`Secp256k1` is parameterised by the field, the order and the generator. Its
assumptions are the group laws, that scalars act on the group and that a
compressed point has one decoding of each parity. `EcRecover` is the precompile
with its exceptions, and its caller's memory, which keeps the word that was written
before where nothing is returned. `AppManager` has a transaction for each external
function that changes state, with the checks that revert. Between `Read` (of an
app's key) and `Call` (of `verify`) any account may send any transaction; what is
submitted may be altered in `z` or in the y of R.

### Abstract specifications

`DkgOutcome`: participants derive keys; the session is decided once, for a key that
all derived, or expires; artifacts name the decided key. The Rust session and each
session of the TypeScript coordinator implement it. `SignOutcome`: nonces sign one
package; the session is decided once, for a package all have signed, or is lost;
what is stored is the decided signature. The Rust signing session implements it; the
web's does not, as a page's nonces may sign twice (below).

## What TLC checks

| Run | Instance | Question |
|---|---|---|
| `crash_free` | 3 participants, no crash, timer at any moment; 1,614 states | Does everybody end with a share that belongs to the group (`WrittenShareBelongsToGroup`, `NoClientAborts`, `AllFinish`), and is nobody who joined left waiting (`JoinedClientEnds`)? |
| `restart` | 2 participants, one may crash anywhere and be started once more; 95,635 states | What survives restarts: `CompletedKeyDerivedByAll`, `ArtifactsNameCompletedKey`, `RoundsComplete`, `DerivedKeysFullyDealt`, the refinement of `DkgOutcome` |
| `share_mismatch` | the same, no timer | Violated, see findings |
| `stale_disconnect` | the same, no timer | Violated, see findings |
| `sign_crash_free` | 3 signers, no crash, timer at any moment; 1,681 states | Does everybody store the signature (`AllSign`, `NoSignerAborts`), and is nobody left waiting (`JoinedSignerEnds`)? |
| `sign_restart` | 3 signers, one may crash and be started once more; 243,011 states | What survives restarts: `NoncesSignOnce`, `SignatureSignedByAll`, the refinement of `SignOutcome` |
| `sign_32_bytes` | 2 signers, a message of 32 bytes | Violated, see findings |
| `web_dkg` | 2 pages that join once, one may lose its socket or be reloaded; 63,710 states | Are rounds complete and keys the same (`RoundsComplete`, `DerivedKeysAgree`)? Without a loss, is the session finalized (`AllFinalized`); after an abort, is a page that joined once released (`AbortReleases`); and does the coordinator keep what it holds for an open socket (`OpenSocketKept`)? |
| `web_dkg_rejoin` | the page that lost its socket may join once more; 604,193 states | Is only a key finalized that everybody derived (`FinalizedKeyDerivedByAll`), and only once (the refinement of `DkgOutcome`)? |
| `web_dkg_aborted` | as `web_dkg`, no refresh | Violated, see findings |
| `web_sign` | 2 pages, one may lose its socket, each may join twice; 56,973 states | Is what is signed signed by all (`SignatureSignedByAll`), do nonces sign once (`NoncesSignOnce`), is no published signature replaced (`SignatureStays`), does everybody get the signature without a loss (`AllSigned`), and does no page stay in the rounds of an aborted session (`AbortNoticed`)? |
| `onchain` | one app, two users and the admin, every nonce, on y² = x³ + 7 over 43 elements; 140,054 states | Do contract and verifiers agree (`VerifiersAgree`), and is what was signed for a usable key, with neither z nor the challenge zero, accepted while its owner and the admin are silent (`SilentOwnerAccepted`)? |

**Bounds of the Rust runs.** `MaxStarts` bounds how often a client is started, and
with that every queue and counter: no other bound is needed. Without crashes three
participants show each kind of partial progress (nobody, some, all but one, all).
With a crash two participants and one restart already give all the hard cases of
the DKG: stale messages on a dead socket, repeated rounds, and a package of a dead
process among those of live ones. Three participants with a restart have more than
5 million states of the DKG, too many to check on every change; for those the
proofs stand. Runs stop when all clients have ended, so deadlock is not checked.

**Bounds of the web runs.** `MaxSockets` is how many sockets a page opens; the last
one stays open, so that the bound does not look like a loss of its own. `MaxJoins`
is how often a user clicks Join. A session is announced at most once per
identifier, and the queues and generations are bounded by that. Two pages with one
loss give the aborts in every round, late messages of an old socket, and, with a
second join, rounds repeated over old packages. `MayRefresh` and `IsCreator` differ
between the runs, so each way a page learns of a session occurs in one of them.

**Bounds of the on-chain run.** The curve has 31 points, so every nonce and every
challenge occurs, the exceptional ones too: zero, and an x-coordinate above the
order, which one of the keys has. The registered keys also include a point off the
curve. The two users are alike, which is why they are symmetric. No transaction is
sent between an answer and the next question: it would change nothing the
properties look at.

**Fairness of the Rust runs.** Tokio runs the coordinator's tasks and a client's
loop while there is a message (`WF` of each socket and each client), and every
participant is started. Nothing makes a process crash or a user start it again. In
the signing session the timer is fair too: `sleep` returns. In the DKG properties it
is not needed: `JoinedClientEnds` holds in the crash-free run because the session
either finishes or expires. `JoinedClientEnds` and `JoinedSignerEnds` are claims for
the crash-free system only. After a restart a running client may be cut off from
every broadcast (`stale_disconnect`), and a failed aggregation tells nobody but the
sender of the last share, so waiting for ever is possible then.

**Fairness of the web runs.** The coordinator reads every socket; a page's event
loop handles messages and its timers go off; users connect, and connect again after
a loss; the creator announces, and everybody joins a session that is listed. Nothing
makes a user refresh the list, and nothing makes a socket fail. The TypeScript
coordinator has no timer, so the liveness claims are `AllFinalized` and
`AllSigned`, which say nothing once a socket was lost, and `AbortReleases` and
`AbortNoticed`, which say what becomes of the pages in a session that was aborted.

**Conditions.** In the web's signing session `NoncesSignOnce` holds as long as
nobody joins the session a second time: the page keeps its nonces after signing
(`lib.ts:613`), and the coordinator sends a package for every commitment after the
last (`server.ts:937`). So does `SignatureStays`: a second attempt at a completed
session replaces its signature (`server.ts:1197`). In the web's DKG session the same
condition is part of `DerivedKeysAgree`, and of `RoundsComplete` for round 2: the
TypeScript coordinator counts round-2 packages without looking at their senders, so
that packages sent again by one participant make up for those of another. It is also
part of `OpenSocketKept` for the place in a session: an unread second join of the old
socket takes the place from the new one (`server.ts:410`). `NobodyRejoined` is that
condition; under it sockets may still be lost and pages reloaded at any moment.

`AbortReleases` is about a page that has itself clicked Join once. `SessionAborted`
unlocks the page before the refreshed list arrives (`lib.ts:202`), so the user can
join the aborted session again from the old list. The coordinator takes that join
(`server.ts:384`). The session stays failed, is no longer listed to the others
(`server.ts:457`), and nobody is told of the abort again, so the page stays locked
until its socket closes. With two joins for the page that is never lost
(`MaxJoins`), TLC finds this against the property without its condition.

Each property has a mutant, a plausible bug in one mapped definition that TLC
shows it would catch (`PROJECT.json`, `mutants`; the definitions marked "Mutant
of" in the modules).

## What is proved

For every finite set of participants, any number of starts and of sockets, any set
of faulty participants, any number of web sessions, and whether or not the timer
goes off:

| Theorem | States |
|---|---|
| `TypeCorrect`, `SignTypeCorrect`, `WebDkgTypeCorrect`, `WebSignTypeCorrect` | `TypeOK` of the four ceremonies |
| `Invariance` | the inductive invariant `IInv` of the DKG ceremony |
| `CompletedKeyIsDerived` | a session completes only for a key everybody derived |
| `ArtifactsNameIt` | artifacts exist only for a completed session and name its key |
| `KeysAreDealt` | a derived key holds only polynomials that were dealt |
| `RoundsAreComplete` | Round1All and Round2All are complete |
| `SessionImplementsOutcome` | the DKG ceremony implements `DkgOutcome` |
| `WrittenShareIsOfGroup` | unless a client is started twice, the files a client writes belong together |
| `ClientsNeverAbort` | unless a client is started twice, no client ends with an error |
| `NoncesServeOnce` | a signer's nonces serve one package |
| `SignersNeverAbort` | unless a signer is started twice, no signer of a session that has not expired ends with an error, given that the message is not 32 bytes long |
| `SignatureSigned` | a signature is over a package everybody signed |
| `SignImplementsOutcome` | the signing ceremony implements `SignOutcome` |
| `WebDkgFinalizedDerived` | a web session is finalized only for a key everybody derived |
| `WebDkgImplementsOutcome` | each web session implements `DkgOutcome` |
| `WebDkgRoundsComplete` | Round1All is complete and, unless somebody joins twice, so is what Round2All holds for each page |
| `WebDkgKeysAgree` | unless somebody joins twice, no two pages derive different keys |
| `WebDkgOpenSocketKept` | while a page's socket is open the coordinator keeps its login and, unless somebody joins twice, its place in a session |
| `WebSignatureSigned` | a signature, published or on a page, is over a package everybody signed |
| `WebNoncesSignOnce` | unless somebody joins twice, a page's nonces sign one package |
| `WebSignatureStays` | unless somebody joins twice, a published signature is not replaced |

and for every curve with the group laws, every set of apps, accounts and messages:

| Theorem | States |
|---|---|
| `OnchainTypeCorrect` | `TypeOK` of the use of the contracts |
| `OnchainVerifiersAgree` | the contract and the verifiers off the chain agree |
| `SilentOwnersAppAccepts` | an app with a usable key, whose owner and admin are silent, accepts what is signed for it, unless z or the challenge is zero |

They assume the named assumptions on the constants, which TLC evaluates in the runs:
in `SessionNet` and `SignClient`; in `WebNet` and `WebDkgClient`; and in
`Secp256k1`, `AppManager` and `OnchainVerify`. That the group laws hold is checked
by evaluation on the small curve and assumed of secp256k1.

**The Rust DKG** (`DkgProofs`). The coordinator never sees what a client dealt or
derived. It sees messages, sent earlier, perhaps by a process that has died since.
None of the properties is inductive alone. `IInv` says that every message under way
and everything the coordinator keeps was true when it was sent (`MessagesTrue`,
`InboxesDealt`, `AgreedKeyDerived`, `SecretsDealt`). It stays true because `dealt` and
`derived` only grow and a completed session stays as it is (`Stable`). With that,
the last FinalizeSubmit finds that all the participants counted derived the
agreed key, and that they are all there is, by cardinalities. `ShareEndsClient` says
that a client that wrote its share is never started again, so a share is written
once.

**Rust signing** (`SignProofs`). For nonces, `NoncesUnused` says that generations are
drawn in order and that the nonces a signer holds have not signed: drawing gives a
higher generation, signing gives the nonces up, and everything else leaves them alone
or ends the process. It holds whatever messages the coordinator sends. For
signatures, `MessagesTrue` and `SharesTrue` say that the sender of a share has signed
the package the share is of, and `SignedFull` that whatever is signed is a package
of all participants. Aggregation alone does not show that: it looks at the
signers of the package the coordinator holds, and new commitments may have come in
since a share was sent. That the last share equals that package makes the package
one that was signed, hence one of all participants, hence all the shares equal it
(`AggregatedSigned`). `StoredEnds` makes a signer store its signature once.

Both rest on `SessionProofs`: a queue is described by the set its messages come
from, which reading, sending, ending and crashing preserve.

**Each step once** (the last parts of `DkgProofs` and `SignProofs`). While nobody is
started a second time (`NobodyRestarted`), whoever crashes, nothing repeats. `OnceInv`
says so for each step of a participant - entering, the submission of each round -
with the messages it takes: of the messages that ask for it and those that answer
at most one is under way, over all the participant's sockets (`Once`, `Single` of
`QueueProofs`), none before it and none after it; and no message of a round is
under way before everybody's part of the round before was taken. The two facts need
each other: only because a message is read once can the coordinator's count be
complete once, and only because it is complete once is the next round announced
once. From this follows that all that is kept and sent is of everybody's first
polynomials or nonces (`ServerFirst`, `ToldFirst`, `MemoryFirst`, `SignersFirst`), so
a message finds its client with the secrets it needs, and what a client writes
belongs together. In a signing session an `Error` also ends a signer; that there is
none needs `SocketsInv` (what is sent after `Login` comes from a socket that is logged
in, and nothing follows a `Close`) and `SessionOnce` (nobody asks to join before the
announcement, or submits after the signature). A message of 32 bytes is excluded
because its announcement is refused (finding 3), an expired session because the
signers are told with an `Error`.

**The web DKG** (`WebDkgProofs`). `TypeInv` adds to `TypeOK` that a
socket that was not opened holds nothing, that only opened sockets are joined, and
that a page without a session (`PageWithoutSession`) is in none of the rounds.
`SubmitsDerived` says that a FinalizeSubmit under way, to whichever session it is
sent, names a key its sender derived; `CountedDerived` that whoever is counted as
finalized in a session derived its expected key; `CompletedAsExpected` that the
published key is that key. The expected key is the first one submitted, for the
session's whole life: this is why repeating the rounds cannot publish another.
For complete rounds and equal keys `RoundsInv` adds, for participants who join once,
the same "each once, everybody before anybody's next" for the joins, the two submissions
and the two announcements, counting also the messages whose handlers sleep
(`ReadyOnce`). The coordinator compares the number of round-2 packages with
N·(N − 1); `CountTells` shows that this number is enough when no sender is in a list
twice or in its own: the packages are then as many as the ordered pairs of
participants, and so are these pairs. For what the coordinator keeps of an open
socket, `OpenSpeaks` says that a `Close` is never among what is unread on one: a
disconnect that is handled is of another socket. `JoinOnce` says that while a join
is unread its participant has no place yet, so no place is taken over.

**Web signing** (`WebSignProofs`). As in Rust, with `PackagesFull` in place of
`SignedFull`; shares of an earlier attempt are still kept (`server.ts:967`), and
the aggregation refuses them. For nonces the page's own state is not enough, as it keeps
them after signing: `NoncesInv` shows that a participant who joins once draws once
(`JoinOnce`, `JoinsFirst`, `DrawOnce`), so that every package sent is the same one, of
everybody's first nonces; and what is aggregated, first or again, is that package
(`OnePackage`).

**On-chain** (`OnchainProofs`). From the group laws alone: what `ecrecover` returns
for the numbers ZecFrost gives it is z·G − c·P, so that comparing its address with
that of R is the Schnorr equation. `Kept`, `SignedTrue` and `AnswerTrue` carry that
from the reading of the key to the answer: as long as the owner and the admin are
silent the app is as it was read.

**Only model-checked.** Liveness (`AllFinish`, `JoinedClientEnds`, `AllSign`,
`JoinedSignerEnds`, `AllFinalized`, `AbortReleases`, `AllSigned`, `AbortNoticed`), which
is out of the prover's reach. Every invariant, action property and refinement a run
shows to hold is also proved.

## Findings

1. `share_mismatch`. README.md:346 says "Finalize: Each participant derives their
   key share". After one restart a participant can write a share of one key into
   a file that names another, or store a commitment the share was not dealt under:
   the client replaces `final_kp` (`dkg:536`) and the cached packages (`dkg:421`)
   when a round repeats, before the coordinator has accepted a key, and
   `Finalized` writes what it holds beside the coordinator's key (`dkg:560`).
2. `stale_disconnect`. The comment at `fserver:314` says `conns` holds the
   "active connections by principal". The end of an old socket removes whatever
   connection its principal has registered since (`fserver:603`).
3. `sign_32_bytes`. `signing:219` documents the message as "ASCII or 0xHEX". A
   message of exactly 32 bytes is taken for a hash and sent unhashed
   (`signing:844`), and the coordinator, which requires the Keccak-256 of the
   message (`fserver:1367`), refuses the session.
4. `web_dkg_aborted`. The comment at `server.ts:168` says "Session already started -
   must abort since protocol cannot recover". A Round1Submit under way at the abort
   completes the round and puts the failed session into round 2 (`server.ts:1030`).

Two differences between text and code have no run, because nothing the models do
depends on them. The comment at `ZecFrost.sol:155` says that the verifier reduces the
public key's x modulo n and that x ≡ 0 is the only unusable case; the code passes x
as it is, so a key with n ≤ x < p, which `isValidPublicKey` accepts, verifies
nothing (`Usable` in `OnchainVerify` excludes such keys). And
`scripts/verify-signature.ts` calls `verify` with its arguments in another order
than the contract's and takes the returned address for a boolean.

## Not modelled

- **Challenges and tokens of the Rust coordinator.** The handshake is one step with
  the login; `active_tokens` is written and never read. A second login on one socket,
  which no client of the repository makes, is left out there (it is modelled for
  the TypeScript coordinator).
- **The signer's rounds over files** (`signing:391-742`). Each is one command
  without state but the files a user moves. Which nonces are used for what is the
  user's choice alone, and what is combined is checked by the aggregation that the
  sessions use too.
- **Ill-formed announcements and submissions.** The clients build participants and
  keys from one roster and one package per participant; what an ill-formed one
  starts is a session that the timer removes.
- **Encodings, signatures on messages and ECIES** (`helper`, `wasm`): functions of
  libraries, assumed where a message is accepted.
- **Presentation**: forms, dialogs, downloads and the log of the pages; events of the
  contracts; list requests, where they only read; build files, scripts that make
  one call, and generated code.

## Plan

Done: the sessions of both coordinators with their clients, the contracts with their
verifiers, and the proofs above.

1. **Proofs.** That what a page shows as the signature is the one its session has
   published, while nobody joins twice.
2. **Announcements.** Which are accepted, and whether each accepted one can complete
   (`fserver:628`, `796`).
3. **Signing over files**, with copies of files of different runs.
4. **Several principals on one socket** of the Rust coordinator (`fserver:745`).
