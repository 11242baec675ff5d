# x402 Health Oracle: formal models, model checking and proofs

The oracle measures how fast twelve chains answer, writes what it measures to a
feed, and sells the answer to one question: is it safe to send a transaction
now. Around that core stand a WebSocket distributor with API keys, a bot
filter that interrogates, scores and bans its callers, and a protected
dashboard. This directory holds TLA+ models of the parts whose correctness
depends on order, timing, failure, concurrency or on arithmetic at a boundary,
the TLC configurations that check them, and TLAPS proofs of the results that
matter most. Paths are relative to `src/` unless they say
otherwise; line numbers refer to the commit next to this directory.

    tlc -config MCFeed.cfg MCFeed          # any run of the table below
    tlapm BanStore_proofs.tla              # any *_proofs module

`PROJECT.json` lists the runs, one mutant of the code per property (the
`X_Something` definitions next to `X` in the modules), the source lines of
every definition, the findings, the hazards and the theorems.

## 1. Inventory

### The system

| part | file | state it keeps | who touches it |
|---|---|---|---|
| probe threads | `probe/multi_chain_probe.py` ChainProbe | three latency deques per chain | one thread per chain, hands records to the distributor |
| revert ratio thread | same, RevertRatioThread | last ratio of Base and Arbitrum | one thread |
| other threads | same, EthSignal, Correlation, VolumeDelta | price and volume windows | one thread each |
| distributor | `probe/wss_distributor.py` | clients, `_delay_buf`, `/feed` buckets, `feed.jsonl` | coroutines of one loop: a `broadcast()` per record, the pusher, a handler per connection |
| access gate | `gateway/access_gate.py` | keys, failures, blocks; `authorized_keys.json` | the distributor's handlers and a reload thread |
| x402 gateway | `gateway/x402_gateway.py` | price multiplier, demo quota | request handlers, surge-pricing daemon; a process of its own that reads `feed.jsonl` and rewrites `authorized_keys.json` |
| RPC gateway | `gateway/rpc_gateway.py` | health cache 5 s, ban cache 10 s | a process of its own, asks the Silicon DNA server |
| Silicon DNA server | `gateway/server.ts` | caches with a ttl: bans, sessions, challenges, verified proofs of work, packet counters | one event loop; handlers interleave at every `await` |
| persistence | `gateway/src/db/persist.ts` | `data/bans.json`, profiles, an event log | synchronous writes of the server |
| dashboard page | `gateway/src/App.tsx` | session key, `packetIndex` | one page per browser tab, several calls at once |
| interrogation | `gateway/server.ts` 195-241, 500-683 | pending challenges, verified proofs, Argon2 profiles | `/api/challenge`, `/api/verify-pow`; the latter awaits in the middle |
| access tokens | `services/privacyPass.ts` | the issuer's key, the spent map | `/api/pat/*`, and the handlers that accept a token for a proof of work |
| proofs of layers | `services/zkProof.ts` | issued proofs | `/api/health-proof`, `/api/zk/*` |
| sniper filter | `sniper.ts`, `services/driftModel.ts` | request log, variance cutoff, P2 markers | every request to the enclave and the wallet |
| Sybil clusters | `services/sybilCluster.ts`, `welford.ts` | records per salted hash, cohorts, flags | the sniper filter, localhost endpoints |
| micro-stalls | `gateway/server.ts` 291-367 | delays and reaction gaps per address | the same requests, before and after |
| shadow filter | `middleware/shadowFilter.ts` | records per address | every request, and its classification later |
| agent scoring | `services/agentClassifier.ts`, `trustEngine.ts`, `trustSignals.ts`, `agentIdentity.ts`, `rhythmManager.ts`, `walletBinder.ts` | rhythm sessions, wallets, the metrics of the moment | `/api/classify`, `/api/trust-assessment`, `/api/agent/verify` |
| eBPF | `ebpf/*` | kernel maps | loaders that poll the server's ban list |
| contract, signer, clients | `contracts/`, `phoenix_integrity.py`, `mcp-server/`, `mech-tool/` | none that another part reads | - |

A measurement travels: probe thread -> `broadcast()` -> `feed.jsonl` and the
WebSocket clients; `feed.jsonl` -> the x402 handlers and the price daemon -> the
agent. A caller travels: shadow filter -> `sniperFilter` -> `microStallMiddleware` ->
the proof of work gate (or a token) -> the asset, and all but the first may ban
him; a trust assessment may too. The two halves meet
in `authorized_keys.json` (written by the distributor's gate and by x402) and in
the ban list (read by the RPC gateway and the XDP loader).

### What is hard in it, and what makes it correct

- **Probe.** Penalties for unanswered polls enter the windows from which the
  threshold for the next poll is computed. Correct: a fresh outage is flagged at
  once, a steady level never is, no flag outlives its cause.
- **Feed and verdicts.** The gateway knows a chain only through the last 256 KB
  of a file; threads die, ratios are missing, five handlers repeat the same
  thresholds in different orders. Correct: no green light without a recent
  measurement, handlers do not contradict each other, worse readings never get
  better answers, the price follows the feed both ways.
- **Ban list.** Three copies (cache, memory, file), crashes in the middle of a
  write, a cache smaller than the list, restarts that renew deadlines. Correct:
  who offended is refused for the ttl, nobody is refused for ever, a pardon is
  final.
- **Enclave session.** Requests are slow, reordered, delivered again; handshakes
  await and overlap; keys ratchet; counters expire. Correct: no seal opens the
  enclave twice, no page that follows the protocol is banned.
- **Access gate.** Two processes rewrite one file without a lock, the database
  goes away, the process restarts. Correct: the keys last heard of are admitted,
  the gate recovers from any damage, blocks are deserved.
- **Distributor.** Three kinds of coroutines serve the same client at once and
  share `last_sent`. Correct: no public client before the delay or with a gap, no
  registered paying client without a message.
- **Interrogation, tokens, proofs of layers.** Handlers consume a challenge and
  then wait for Argon2id; challenges expire, are replaced, and outlive a restart in
  the page; tokens are forgotten by a full map or a restart; session keys ratchet
  under the proofs. Correct: what is issued once is redeemed once, and who solves
  one challenge at a time is not banned for it.
- **Sniper filter, Sybil clusters.** The cutoff is learnt from the callers it
  judges; records join, leave and are swept while flags reach cohorts through
  lists. Correct: the estimator never divides by zero, a crowd cannot teach the
  filter to block a browser, whoever was caught stays out, and so does its cohort.
- **Micro-stalls, shadow filter.** A delay is recorded when a response ends, a gap
  when the next request comes; verdicts arrive after their window was renewed.
  Correct: gaps meet the delays they answer, nobody is throttled for another
  window's requests.
- **Agent scoring.** Two judges weigh the same evidence; a denial bans. Correct: they
  agree on the worst, a single weak signal does not ban, a credential never hurts.
- **Gates before paid and proxied calls.** Lookups overlap, time out and are
  cached. Correct: a ban or a pardon reaches the gates within the cache's ttl, no
  transaction goes through on a health that was true once.

The full list, with a line for each hazard and the properties that cover it, is
`hazards` in `PROJECT.json`.

## 2. Modules

| module | extends | models |
|---|---|---|
| `Percentile` | - | `_pct`, the penalty filter, `deque(maxlen)` |
| `ChainProbe` | Percentile | one ChainProbe thread |
| `Verdict` | - | the decisions of the x402 handlers as operators |
| `ProbeVerdict` | ChainProbe, Verdict | the probe composed with `/v1/safe` |
| `Feed` | Verdict | publishing, the tail of the feed, the price daemon |
| `VerdictTable` | Verdict | the handlers side by side on one reading |
| `BanStore` | - | `bannedIPs` and `data/bans.json` |
| `EnclaveSession` | - | pages, wire, `/api/enclave`, `/api/wallet` |
| `AccessGate` | - | the gate, its mirror file, the x402 writer |
| `Distributor` | - | `broadcast()`, pusher, replay, registration |
| `OneTimeTicket` | - | abstract: issued once, redeemed at most once while open |
| `Interrogation` | - | challenges, governor, `/api/verify-pow`, adaptive cost; implements `OneTimeTicket` |
| `AccessTokens` | - | the Privacy Pass desk |
| `ZkProofs` | - | proofs of passed layers; implements `OneTimeTicket` |
| `SybilWatch` | - | `sniperFilter` and the cohorts it feeds |
| `DriftModel` | - | the P2 estimator and the clamped threshold |
| `SniperScore` | - | `scoreBotRequest` as operators |
| `SniperCalibration` | DriftModel, SniperScore | the filter learning its cutoff from what it passes |
| `MicroStall` | - | stalls and the pairs they are judged by |
| `ShadowFilter` | - | deferred classification and throttling |
| `AgentClassifier`, `AgentCredentials` | - | `classifyAgent`; presented credentials, TLS risk |
| `TrustPolicy` | AgentClassifier | the adapters and the fused decision |
| `TrustDesk` | TrustPolicy, AgentCredentials | the state the judges read: rhythm, wallets, proofs of work, metrics |
| `RpcGateway` | - | `/rpc/{chain}` and the x402 gate, asking the server |
| `MC*` | one or more of the above | the instances TLC checks |

The theorems are in modules of their own:

| module | proves about |
|---|---|
| `Answers_proofs` | `Percentile`, `ChainProbe`, `Feed`, `VerdictTable`, `TrustDesk`: whoever asks is told the truth |
| `SniperFilter_proofs` | `DriftModel`, `SniperCalibration`, `SybilWatch` |
| `Services_proofs` | `AccessTokens`, `ZkProofs`, `MicroStall`, `ShadowFilter`, `RpcGateway` |
| `BanStore_proofs`, `EnclaveSession_proofs`, `AccessGate_proofs`, `Distributor_proofs`, `Interrogation_proofs` | the module each is named after |

### Percentile, ChainProbe, ProbeVerdict

`rtts`, `rtts_1m`, `rtts_5m` are the three deques; `metric` is the record last
published; `turn` stands for its timestamp, so that two equal polls are two
steps. `Poll(samples)` is one turn of `_loop`: `samples` are the latencies of the
endpoints that answered, none of them when the chain is dark. Latencies are
integers; percentiles are exact hundredths of a millisecond, which is what linear
interpolation with an integer percentage yields. A percentile is taken over places of
the window: its order statistic is the least value with enough places at or below it,
which is what sorting and indexing find. Spread, forecast and the copy in
nanoseconds are left out, no decision reads them. `ProbeVerdict` hands the record
to `Safe` as fresh as it can be; how old it may get is `Feed`'s subject.

### Verdict, VerdictTable, Feed

Every handler is one operator: `SafeReason` (get_safe), `DemoSafe`, `Preflight`,
`ChainAdvice` (get_chain), `Recommendation` (get_health), `Surge`. `None` is both
a missing record and a missing ratio, and a comparison with it yields the
TypeError it raises in Python. `Feed` keeps the newest records (`tail`), the
running threads (`probing`), the ratios the revert thread remembers (`ratios`) and
the price. `measured`, the time since a chain was last measured, is no code state:
it is the truth that answers are held against. The EMA and block sampling are
abstracted to the ratio they produce; 256 KB is abstracted to `TailLen` records.

### BanStore

`lru`/`lruLeft` is the cache `bannedIPs` (stale keys count towards its size, as in
lru-cache), `memLeft` the `_bans` map, `fileLeft`/`file` the file, which is current, stale or
torn; deadlines are the time left. `Ban` is `bannedIPs.set` plus `persistBan`, which
rewrites the file. A save opens, truncates and writes: one that fails (`BanSaveFails`,
`ResetFails`) or is cut short (`BanCrash`, `SaveCrash`) leaves the old file or a torn one.
`Restart` drops what expired, rewrites the file and warms the cache with a full hour.
`since` and `lost` are no code state: the time since the last offence, and how an
entry went missing. Among entries set within one clock step the cache may drop
any.

### EnclaveSession

Pages (`pageKey`, `idx`, `jobs`) follow `App.tsx`: `PageLoad` starts a page over, while
`ModeChange`, the effect run again for a new mode, makes a new handshake and keeps the
packet number and the calls under way. `seal`, `age`, `place` are the
requests under way; `key`, `counter`, `keyLeft`, `lastSeq`, `seqLeft` are the
server's two caches under the name `'default'`, which every page shares. A request
passes `Arrive` (ban filter and stall) and then exactly one of `Wallet`,
`NoSession`, `Replay`, `Refuse`, `Accept`, in the order of the handler's early
returns. The server arming itself and addresses passing the proof of work are
choices, since they depend on timing statistics. Bans do not expire here; that is
`BanStore`'s subject. `Resend` is the network or a client delivering a request
again.

### AccessGate

`pc` follows the reload thread through `_load_keys` and `_save_json`: the keys are
replaced under the lock, the mirror is emptied by `open(path, 'w')` and written on
close, and the process may die between them. `xpc` follows `_save_agent_fingerprint`
of the x402 process over the same file. `Contents` is what a writer at offset 0
leaves when the other process wrote meanwhile: its own document, or that document
with the rest of a longer one behind it, which no longer parses. Keys and agents
are both names in that file. `synced`, `saved`, `strikes` and `damaged` are no code
state. `get_tier` and the session list are left out; so is any key x402 leaves
behind that is not an agent.

### Distributor

A message is its timestamp, at most one per instant. Each `send` is two steps,
writing (`FanSend`, `PushSend`, `ReplaySend`) and returning (`FanReturns`, ...): in between
other coroutines run, the connection closes or the second's timeout strikes, in
which case the message may have been written all the same. `fan[m]` is the
`broadcast()` of message m: clients still to visit, the one awaited, the dead to
remove at the end. `push` is the pusher with the list and cutoff it fixed when it
woke and the messages it fixed when it came to the client; `replay[c]` is the
replay of a new public client. A public client registers in two steps: `Register` enters it
in the table, and `Greeted`, when AUTH_OK was sent, takes the snapshot it is replayed;
broadcasts and the pusher run in between. Clients are visited in any order. The tier
`searcher` stands for every tier served in real time; `Access` says which tiers a
connection's key yields. `got` and `missed` are no code state.

### Interrogation, OneTimeTicket

A target is its number in the order of drawing. `pending`/`pendLeft` is
`pendingChallenges`, one per address; `solving` are the pages at work, which keep the
target they were given; `jobs` are the verify handlers that consumed a challenge and
await Argon2id. `VerifyPow` is the handler up to that await with every early
return that bans, `Finish` the rest: judgement, ban or `verifiedPoW`, the adaptive cost
and its saved profile. A memory cost is an exact fraction, since a division by 1.5
need not leave a whole number; Argon2 throws on one that is not. `Live` is the default
of `liveRules.argon2.memory`: the rules an operator or the agent at `AGENT_URL` may put
in its place are not modelled, and the clamps are claimed for that default. `PagePosts` is a
page that follows the protocol, `OtherPosts` anything else, with the memory cost its
body names (`Bodies`, `Manners`), and makes its address `suspect`, as do overlapping solves; `solved` and `suspect` are no code state.
`Tickets == INSTANCE OneTimeTicket` maps a target to fresh, open (pending or in a
handler), redeemed (it earned a verified proof) or dropped.

### AccessTokens, ZkProofs

A token is its nonce; the OPRF is ideal: an output holds under the key it was
evaluated with. `spent` is the map: every entry carries its time left and, for the order
of insertion, how many were marked after it; it is pruned at most once a minute and
bounded by dropping its oldest entry. `keyFromEnv` tells whether the
issuer's key survives a restart; the map never does. `uses` is no code state. A proof
of layers is a number with the key it was made under; session keys change by
handshake, ratchet and expiry, and `Secret` is the fallback to the server's key. The
registry maps to `OneTimeTicket` too.

### DriftModel, SniperScore, SniperCalibration

`first` is the sorted buffer of the first five samples, `m` the five markers: heights
`q` and positions `n`. Positions and desired positions are exact. A marker moved by the
parabolic or linear formula may take any height from one neighbour to the other,
which is what the code's test between them leaves. `SniperScore` scores nine whole
intervals exactly by multiplying every comparison out. `SniperCalibration` composes the
two: what passes is sampled, and the threshold, rounded to hundredths, becomes the cutoff
once it differs enough (a difference of exactly 0.1 either way, as binary fractions have
it); an operator's override is `Calibrate`.

### SybilWatch

A record is kept per hash: address and day, because the salt changes at midnight.
Of a Welford profile only the number of samples matters: `toDistribution` is centred on
the profile's own mean and scaled by its own deviation. `members` keeps for every cohort
the place of each hash in the order of insertion (0 for a hash that is not listed; the
rest closes up when one leaves), because `_assignCohort` compares with its first
stable member. `Request` is the whole of `sniperFilter`; `gone` are the records a sweep
finds old. `culprits`, who was caught or denounced, and `felled`, who was in the cohort of
one of them at that moment, are no code state; `felled` is read off the records (`Fellows`),
not off the lists `flag()` walks.

### MicroStall, ShadowFilter

One address each. A delay is the number of the request held up, a gap the number of
the request it answers, so that the pairs can be compared; what the rank
correlation makes of them is a choice. In `ShadowFilter` a classification keeps the record
object it was started with (`waiting[r]`), whatever the map holds by then.

### AgentClassifier, TrustPolicy, AgentCredentials, TrustDesk

Inputs are the bands the code's comparisons tell apart, scores exact fractions over
a common scale; the fused mean is held as its two totals, of weights and of weighted
scores. `TrustDesk` keeps what the judges read: the server's metrics of the
moment and the last TLS risk, which all callers share, the caller's rhythm session,
proof of work, session key, wallets and free calls. `Assess` bans on DENY, as
`/api/trust-assessment` does. A request without a credential is a 400 and no decision
(`server.ts:1458`); the least a caller presents is an `Unverified` one.

### RpcGateway

One caller, several requests of it under way. A lookup is three steps: asked, answered
by the server (`ServerAnswers` takes the snapshot), arrived (`BanKnown`, `HealthKnown`) or given
up (`BanUnknown`, `HealthUnknown`); answers may overtake each other. httpx has a timeout for
every phase: `waited`, the time since a lookup began, has no bound before the server answers,
and `age`, the time since, at most one timeout. `Entry` dates a cache entry by the beginning of
its lookup, so one that took the ttl is stored as good for nothing (`Kept`). Ban lookups fail open and health lookups closed.
`settled`, the time since the ban list last changed for this caller, is no code state.

## 3. Runs

| run | module | distinct states | what it shows |
|---|---|---|---|
| `probe` | MCProbe | 35,156 | every sequence of polls: fresh outages are flagged, steady levels are not; an outage ends unsafe, a recovery ends safe |
| `feed` | MCFeed | 106,164 | no green light on a measurement older than 30 s while a record is in the tail, and never from preflight; the price the feed keeps asking for is charged in the end |
| `decisions` | MCDecisions | 35,680 | the handlers agree, are monotone, and one bad chain is never averaged away; a confident bot is never allowed, a single weak signal never bans, a credential never hurts |
| `bans` | MCBanStore | 282,248 | offenders are held, detention is bounded, every ban ends |
| `enclave` | MCEnclave | 2,407,393 | no seal is accepted twice, no two fresh seals under one number |
| `enclave_honest` | MCEnclave | violation | an address is banned although nothing was delivered twice |
| `gate` | MCAccessGate | 68,052 | admitted keys are the last synced, blocks are deserved, every outage heals |
| `distributor` | MCDistributor | 2,320,472 | public clients get everything, late; paying clients get everything they stay for |
| `interrogation` | MCInterrogation | 874,202 | a challenge is a one-time ticket across awaits, replacement, expiry and restarts; who solves one at a time is not banned; the cost stays within its clamps |
| `watch` | MCSybilWatch | 305,970 | cohorts and lists agree, whoever was caught today stays out, and so does the cohort it was caught in |
| `watch_bans` | MCSybilWatch | violation | an address is banned for its headers and its cohort is not flagged |
| `services` | MCServices | 498,303 | tokens and proofs are redeemed once, markers stay in order, browsers pass, gaps meet their delays, throttling counts a caller's own hits, bans and health reach the gates |

`MCServices` runs one of six services per behaviour, and `MCDecisions` one of two desks, so
that their states add up instead of multiplying; they share no state.

### Bounds, and why they are enough

- **probe**: windows 4/2/6 keep the code's order 60/30/150 and are long enough for
  a window to hold an answered and an unanswered poll, to forget the answered one
  in the short window and still hold it in the long one, which is where every
  property bites. Latencies 100, 300, 600, 5200 ms lie on both sides of the 200 and 500 ms
  thresholds of verdict, floor and creep and beyond the penalty of 5000 ms.
- **feed**: two chains, so that one can push the other out; a tail of two records,
  so that a chain's record and a report fit or do not; steps of 40 s make ages 0,
  40 and 80, on both sides of 30 and 60 s; ages saturate at 101, past every threshold.
- **decisions**: for the handlers, every threshold with the value on each side of it, for
  a chain with each kind of ratio (Base, Arbitrum, none) and for the L1. For trust, four
  moments of the server's metrics that reach every band, headers clean, one step off, two
  off and a puppet; two wallets and two hashes, rhythm in tenths. Every request is presented
  in every state by the properties themselves.
- **bans**: three IPs and a cache of two (eviction), a ttl of three steps (bans of
  different ages overlap with restarts). `since` saturates at two ttls.
- **enclave**: one page that loads twice (two handshakes, an old page's requests
  still under way), two requests, a clock that is right or one unit ahead,
  a window and skew of one, a counter ttl of three, which is the least that
  satisfies `EnclaveAssumption`; a ratchet with the second packet. Requests are
  interchangeable (symmetry). The proofs cover every number of pages, requests and ttls.
- **gate**: one key issued and revoked, one agent, one address, two failures per
  block. The two processes and the database are what interleaves; a second key
  would only repeat the first.
- **distributor**: one public client and one paying, three metrics, a buffer of two
  (it overflows), a delay of one, a demo interval of two. Three broadcasts, pusher and
  replay overlap. The clock stops at `Horizon`, one step after the last metric is due to
  the public; that end is why deadlock is not checked there.

- **interrogation**: two addresses, three challenges, a governor of two and a ttl of
  one: a challenge is replaced while another is in a handler, two handlers of one
  address overlap, and the governor refuses. Addresses are interchangeable.
- **watch**: two addresses on two days are four hashes for a map of three records, so
  that the sweep runs; profiles are stable with one sample and full with two, one
  short of each other, as 5 and 10 are; three cohorts between two resets.
- **services**: three tokens, batches of two, a spent map of two, two processes
  (drop, prune and restart each decide one token's fate); two proofs under the keys of
  two sessions and the server; nine samples for the markers, four past the buffer,
  over four rhythms (a clock, a clock with a hitch, a human, two speeds) on both
  sides of the cutoffs; windows of two pairs over six requests; a throttle of two over
  three records; two requests at the gates with ttls of two steps and timeouts of one,
  the order the code's 10, 5, 3 and 0.5 s have.

### Fairness, and why the code justifies it

- `ProbeSpec`: weak fairness of a poll, because `_loop` runs until the process ends.
  Every poll flips `turn`, and fairness is of the disjunction over all answers, so
  it never forces a chain to answer again.
- `FeedSpec`: weak fairness of `PriceDaemon` only. It catches every exception and
  turns every 10 s. Nothing makes a probe publish.
- `BanStore`: weak fairness of time only. Restarts, bans and resets may never come.
- `EnclaveSession`: none; only safety is claimed.
- `AccessGate`: weak fairness of `LoadKeys`, the reload thread: it catches every
  exception, waits 60 s and turns again. `OutageHeals` says what follows when Supabase
  answers from some point on and the process is up.
- Interrogation, SybilWatch, the services, TrustDesk and RpcGateway: none; only safety
  is claimed, and nothing makes a caller come back.
- `Distributor`: weak fairness of time and of the pusher, whose sends end within the second
  `wait_for` allows them. No fairness for peers, broadcasts or replays.

## 4. Proofs

All eight proof modules are checked by TLAPS to the last leaf (SMT, Zenon and LS4
backends; 6,756 obligations). Every theorem holds for all values of the constants
that satisfy the assumption its module names. Every inductive invariant below was
checked by TLC on the instance of its component before it was proved.

With these, every safety invariant and every action property the passing runs check is
also a theorem.

### Answers: `Answers_proofs`

**Probe.** `FreshOutagesAreFlagged`, `SteadyLevelsAreUnflagged`, for windows of any
length, any latencies and any penalty. `ProbeInv` ties the windows together: the last
minute is the end of the last five, and the record that is out was computed from the
newest poll and these windows. What remains is arithmetic of percentiles: `OrderStatIs`
places the k-th smallest, `PctIs` bounds an interpolation by bounds on all the
values it is taken over, and the penalty filter leaves answered polls while there are
any. A percentile of answers below half the penalty stays below it, so the penalty is a
spike; a level window has the percentile of its level, so nothing is twice it.

**Feed.** `GreenIsFresh`, for any chains, tail, clock step and ratios. `FeedInv`: no record
of a chain is younger than its last measurement, so whatever record a handler
finds, its age test refuses what was not measured within 30 s.

**Verdicts.** `SafeAnswersAgree`, `WorseReadingsNeverHelp`, `OneBadChainSpoils`, for every
latency, age, ratio and chain, where the run takes one value on each side of every
threshold. `TableInv` is only the type of what is read; the argument is by the order of
each chain's three thresholds (`ThresholdsIs`) and the order in which every handler tries
them.

**Trust desk.** `ConfidentBotsNotAllowed`, `OneWeakSignalDeniesNobody`, `CredentialsNeverHurt`,
for any moments of the metrics, headers, wallets and rhythm levels. `TrustInv` adds to the
types that only finitely many wallets share a hash. The fused score is an inequality
between two totals of weighted scores: if at most one signal is weak, the other three and
the floor of the weakest carry the total past the band of DENY; a confident bot's own
score and weight hold it below the band of ALLOW.

### Sniper filter and cohorts: `SniperFilter_proofs`

`MarkersStayInOrder`, for any samples, quantile p = Num/Den and warm-up: the
positions of the five markers stay apart, so no formula divides by zero, and their
heights stay sorted. The inductive invariant `DriftInv` adds the sorted buffer of the first
samples and the two outer positions.

`LooseBrowsersPass`, for any rhythms of nine intervals: `CalibInv` adds that the cutoff
is at most the ceiling until an operator sets it, which rounding keeps because the ceiling
is whole hundredths (`HundredthsBelow`). At that bound a rhythm of four
times the ceiling scores too little for the block threshold when all headers are there.

`CohortsAreListed`, `CaughtAddressStaysOut`, `CohortsStayOut`, for any addresses,
days, map size and number of cohorts. `WatchInv` says of the cluster (`ClusterOK`): who has
a cohort is on its list, flags and cohorts are of known hashes, lists are orders without ties.
Each operation on lists has its lemma (`WithLists`, `WithoutLists`), each operation of the
cluster one on what it keeps. A sweep takes records of earlier days only, which is why it
cannot free who was caught today; and `flag()` reaches the cohort through its list, which
is why the list has to be complete for all of it to stay out.

### Services: `Services_proofs`

**Access tokens.** `SpentMapTyped`, `TokensRedeemedOnce`, for any tokens, ttl, size of the map
and processes. `TokensInv` holds the spent map to be in order (who was inserted earlier
lapses no later) and `Remembered`: a token redeemed by this process, less than the ttl
and fewer than MaxSpent other redemptions ago, has an entry whose place and time left are
exactly these two numbers. So the entry a full map drops is one that MaxSpent others
followed, and a prune takes what is past the ttl.

**Layer proofs.** `ProofsInvariant`, `ProofsAreTickets`, for any sessions, keys and lifetimes:
what is registered was drawn and not redeemed; expiry, clearing, ratchets and
restarts only drop.

**Micro-stalls.** `CalmCallersPaired`, for any window. `LastOnly`: of a calm caller only the last
request can be in flight or have a delay whose gap is still to come, so its delays are its
gaps, or its gaps and one more.

**Shadow filter.** `ThrottledByOwnRequests`: hits and verdicts still to come never
exceed a record's own requests, for any threshold and number of records.

**Gates.** `AnswersFresh`, `BansReachTheGates`, `WritesAreBacked`, for any number of requests,
ttls and timeouts. `GatewayInv` dates every answer: one on its way contradicts the ban list
only if the list changed since it was given, and is healthy only if the server was
operational then; an entry of either cache only if that was within the time the entry has
lost. Neither property is inductive without it: an answer that arrives late would be
stored as if it were new.

### State over crashes, processes and awaits

**BanStore_proofs**: `TypeCorrect`, `CopiesAgree`, `OffendersAreHeld`,
`DetentionIsBounded`, for any set of IPs, ttl and cache size >= 1. Neither safety
property is inductive: whether a restart refuses an offender depends on the file,
and what the file holds depends on memory at the last save. The inductive
invariant `IInv` = `TypeOK`, `FileCurrent` (a saved file equals memory), `Deadlines`
(time left plus time since is at most one ttl, in the cache two) and `Held` (while
nothing is lost every unexpired deadline is there in full).

**EnclaveSession_proofs**: `TypeCorrect`, `SealsAcceptedOnce`, `FreshNumbersDistinct`,
for any pages, addresses, requests and clock offsets, under the assumption
`Window + Skew < SeqTtl`: a seal is fresh for 35 s past and 30 s ahead of the clock, a
counter is kept 600 s. The strengthening is `SeqRemembered`: while an accepted seal
is fresh, the counter is at or above its number and has not expired; that is what a
handshake, a ratchet, an expiry or a late delivery could break.

**AccessGate_proofs**: `TypeCorrect`, `KeysAreCurrent`, `BlocksAreDeserved`, for any keys,
agents, addresses and `MAX_FAILS`. `FileCurrent` says, by where each process stands in
its write, which copies (the gate's keys, the document it is about to save, the
file, the document x402 is about to save) must agree with the last sync while the
file was never damaged; `CountsDeserved` bounds the failure count by the deserved ones.

**Distributor_proofs**: `TypeCorrect`, `PublicIsComplete`, `PublicIsDelayed`, `RealtimeIsComplete`,
for any connections, tiers, delays, buffer length and number of metrics. `Lists` ties the
clients and messages a coroutine still holds to the clients' table; `Complete` says
that every coroutine serving a public client has sent all that precedes its own
list, so each may set `last_sent` without opening a gap, whatever the other does;
`Late` bounds every list by the cutoff it was made with; `Reached` says that for every
message not yet delivered to a paying client some `broadcast()` still has the client
to visit or in its list of dead. The bound of the delay buffer in `TypeCorrect` needs no
strengthening, but that the oldest message of a full buffer exists (`FiniteMin`), is one,
and goes before the new one comes (`AppendedFits`).

**Interrogation_proofs**: `LoneSolversNotBanned`, `ChallengesAreTickets` and `CostsStayClamped`, for any
addresses, number of challenges, limit and ttl. `Held` says where a challenge can be: in
one address's pending entry or in one handler, never both, and nowhere once solved;
that is what a handler that consumed a challenge too late would break. `Honest` follows
a page: while its address is not suspect it is the only one at work, and what is
pending is its own target or nothing, so the answer a handler awaits is to the target
it holds. The refinement: a draw is Issue of the target and drops the one replaced,
a good finish is Redeem, every other loss is Drop. `Bounded` holds every memory cost, of a
profile, of the file and of a page at work, between 8192 and 131072 as an exact fraction,
through any sequence of doublings and divisions by 1.5.

### Assumptions on the constants

Most say only that bounds are natural numbers and that a sentinel is no value. Those that
say more, and why the code meets them:

| assumption | where the code has it |
|---|---|
| `ProbeAssumption`: windows 0 < Window1m <= Window <= Window5m; `CreepTenths` >= 10 | 30, 60, 150 (`multi_chain_probe.py:195-197`); creep ratios 1.5 and 2.0 (126, 131) |
| `FeedAssumption`: `MaxAge` > 60 + `TickSecs` | no code constant: the saturation of ages, past every threshold |
| `CalibrationAssumption`: `InitCutoff` <= `Ceil`, in their units; `Ceil` is whole hundredths | 2.0 (`server.ts:85`) against 5.0 (`server.ts:115`) |
| `DriftAssumption`: 0 < p < 1, `Floor` <= `Ceil`, `Warmup` >= 5 | 0.10, 1.0, 5.0 and 50 (`server.ts:114-115`) |
| `WatchAssumption`: finitely many addresses, `MinLog` > 1, `Stable` < `Full` | `server.ts:424-427`; 5 and 10 (`sybilCluster.ts:123`, `welford.ts:38-51`) |
| `GatewayAssumption`: a phase of a lookup times out before its cache's ttl; `Stale` < `Operational` | bans 0.5 s against 10, health 3 s against 5; 30 s against 60 (`rpc_gateway.py`, `server.ts:142-146`) |
| `EnclaveAssumption`: `Window` + `Skew` < `SeqTtl` | 35 s and 30 s against 600 |
| `TableAssumption`, `TrustAssumption` | types of the readings and of the metrics' bands only |

### Only model-checked

The six liveness properties (`OutageEndsUnsafe`, `RecoveryEndsSafe`, `PriceFollowsFeed`,
`BansEnd`, `OutageHeals`, `PublicServed`): liveness under fairness and ENABLED are beyond
the prover. They are checked on the instances of section 3.

## 5. Findings

Two runs show the code break what its own comments say; the quotations are in
`PROJECT.json`.

`enclave_honest`: pages number their requests themselves over a counter they share;
two quick clicks, a reload or a second page is a replay to the server, and costs an
hour (`server.ts:733`, against the comment at `server.ts:730`).

`watch_bans`: "When one cohort member is banned, the entire cohort is flagged"
(`sybilCluster.ts:4`). `flag()` has two callers, the rhythm ban (`server.ts:457`) and
`/api/sybil/flag`. A member banned for headers that contradict each other
(`server.ts:404-417`) leaves its cohort, and its own record, unflagged. `CohortStaysOut` is
what the code does keep.

## 6. Observations without a run

Noticed while modelling; each is a line of code against a line of documentation, or
a defect outside what is modelled.

Feed and pricing
- `_surge_price` compares a ratio that may be None (`x402_gateway.py:654`). While Base has
  no ratio but Arbitrum has (`multi_chain_probe.py:637`), the daemon's turn raises, is
  swallowed, and the price stays at its last level. `Feed` models this; `PriceFollowsFeed`
  claims nothing for it.
- `_surge_price` ignores the stall flag, though `x402_gateway.py:750` says the price rises
  tenfold during a stall; its thresholds (200 ms, 10 %, 30 %) are not those of
  `README.md:109` (500 ms, 25 %, 50 %).
- `demo_safe` reads the newest record (`x402_gateway.py:921`); `README.md:125` says 60 s delayed.
  It has no elevated tier, so it says safe where the paid answer does not.
- `get_chain` passes Arbitrum's ratio on under Base's key (line 638), which only Base
  is judged by.

- Once the last minute is all penalties, p95_1m is the penalty itself, the threshold
  doubles past it and the flag falls (`multi_chain_probe.py:260`); `/v1/safe` then rests on p99.
- A stale chain turns "ok" when its last record leaves the tail: without a record there
  is no timestamp to be stale (`x402_gateway.py:722`, against `mcp-server/README.md:26-27`).

Ban list and enclave
- `writeFileSync` truncates in place and an unreadable file is an empty list (`persist.ts:44`),
  so a torn write pardons everyone at the next start, though `server.ts:190` says bans survive.
- A save that fails leaves the bans of the moment out of the file, and a reset whose save
  fails (`persist.ts:55-58`, 63) is no pardon: the admin sees an error, the bans are gone
  from memory and back after the next start. `OffendersHeld` and `DetentionBounded` state both.
- A restart warms every ban with a full hour (`server.ts:192`), so detention is up to
  two; `DetentionBounded` states that bound.
- The page never mirrors the server's ratchet: after 50 packets its seals are invalid
  until it reloads. A second handshake takes the key of `'default'` from the first page.
  A successful wallet call advances `packetIndex` but not the server's counter, so the
  next seal is out of line.

Access gate
- Each sync overwrites the mirror with Supabase's keys (`access_gate.py:86`), whatever agents
  x402 saved there (`x402_gateway.py:464`); the gate seldom sees them.

Interrogation, tokens, proofs of layers
- A memory cost divided by 1.5 may not be whole; Argon2id throws, the handler answers 500
  and the challenge is consumed (`server.ts:603-632`).
- `/api/challenge` takes the live cost for an address whose profile is only on disk, though
  `server.ts:241` says it falls back to the profile.
- Two clients behind one address overwrite each other's challenge, and the first to post is
  banned; `LoneSolverNotBanned` claims one solve at a time only.
- A batch of tokens is free while the filter is not armed, and one proof of work buys any
  number of them, though `server.ts:122-124` says one proof of work is one batch.
- With `PRIVACY_PASS_KEY` set, the key survives a restart and the spent map does not: a token
  is accepted again. `TokenOnce` states this exception.
- The layer bit of the handshake tests `sessionKeys.has(clientIp)`, whose keys are session ids.
  A health proof is made with the server's key but verified under the session's, so a
  dashboard session makes it unredeemable.

Detection
- No other ban flags a cohort either (section 5): micro-stalls (`server.ts:326`), replayed seals
  (735), the interrogation's five (536, 557, 570, 584, 619) and a DENY (1434).
- `toDistribution` is blind to rhythm, so every profile of ten samples or more falls into one
  cohort, contrary to `server.ts:444-446`. A new cohort leaves its founder listed in the last
  one, and who joins a flagged cohort later is not flagged. Flags end at midnight and restart.
- With nine intervals the entropy is always below two bits: every first judgement scores at
  least 12, and a caller without headers (55) is blocked whatever its rhythm.
- `/api/admin/calibrate` accepts a cutoff outside [1, 5], which `server.ts:112-113` calls hard-clamped,
  and the next passed request overwrites it.
- `stallStart` is set after the stall was awaited (`server.ts:355`): the delays correlated are handler
  times. Overlapping requests or a pause of 30 s shift the pairs, and the verdict bans;
  `PairsAligned` is for callers that do neither.
- Good classifications never reset the shadow filter's hits, though its comment says
  consecutive; throttled requests renew the window, as refused ones renew the free quota.
- Handshakes in quick succession keep jitter batches in cooldown (`server.ts:847`): the filter does not
  arm and the health decays. A later, shorter cooldown overwrites a longer one.

Scoring
- Every caller is classified by the server's own jitter metrics and one global rho.
- A MALICIOUS_BOT of confidence 0.34 to 0.5 scores higher than a human of the same confidence
  (`trustSignals.ts:77`), and one combination of bands is allowed; `ConfidentBotNotAllowed` starts
  above 0.6, where the shadow filter counts.
- A rhythm session is restored to full trust by every sync pulse; a silence of 30 s wipes it;
  a check without timings leaves NaN, which reads as 0.
- The hash wallets are bound to is of server-wide metrics, so strangers who bind in one jitter
  batch share it; a wallet bound again stays on its old list.
- `tlsRisk` calls 0.5 unknown, but an unseen TLS risk counts as 0 (`server.ts:1472`), and the last one seen
  is another caller's. A credential's nonce is not remembered.

Gates
- The RPC gateway's health is how long ago the Silicon DNA server measured its own jitter; the
  chain in the path plays no part. Between 60 and 300 s the server says degraded, which the
  gateway treats as FAIL; its own DEGRADED is the time from 30 to 60 s.
- Any JSON answer without `banned`, an error included, is cached as not banned for ten seconds
  (`rpc_gateway.py:78`), and `_ban_cache` never shrinks.
- A caller may finish its request body long after the ban check; the check is not repeated.
- A body that is JSON but no object raises at `rpc_gateway.py:151`.

Distributor
- `_update_metrics` has buckets for six of the twelve chains (lines 185-201); the others raise a
  KeyError after the record was logged, and are never broadcast. `Broadcast` models the
  metrics that reach the stream.
- A VOLUME_DELTA before the first bucket exists raises (319-322), and one after it is
  counted twice.
- A client removed after one slow send stays connected and gets nothing more
  (447-449, 376). The model shows it: `PublicServed` and `RealtimeComplete` speak of registered
  clients.
- `demo` clients are tested before the await (436-438): overlapping broadcasts all
  pass the interval test while the first send is pending.
- Replay and pusher may send a public client the same message twice, or an older one
  after a newer one; a broadcast may overtake an earlier one.
- `/feed` compares the start of a one-minute bucket with the delay (239-243), so its samples may
  be up to 60 s younger than PUBLIC_DELAY_S.
- A revoked key keeps streaming until its connection closes.

## 7. Not modelled, and the plan

Modelled first were the path of the answer that is sold (probe, feed, verdicts), then
what keeps state across crashes, processes or awaits (bans, enclave, gate,
distributor), then the interrogation, the detection path, the scoring and the gates
that ask the server. What the plan has left:

1. Abstract specifications shown to be implemented for the older modules: a ban list as
   one set with a deadline (BanStore), a delayed log per client (Distributor), a key set
   that follows the database (AccessGate).
2. Compositions: `EnclaveSession`, which takes a verified proof of work as a choice, with
   `Interrogation`; `RpcGateway`, which takes the ban list as a choice, with `BanStore`.
3. Proofs about these, and that `ProbeVerdict`'s answers inherit `Answers_proofs`.
4. Request logs of ten to nineteen intervals in `SniperScore`; the alarm of the Page-Hinkley test.
5. `/feed` buckets of the distributor, the demo quota, and the correlation trackers of
   `multi_chain_probe.py` (414-524).

Left out for good: cryptography, whose ideal behaviour the models assume; the jitter
worker's statistics over nanoseconds, whose outcomes are choices; the JA4 parser;
eBPF programs and loaders, kernel I/O; the contract, the signer and the HTTP clients,
which keep no state another part reads; the event log and the other probe threads,
which no decision reads. `components` in `PROJECT.json` lists every part with its
status.
