# aardvark-dns: a verification development

aardvark-dns is the DNS server of container networks. netavark writes one file
per network into a directory and sends SIGHUP; aardvark-dns answers the
containers of these networks from the files, and forwards what it does not
know. These modules model the program in `src/src/`; TLC checks them on small
instances and TLAPS proves all their safety properties for all instances.

## The system

| Part | Code | State | Operations |
|---|---|---|---|
| startup | `commands/run.rs`, `create_pid`, `daemonize` | pid file, ready pipe | fork; the child writes the pid file, serves, and sends one byte; the parent waits for it |
| supervisor | `server/serve.rs` | handle maps, the published backend (`ArcSwap`), the shared name server list, a pending SIGHUP | first read, ready, reload on SIGHUP, reload of name servers on inotify, exit when nothing is configured |
| configuration reader | `config/mod.rs` | the maps under construction | parse a file, merge every file, set up the result |
| backend | `backend/mod.rs` | eight maps, replaced as a whole | `lookup`, `reverse_lookup`, `ctr_is_internal`, `get_network_scoped_resolvers` |
| listener | `dns/coredns.rs`, `run`, `process_tcp_stream`, `process_message` | UDP and TCP socket, stop channel, connections, queries | take a message, decide, reply, accept, stop |
| forwarding | `forward_to_servers`, `forward_dns_req` | the servers left | ask one server after the other, each with a timeout |
| resolv.conf | `get_upstream_resolvers`, `parse_resolv_conf`, inotify | none | read and parse, watch |
| the rest | `main.rs`, `version.rs`, `error.rs`, `build.rs` | none | arguments, log, version, error texts |

They interact like this:

- netavark and the supervisor share the directory and the pid file, without
  locks, and SIGHUP, which coalesces.
- The supervisor starts one tokio task per (network, address); it owns the
  sending end of the task's stop channel and its join handle. Dropping the
  sender stops the task.
- The supervisor publishes each new backend by one atomic store; the listeners
  load it once per query. The name servers are a list behind a mutex.
- A listener spawns a task per TCP connection and per forwarded UDP query.
  These outlive the listener; their replies go through its channel.

Hard to test, and so what the properties are about: files that change under a
reload, signals that coalesce or arrive during the exit, an address that moves
between networks, a bind that fails half-way, listeners that end by
themselves, reloads while a query waits, servers that hang or answer late,
streams that end before the reply. `PROJECT.json` lists each hazard at its
line with the properties that would catch it.

What makes each part correct:

- startup: the parent tells the truth and always returns; the pid file names
  the server that can be notified.
- supervisor: listeners follow the configuration, are never orphaned and never
  interrupted without need; no signalled change is lost; every reload comes to
  an end. A serving process goes on when the directory or resolv.conf cannot be
  read or a bind fails. It stops in good order when a reload finds nothing to
  listen on, also if that is so because files were unreadable or malformed, and
  a failure of inotify ends it at its start.
- resolv.conf: the list of name servers is the file's first three, and comes to
  be that of the file when it changes. Not noticed are a change the watch does
  not see and one whose read fails: nothing reads again before the next event
  or SIGHUP.
- configuration and backend: every file of the documented form is read in
  full; names resolve exactly among containers that share
  a network; forward and reverse agree; isolation does not depend on the order
  of the files.
- listener: at most one reply, from a configuration that was current while the
  query waited; nothing leaves an internal network; a slow server never blocks
  UDP; every query ends.

## Modules

| Module | Models |
|---|---|
| `Startup` | `exec`, `create_pid`, `daemonize`, and the first pass of `serve`: overlapping invocations, the ready pipe, the pid file |
| `StartupProps`, `StartupProofs`, `MCStartup` | its properties and invariant, proofs, instance |
| `ListenerSet` | abstract: a target set of listeners, opened and closed one at a time |
| `Server` | the supervisor, its listener tasks and sockets, and netavark |
| `ServerProps`, `ServerProofs`, `MCServer` | its properties and invariant, proofs, instance |
| `Deployment`, `DeploymentProofs`, `MCDeployment` | `Server` composed with the sockets' queues and a client; proof, instance |
| `ResolvConf` | `parse_resolv_conf`, the reads and the watch of resolv.conf, and the programs that write it |
| `ResolvConfProps`, `ResolvConfProofs`, `MCResolvConf` | its properties and invariant, proofs, instance |
| `Backend` | the store's queries, and the decision `process_message` takes from them, as operators |
| `ConfigFile` | `parse_config`, as an operator on texts |
| `Config` | `parse_configs`, extends `ConfigFile` with the reader's state |
| `ConfigProps`, `ConfigProofs`, `MCConfig` | the store compared with the files, proofs, instance |
| `CoreDns` | one listener with its connections and queries, extends `Backend` |
| `CoreDnsProps`, `CoreDnsProofs`, `MCCoreDns` | its properties and invariant, proofs, instance |
| `DnsService` | abstract: a query is pending, then answered or lost, by one store and one list |
| `DnsServiceProofs` | `CoreDns` implements it |

Operators called "Variant of ..., to be refuted" are the definitions as a
plausible bug would have them; no specification uses them.

### Startup

An invocation is a pid of `Pid`: a parent (`parent`) and a child (`child`),
which hold both ends of a pipe after the fork (`writers` are the holders of the
writing end). The child goes through `forked`, `created` (the pid file is
emptied), `written`, `read` (the handler of SIGHUP is there), `adopt`, `ready`,
`watch` (where a ready process panics if inotify fails) and `idle`. `linked` says whose open pid file is still the one in the
directory: a file that was removed meanwhile takes the pid with it. A reload
after the start is one read and one adoption here, because others only notice
its result; `Server` has the steps in between. External are netavark, which
starts a process unless the pid file names one that lives, whoever signals the
process of the pid file, and changes of the directory. `overlapped` is a
history variable: nothing in this code keeps invocations apart, so both cases
are modelled and `ServerIsNotifiable` says which one it needs.

### Server

`pc` is where the supervisor is between two points at which anything else can
happen: `open` and `read` (`parse_configs`, one file a step), `remove_pid`,
`drain`, `drain_await` (the exit on an empty configuration), `nameservers`,
`stop`, `await`, `start`, `bind_tcp` (`stop_and_start_threads`, for `fam` "v4"
and then "v6"), `ready`, `watch`, and `idle` (the select loop). `handles` are
the keys of both handle maps, `awaiting` the handles taken out to be joined,
`task`, `udp` and `tcp` what the tasks and the kernel know. A listener that
was told to stop holds its sockets until its own step `ListenerStops`; the
join waits for it. A file created after the directory was opened may be listed
or not; a file that is gone, malformed or cannot be read is skipped. What was
skipped, whether the directory could be read at all, and which binds failed are
the history variables `skipped`, `dirRead` and `unbound`: they are of the last
pass, and tell a listener or an update that is missing for a failure from one
that was lost.

`Fault` names the calls that may fail in an instance: reading the directory
or a file of it (`config_io`), a bind, reading resolv.conf, removing the pid file, the ready
byte, the watch (`inotify`), `accept()`. Besides faults, a bind fails when
another listener holds the address. `signalDue` says that netavark has changed
a file and will signal it: it writes before it signals. The specification
starts where `serve` has installed its handler; what precedes is `Startup`.

### Deployment

`Server`, a client and one UDP query. A datagram is in a socket (`at` is the
listener it has reached) as soon as the socket is bound, and is lost when the
socket closes. The composition conjoins every step of `Server` with what it
does to the queue (`Follow`), so it refines `Server` by construction and the
proofs about `Server` carry over.

### ResolvConf

A line is its first word and the words after it, once comments are cut off; a
word is an address with or without a zone, or none. The file is written in
place (emptied, then line by line, then closed) or replaced by rename. inotify
watches the file and not its name: `watch` becomes `gone` with the file, after
one last event. `late` remembers a change between the first read and the
watch. Reading takes one step: the file is small and read in one call. With the
fault `resolv` it may also fail although the file exists, so
`get_upstream_resolvers` is the set of its outcomes; an event or SIGHUP is
consumed all the same, and `missed` says that the last one came to nothing.
`Reread(otherwise)` is what both readers do, up to the list they keep when it
fails: the old one after an event, the empty one after SIGHUP.

### Backend, ConfigFile and Config

Lists are sets: no property speaks of the order of answers. The text of a file
is its lines that are not empty, a line its columns (single spaces part
them), a column its words (commas part them); an empty column and an empty
word are kept apart where `split` does so. `parse_config` rejects a text or
gives its bind addresses, name servers and container entries. The order in
which the directory lists the files is open. A `HashMap` key that is missing is
the empty set where the code treats both alike, and where it does not
(`ctr_dns_server`, `network_is_internal`) the missing key is a value of its
own: `NoDns`, "unknown". The search domain is taken not to be empty, as
`main.rs` gives it a default. A question is who asks, the type, the name with
or without the search domain, and whether its ending is in lower case.

### CoreDns

`stage` follows each query: `waiting` in the socket, `loaded` (the store is
loaded, nothing else done), then `replied`, or `forwarding` with the servers
in `todo`, `asking` and `tried`, which ends in `replied` or `gaveup`; `dropped`
is a message that does not parse, one that is lost with its socket, or one whose
answer cannot be encoded (`Unencodable`). Between `loaded`
and the decision the supervisor may change the host's servers, which are read
under the mutex only then. Replies go to `outbox`, the channel of a stream,
and to `received` when the stream is next polled. `ListenerFree` says the loop
is in its select; a TCP connection is free while it awaits a message, so its
queries are forwarded one at a time. A connection is `closed` by its client or by
an error (`Close`), and `expired` when its idle timer ends it (`IdleTimeout`),
which the loop allows only while no query of it is under way.
`window` and `hosts` are history variables: the stores and lists that were
current while a query waited.

### DnsService

What clients may rely on, without loop, tasks, connections and channels. A
query is `unsent`, `pending`, `answered` or `lost`. While it is pending it may
take note of a new store or list (`stores`, `lists`); what it is sent on to
(`asked`) and told (`got`) follows from one of each. `CoreDns` is related to it
by `CoreDnsProps!Service`: `window`, `hosts` and `tried` are `stores`, `lists`
and `asked`; a query is answered when its client has received the reply, so
one whose reply is in `outbox` is still pending; and it is lost when it was
dropped, given up, or its reply was. A query is lost only if it did not parse,
its answer cannot be encoded, its stream has ended, or every server it may be
sent on to was asked in vain.
That store and list are read at different moments, and so may belong to
different configurations, is part of the promise: `DnsService` does not ask for
one moment.

## Runs

| Run | Question | Bounds |
|---|---|---|
| `startup` | does the parent return and tell the truth, is the server ready and named by the pid file? | 2 invocations, 2 addresses, 1 change, every fault |
| `server_faults` | do handles, tasks and sockets stay in step with every fault; does it implement `ListenerSet`, fairness included? | 2 networks, 2 IPv4 and 1 IPv6 address, 2 contents, 2 changes, all faults |
| `deployment` | is a change or a query lost under reloads; does it settle on what is on disk? | 3 contents, 2 changes, 1 query, no faults |
| `resolv` | is every text parsed as specified; does the list follow the file? | all texts of up to 4 lines of 7 kinds, 3 changes, every fault |
| `config_build` | is the store what the files say, in any order? | 3 files, 2 of them of one network, 10 texts each or gone |
| `dns` | replies, forwards and streams under reloads, hanging servers and ends; does it implement `DnsService`; does every query end? | 2 of 4 queries, one that does not parse and one with an answer that cannot be encoded; 3 servers, 2 stores, 2 lists, 1 reload |
| `startup_early_signal` | violated: a SIGHUP may come before its handler | as `startup` |
| `server_sighup_at_exit` | violated: a SIGHUP during the exit is dropped | no faults |
| `server_dead_listener` | violated: a reload does not revive a listener whose `accept()` failed | accept fault |
| `server_no_inotify` | violated: without a watch the process panics | inotify fault |
| `resolv_missed_change` | violated: changes the watch does not see | as `resolv`, inotify fault only |
| `dns_spelling` | violated: the spelling of a name decides whether it is forwarded | 2 queries |

What the passing runs show:

- `startup`: `ParentTellsTruth`, `ReadyMeansBound` and `ParentReturns` for any
  interleaving of two starts, also when they race; `ServerIsNotifiable`
  without a race, whatever an earlier start has left behind;
  `StalePidFileMeansFailure`: only a failure or a kill leaves a stale file.
- `server_faults`: no listener is orphaned (`EveryListenerStoppable`,
  `NoOrphanSockets`). Between reloads the listeners that are missing are exactly
  those whose own bind failed, of either family, and the pass was reported as
  failed (`HandlesMatchBackend`). An address moves between networks in one
  reload (`OnlyPeersInTheWay`), a listener that stays configured keeps its handle
  (`KeepsConfiguredListeners`), and no reload hangs (`SighupTaken`).
  `ServingEndsOnlyWhenEmpty` says what ends a process that serves and has its
  watch: only a pass that read the directory to its end and found nothing to
  listen on, and then no file that was read asks for a listener. So a directory
  that cannot be read leaves it serving what it served, but files that are
  skipped may be missing from an empty result, and then the process exits over
  them. A panic for want of inotify, before that, is the other end.
- `deployment`: `NoLostUpdate`, `EventuallyServes`, and for a client
  `QueriesSurviveReloads` and `QueryEnds`. It has no faults because
  `EventuallyServes` does not hold of a directory that cannot be read or a dead
  listener. `NoLostUpdate` names its exceptions: the files the last pass skipped,
  and all of them if it could not read the directory.
- `resolv`: `FirstThreeInOrder` compares the parser with a definition by rank
  and not by a loop; `FollowsWatchedFile` and `EventuallyFollows` say the list
  is right once the file is quiet, also after half of it was read, unless the
  change was `late`, the last read failed (`missed`) or the watch is gone; and
  `OnlySighupEmptiesList`, where the two readers of the file differ: whatever
  fails, the list changes to that of the file, or SIGHUP empties it.
- `config_build`: `DocumentedFilesAreRead` and `CutFileKeepsListeners` of
  single files; `NamesResolveInSharedNetworks`, `RoundTrip`,
  `InternalIffAllNetworksAre`, `ResolversComeFromExternalNetworks` and
  `ListenersFollowFiles` of the result, each against a definition that knows the
  files and no order. `RoundTrip` is about the reply the code gives, that of one
  network: whichever network comes first, each name of the reply leads back to
  the address, and no name that leads to it is missing unless a second shared
  network knows the address too. With two files for one network ("net" and
  "net%int") the order of the directory decides whether it is internal, and which
  servers it keeps; `InternalIffAllNetworksAre` and
  `ResolversComeFromExternalNetworks` say what holds in either order.
- `dns`: `OneReply`, `RepliesAreCurrent`, `InternalStaysInside`,
  `EveryServerTried`, `UdpNeverBlocked`, and `EveryQueryEnds`, which excuses an
  end of the stream by the client or by an error but not by the idle timer; and
  `ImplementsService`, that all a client can observe is what `DnsService`
  allows: no reply is lost while its stream is there.

Why the bounds are enough. Two invocations are one that finds what the other
left and one that runs beside it; with two addresses a process may hold one and
lack the other. Two networks and two addresses of a family give every
relation between listeners the code distinguishes: same key, same address in
two networks, an address that moves, one that appears or goes; the contents
bind one address, another, or one of each family. Two changes are an old, an
intermediate and a last configuration, so one change can arrive in the reload
of the other. `server_faults`, whose safety is also proved, leaves out one of
the contents. Four lines of resolv.conf are one server more than are kept, or
three and a bad line; three changes are one before the watch, one seen by it
and one after the file was replaced. Three files with a pair for one network
("net" and "net%int") and texts that share a name, in two spellings, an address
and a container cover every collision of the merge; the other texts each have
one way of being wrong or nearly so. The two stores of `MCCoreDns` make one
question refused in one and answered or forwarded in the other: a reload then
changes the verdict on it. Any two of the four queries are sent, so one is
behind another on the connection, beside it over UDP, or does not parse; the
host's list is empty or has two servers, so an attempt is followed by another
one or by none.

Deadlock is checked for `Server`, `Deployment` and `Config`, which stutter
explicitly once they have ended. `CoreDns` and `Startup` have finitely many
queries and invocations and come to rest when they are done, and in
`ResolvConf` the process may have exited, so their runs do not check it; their
liveness properties say nothing stops half-way.

The bounds are constants: `MaxChanges` (netavark's or the host's changes),
`MaxReloads` (the supervisor's changes seen by a listener), `MaxQueries` (the
queries that are sent), and the sets of queries, connections and invocations.

### Fairness

`Startup`: the kernel runs both processes of an invocation; faults, kills,
signals and changes need not happen. `Server`: weak fairness of the
supervisor's next step, of a stopped listener's end (tokio polls a task that is
ready; `recv_async` is ready once the sender is dropped and `select!` polls its
branches in random order), and of netavark's signal. No fault, no event of
resolv.conf and no change needs to happen. `Deployment` adds that a listener
takes what is in its socket. `ResolvConf`: a pending event and a pending signal
are each taken, for the same reason of `select!`. `CoreDns`: weak fairness, per
query, of taking it, deciding it and flushing its reply. `EveryQueryEnds`
assumes besides that an attempt at a server ends, which its timeout
guarantees; `UdpNeverBlocked` must hold without, so that assumption is part of
the property and not of the specification. Clients, reloads and ends of
streams are never fair.

### What the violated runs show

- `startup_early_signal`: the pid file names the child from `create_pid` on,
  "so other process can notify aardvark" (serve.rs:42-43), but the handler is
  installed only in `serve` (serve.rs:71): whoever signals in between kills the
  child. The parent reports that as an error.
- `server_sighup_at_exit`: `config.md` promises a reload on every SIGHUP. When
  a reload finds no configuration, the process removes its pid file, joins all
  listeners and exits without looking at the signal again (serve.rs:305-319).
- `server_dead_listener`: a listener that ends because `accept()` failed
  (coredns.rs:108) closes its UDP socket too, and its handle remains, so
  `stop_and_start_threads` takes it for running.
- `server_no_inotify`: `select!` evaluates the expression of a disabled branch,
  so `event_stream.as_mut().unwrap()` (serve.rs:118) panics when inotify could
  not be set up. That `select!` does so is tokio's documented behaviour and
  the one assumption about a library this finding rests on.
- `resolv_missed_change`: the release notes say the name servers are updated
  when resolv.conf changes. The watch begins after the first read
  (serve.rs:96), and it is on the file and not on its name, so a program that
  replaces the file ends it.
- `dns_spelling`: the release notes call name resolution case-insensitive. The
  search domain (coredns.rs:218) and the endings of reverse names
  (coredns.rs:417) are compared as they were sent.

Two more comments disagree with the code and have no run, because nothing the
program does is wrong. The one at config/mod.rs:73 says an error is not logged if
the file was removed, while the guard at line 71 holds for every I/O error but
that one. And serve.rs:88-89 says that readiness should wait for the first bind
to work, "but this is not really possible with the current code flow". It does
wait: `start_threads` binds both sockets before it spawns the task
(serve.rs:180-211), and the failure of any of them ends `serve` before it writes
to the pipe (serve.rs:79-93). `ReadyMeansBound` holds of what the code does.

## Proofs

TLAPS proves, for every value of the constants that meets the named
assumptions (families of addresses are disjoint, model values are not
members of the sets beside them, bounds are natural numbers, texts are
sequences of the stated form, the empty word is no address, an interface id
is not that of a missing interface, published stores are well typed):

`StartupProofs`: `Typed`, `ParentIsTruthful`, `ReadyListens`,
`PidFileOfTheGone` and `ServerIsNamed`, for any number of invocations. The
invariant `StartInv` adds to the types who holds the pipe (`PipeInv`: a child
that has neither reported nor ended holds it open, so the end of the pipe means
failure), what a pass has bound (`BoundInv`), when the pid file cannot name a
process (`PidInv`), and, as long as invocations did not overlap, when it must
(`FileInv`: while one process starts, every other one that is still there is
about to exit and has removed the file already).

`ServerProofs`: `TypeCorrect`, `Stoppable`, `SocketsOwned`, `HandlesMatch`,
`PeersOnly`, `ConfiguredListenersKept`, `ServingEnds`, `UpdatesNotLost` and
`ImplementsListeners`: the supervisor implements the safety part of
`ListenerSet`. The invariant `IInv` is the type invariant with six parts:

- `SocketInv`: a running task holds its address for both protocols, and only
  running tasks and the listener being bound hold one;
- `TaskInv`: tasks exist exactly for handles and for those being joined. It is
  what makes `EveryListenerStoppable` inductive, which by itself does not say
  that a handle being joined is not started again;
- `PlanInv`: how far the adoption of the published configuration has got, for
  each family; `HandlesMatchBackend` is its last step;
- `UnboundInv`: a listener whose bind failed is configured, has no handle, is
  not tried again in the pass, and belongs to a family that was tried. It is what
  makes `HandlesMatchBackend` an equation;
- `DrainInv`: during the exit nothing is configured, and the families that are
  done are empty;
- `PhaseInv`: which control points go with which status.

`UpdatesNotLost` and `ServingEnds` need `UpdateInv` besides: as long as no signal
is due or pending, what this pass has read and not skipped is still on disk, and
what it does not list is not there.

`DeploymentProofs`: `QueriesKept`, if `accept()` does not fail. It rests on
`IInv` and on `QueuedInv`, that a queued query is in the socket of the listener
it has reached; a listener that is stopped is not in the configuration
published last, which is what `PlanInv` and `TaskInv` say.
`DeploymentIsServer` says that the client changes nothing for the supervisor,
so the theorems about `Server` hold here, of which `UpdatesNotLostUnderLoad` is
stated; and by `QueuedQueryHasReader` a query never waits in a socket nobody
reads.

`ResolvConfProofs`: `Typed`, `ListIsCurrent` and `ListIsKept`, with reads that
fail. `ListInv` says
besides the types that a file being written has the first lines of its new
content (`WriterInv`) and what the supervisor knows of the file at each point
(`ReaderInv`). `FirstThree` is about the parser: whatever the length of the
text, the result is its first three name servers by rank, or an error if one of
its name server lines is wrong. `Found` gives the list after each line, as a
recursive function; the lemma `FoundAll` says by induction on the lines what
that list is. The library's induction theorems need a predicate as an argument,
so the lemma `Induction` proves the principle for sets: the numbers of a set
that has 0 and each next number, but not k, would be mapped by adding 1 into a
smaller finite set without a collision, against the pigeonhole principle. `AtMostThree`
adds that the supervisor never holds more than three servers.

`ConfigProofs`: `Typed`, `NamesResolve`, `ForwardMatchesReverse`,
`InternalDecision`, `ExternalResolvers`, `DocumentedFiles`, `CutFiles`. The
invariant `IInv` says of each map what the entries merged so far put into it;
when the scan is done these are all entries, which `AllMerged` states.
`ResolverInv` says the same of the servers, of an address and of a network.
`ForwardMatchesReverse` rests on the lemma `KnowingNetworks`, which names the
networks whose reply the code may give. Two files for one network are allowed
throughout; only where `ResolversComeFromExternalNetworks` equates the servers of
a network with those of its files is that limited to one file per network. The
two theorems about single files need no invariant but the types.
`StoreIsWellFormed` says that what is published is what the listeners take a
store to be, and `ListenersFromFiles` (with `ListenInv`) that the addresses to
bind are those of the readable files: both are assumptions that
`CoreDns` and `Server` make of their configuration. `AnswersFromFiles` and
`ForwardingFromFiles` go from the files to what `process_message` does with a
question: `AnswersFollowFiles` and `ForwardingFollowsFiles` quantify over all
questions on top of all files, hold in TLC on the instance of `config_build`,
and are left out of that run for their time.

`CoreDnsProofs`: `TypeCorrect`, `RepliedOnce`, `RepliesCurrent`,
`InternalContained`, `AllServersTried`. The invariant says that
the store a query loaded was current while it waited (`WindowInv`), that a
forwarded query moves the servers of one list from `todo` to `tried`
(`ForwardInv`), that a reply follows from that store (`ReplyInv`), and that a
reply on its way still has its stream (`StreamInv`). The
properties only say that some store of the window justifies the reply; the
invariant names it.

`DnsServiceProofs`: `ListenerImplementsService`. Each step of `CoreDns` is a
step of `DnsService` or one that a client does not notice (taking a query,
deciding it, a failed attempt). Besides the invariant of `CoreDnsProofs` it
needs `ServiceInv`: a query of a connection that does not exist was not sent,
and a reply is one of the store the query loaded, if it was sent on to no
server, or else of a server it was sent on to.

Only model-checked: liveness (`ParentReturns`, `SighupTaken`,
`EventuallyServes`, `QueryEnds`, `EventuallyFollows`, `UdpNeverBlocked`,
`EveryQueryEnds`) and the fairness of `ImplementsListenerSet`: TLAPS here has no
rules for `ENABLED`, so nothing that rests on fairness can be proved. The
statements the violated runs refute are not theorems, of course.

## Not modelled

- The bytes of DNS messages, TTLs, flags, response codes other than NXDOMAIN,
  and the characters of words in configuration files.
- The lengths of timeouts: only that they end.
- The command line, the log, the version command, the texts of errors
  (`main.rs`, `version.rs`, `build.rs`, `error.rs`): they hold no state and
  take no decision that a property here is about.
- Losses inside the kernel: a message has been sent when it is in the socket, and
  one that comes between the end of the idle timer and the close of its
  connection counts as sent too late.
- Locks and retries of netavark; pids that the kernel uses again.

## Plan

Done: every component of the system table but the last; every safety property
of a run is a theorem. What would add most from here:

1. `Deployment` with the whole of `CoreDns` in place of a query that is taken or
   lost, so that a TCP connection outlives its listener there too; with
   `DnsService` the client's view of it can be stated already.
2. `Startup` shown to implement the pid file and signals that `Server` assumes
   of netavark, and an abstract specification of a start: a parent returns
   once, and truthfully.
3. `ListenerSet` with the failures of a bind named, so that the abstract
   specification also says what `HandlesMatchBackend` does: which listeners may
   be missing after a reload.
