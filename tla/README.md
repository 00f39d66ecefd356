# mayfly-helper in TLA+

TLA+ models of `mayfly-helper`, the root helper that the unprivileged Mayfly
agent asks, over a unix socket, to install an sshd drop-in, to apply trusted CA
keys and to verify the result. The models are translated from the Rust sources
under `src/src/`; TLC checks them on small instances and TLAPS proves the
central invariants for every value of the constants. `PROJECT.json` maps every
definition to the lines it models and lists runs, mutants, findings, hazards
and theorems.

## The system

One process, one thread. It binds a unix socket, accepts a connection, reads
one length-prefixed JSON request, authenticates it, executes one operation from
a closed list, writes an audit line and one reply, and closes the connection.
It keeps no state of its own on disk: everything it knows of an earlier request
is in the managed files and in sshd.

| Part | State | Operations | Interacts with |
|---|---|---|---|
| Privileged operations, `ops.rs` | the trusted-CA file and the sshd drop-in, their directories; the previous contents in a local variable while a request runs | `Ping`, `EnsureDirectories`, `InstallSshdDropin`, `ApplyTrustedCaKeys`, `VerifyState`, and `rollback_path` | called by the server; calls the file primitives and the sshd commands |
| File primitives, `security.rs` | the temporary file, the destination, what storage holds of both | `secure_write`, `atomic_replace`, `fsync_dir`, link, mode and owner checks | the file system |
| sshd control, `sshd_control.rs` | none; the child process and its deadline | `validate_config` (`sshd -t`), `reload`, `is_active`, each a command with a timeout | sshd, systemd |
| Socket server, `server.rs` | the listener, the socket file, the connection being served | `bind`, `run`, `handle_connection`, `evaluate`, `audit` | clients, `dispatch`, the stop flag |
| Peer credentials, `peercred.rs` | the allow-list | `authorize` on the uid from `SO_PEERCRED` | the kernel |
| Protocol, `protocol.rs` | none; the bytes of a frame read so far | framing, encoding, token comparison | clients |
| Start-up, `bin/mayfly-helper.rs`, `platform.rs` | the token, the policy, the command timeout | `main`, `run`, `load_token`, `validate_root` | environment, token file |
| Shutdown flag, `shutdown.rs` | one atomic flag | the signal handler sets it, the loop reads it | signals |
| Trusted CA keys, `ssh/trusted_ca.rs` | none | `parse` and `render` of a key file, the base64 check | `ops.rs` |
| sshd configuration, `ssh/sshd_config.rs` | none | `render_dropin`, `includes_dropin_dir`, `find_trusted_user_ca_keys` | `ops.rs` |
| Errors, logging, crate root, deployment | none | | |

What makes it hard:

* **Several steps, one of which fails.** A write is a temporary file, a rename,
  a directory fsync, then three commands; the rollback is the same again. Each
  can fail, and the state it leaves depends on which one did.
* **Death in between.** The previous contents are only in memory between the
  rename and the end of the commands. A power cut also loses what was not
  synced, and a removal is never synced.
* **Others act at the same time.** Another root process edits the files between
  two steps; `systemctl` is killed at its deadline while systemd still carries
  the reload out, perhaps in the middle of the next request.
* **One thread.** A client that stalls, or a rollback that does not end, would
  keep everyone waiting, and keep SIGTERM from being obeyed.
* **Restarts.** A killed helper leaves its socket behind; the token may have
  been rotated; clients that waited are hung up on.
* **Two clocks that are not one.** A command has a deadline, its stderr has
  none; a read has a timeout, the connection has none.
* **Names, not files.** Socket and token are found by path, looked at and then
  used: what is there may have changed in between.
* **Two readers of one configuration.** What the helper makes of `sshd_config`
  need not be what sshd makes of it.

What each part owes the others:

* operations: a failed request leaves the files it found; a success is on
  storage and live in sshd; nothing that sshd rejects is left behind; the
  helper's own reload does not take sshd down; `VerifyState` is sound;
* file primitives: a reader, and a power cut, only ever see whole files; `Ok`
  means durable;
* server: only authenticated requests run; every request that ran is in the
  audit log; the socket is the helper's own and has its mode before the first
  accept; each connection ends; a stop is obeyed; a stale socket does not keep
  a restarted helper out; helpers that start at once do not all fail; an apply
  the agent was told of is not undone by a request it gave up on;
* commands: the verdict is true, nothing is left running or unreaped, the call
  returns;
* framing: a body is what was sent, the cap is exact, a read ends;
* start-up: the token served comes from a file to trust, helper and agent agree
  on it in the end, a configured restriction is in force;
* parsers: exactly the valid files are accepted, and what is written is what was
  read; a configuration that is accepted takes effect.

## The modules

| Module | Models | Checked by | Proofs |
|---|---|---|---|
| `HelperOps` | `ops.rs`, the commands of `sshd_control.rs`, the checks of `security.rs` | `MCHelperOps` | `HelperOpsProofs` |
| `AtomicFile` | abstract: what `ops.rs` counts on when it replaces a file | through `SecureWrite` | |
| `SerialLoop` | abstract: what the accept loop of `server.rs` promises | | `HelperServerProofs`, `HelperOpsProofs` |
| `SecureWrite` | `security.rs`: `secure_write`, `atomic_replace`, `fsync_dir`; `remove_optional` of `ops.rs` | `SecureWrite` | `SecureWriteProofs` |
| `HelperServer` | `server.rs`, `peercred.rs`, `shutdown.rs`, the order of `bin/mayfly-helper.rs` | `MCHelperServer` | `HelperServerProofs` |
| `HelperSystem` | the accept queue of `server.rs` and an impatient agent in front of `HelperOps`, which it extends | `MCHelperSystem` | `HelperOpsProofs` |
| `SocketPath` | `bind` and the end of `run` in several processes on one path | `SocketPath` | `SocketPathProofs` |
| `CommandRunner` | `run` and `read_child_stderr` of `sshd_control.rs` | `CommandRunner` | `CommandRunnerProofs` |
| `Framing` | `read_frame` of `protocol.rs` under the socket's read timeout | `Framing` | `FramingProofs` |
| `Startup` | `bin/mayfly-helper.rs` with the checks of `security.rs` and `platform.rs`, the timeout of `sshd_control.rs`; the README's token rotation | `Startup` | `HelperServerProofs` |
| `TrustedCa` | `ssh/trusted_ca.rs` | `MCTrustedCa` | `TrustedCaProofs` |
| `Base64` | `is_valid_base64` of `ssh/trusted_ca.rs` | `MCTrustedCa`, through `TrustedCa`, which extends it | `TrustedCaProofs` |
| `SshdConfig` | `ssh/sshd_config.rs`, `ensure_include_present` of `ops.rs`, and sshd's own reading | `SshdConfig` | `SshdConfigProofs` |

`SecureWrite` is shown to implement `AtomicFile`. Each managed file of `HelperOps`
is proved to implement it too (`FilesAreAtomic`): `file` and `durable` are `value`
and `stable`, `Write`, a restore and an edit are `Replace`, `SyncDirectory` is
`Sync`, `PowerLoss` is `PowerCut`. So what `HelperOps` takes for one step is what
the system calls of `SecureWrite` provide. `HelperServer` treats an operation as one step with a good or a bad
end (`OperationEnds`); `HelperOps` is what happens inside that step, and
`EveryRequestEnds` of `HelperSystem` is why the step ends. `HelperSystem` puts the two together
as far as the order of requests goes: its queue and that of `HelperServer` are
proved to implement one abstract loop, `SerialLoop`, and its operations to
implement `HelperOps` (`SystemRunsOps`). `CommandRunner` is what happens inside one
command of `HelperOps`, `Framing` inside `ReadRequest`, `Startup` inside `Start`,
and `SocketPath` what `ProbeSocketPath`, `BindSocket` and `SetSocketMode` become
when there is more than one helper. `TrustedCa` decides what `HelperOps` calls
`Parseable`, with `Base64` for its blobs; `SshdConfig` is behind
`EnsureIncludePresent`.

### HelperOps

`pc` is the next step of the handler ("idle" between requests, "down" when the
process is dead). Steps are split wherever another actor can act between two
system calls or commands and the difference could matter. `phase` says which
call of the shared commands `pc` is in (commit, rollback, verify), as
`validate_reload_verify` is called from three places, and afterwards how the
request ended ("unsynced": the rename was done and the directory fsync failed).

| Action | Code |
|---|---|
| `Dispatch(r)` | `dispatch`, with the content checks at the head of `apply_trusted_ca_keys` |
| `EnsureDirectories` | `ensure_directories`, `ensure_directory` for both directories; half-done failures included |
| `EnsureIncludePresent` | `ensure_include_present` |
| `CompareDropin`, `EnsureNotSymlink`, `CapturePrevious` | the reads of `install_sshd_dropin` and `apply_trusted_ca_keys`, with `NotModified` |
| `Write`, `SyncDirectory` | `secure_write` up to the rename; `fsync_dir` |
| `ValidateConfig`, `Reload`, `IsActive` | `validate_reload_verify`; `CommandError` is what its caller does with an error |
| `RollbackPath` | `rollback_path`, its write or `remove_optional`; the commands follow |
| `VerifyTrustedCa`, `VerifyDropin` | `verify_state` up to its commands, for each file the read, the look for a symlink, and the mode with the check of what was read (`ReadTrustedCa`, `LinkTrustedCa`, `CheckTrustedCa`, and the same for the drop-in) |
| `OutOfBandEdit`, `LateReload`, `SshdStart`, `Crash`, `PowerLoss`, `Restart` | the host: other root processes, a reload whose `systemctl` was killed, systemd |

A file's contents are a body; the constants say what the code can tell of it:
whether it is UTF-8, whether it parses as CA keys, whether it is the rendered
drop-in up to trailing white space. `verify_state` reads a file and then looks at
its path twice more: an edit may fall between any two of these, and what was read
(`prev`) is what is parsed or compared in the end. The mode is that of `lstat`, which
for a symlink is 0777 and for a missing path an error. `Rejected` is the set of pairs of contents
that `sshd -t` rejects: it stands for all of sshd, and depends on the managed
files alone.

Four history variables make the properties statable: `entry` (the contents when
the request arrived), `quiet` (no one else edited a file since), `sound` (sshd
has accepted the files, or they were accepted when the helper first started,
and since then nothing but the helper's own completed work has changed them),
and `cmds` (commands run for this request). `sound` is lost on an edit, on a
failed directory fsync of the commit, on a failed restore, on a death inside a
commit, and on a power cut that changes a file. It is gained when a commit, a
rollback or a verification ends with sshd healthy.

### SecureWrite and AtomicFile

One action per system call of `secure_write`: create, chmod, write, fsync,
keep, rename, fsync of the directory. `armed` is the destructor of
`NamedTempFile`, which `keep` takes away. A file remembers whether its data is
synced: a power cut may turn unsynced data into `Torn`.

### HelperServer

`proc` is where the process is: the start-up steps, the accept loop, the steps
of one connection. `stop` is the flag the handler sets. `token` is the one
loaded at start, `tokenFile` what the operator has there now. `path`, `mode` and
`heard` are the socket file, `backlog`, `conn` and `msg` the clients' side.
`ran`, `audits` and `killed` are records for the properties. A client may connect
as soon as `bind` has returned, before the chmod; it is served like the others
(`Connect`), so that the mode is no factor `OnlyAuthenticatedRuns` could count on.
A connection on which a timeout cannot be set is closed with neither audit line nor
reply (`SetTimeouts`); nothing of it has been read. An I/O error of the calls before
`bind` (creating the directory, lstat, unlink) ends the process as a kill does at
that point, and is one of the outcomes of `Crash`: its effect, a failed process that
the unit restarts, is the same, and the bound on crashes counts it.

### HelperSystem

`sent`, `inbox` and `serving` number the agent's requests on their way through
the listen queue; `waiting` is the one whose answer it still wants. `Send` may
come at any time, so that the agent gives up on a slow answer and asks for
something else; `Take` serves the oldest connection whether or not its peer is
still there. The steps of the operation, and the outages, are those of
`HelperOps`.

### SocketPath

A socket is named by the process that bound it. Each call of `bind` (lstat,
unlink, bind, chown for the helpers in `SocketGid`, chmod) is a step of one process,
and each goes by the path.
`meddled` remembers that someone stopped, died or touched the path by hand.

### CommandRunner

`proc` is where `run` is: polling (`tryWait`), looking at the deadline (`late`),
killing, draining stderr. The child is a process that owes the pipe some output
before it can exit, blocks when the pipe is full, and may fork an heir that
keeps the write end. Time is counted in polls.

### Framing

A peer announces any length and has any body; bytes travel one by one and
`read` takes any number of those that have come. `waited` is the time in the
current call of `read`, `elapsed` that in `read_frame`. The prefix has the code's
four bytes; a byte has `Base` values, 2 in the run, so that every prefix is tried,
and 256 in the code.

### Startup

`load_token` is four steps, as the file may be replaced between any two of its
calls. The operator follows the README's rotation: write aside, chown, chmod,
move, restart helper, restart agent. Permission bits are a set, of which
`mode & !allowed` is the difference.
The specification is `BootSpec`, as `HelperServerProofs` extends this module and
`HelperServer`, which has a `Spec`.

### TrustedCa and Base64

A file is a sequence of characters. `Alphabet` and `Pad` are those of base64,
`Whitespace` and `Control` the ones of which `char::is_whitespace` and
`char::is_control` hold, which overlap (a carriage return, a tab) without either
holding the other (a blank, a bell); `Others` may have any more. An algorithm is a
word: characters that are neither white space nor control, `-`, `@` and `.` among
them, and no hash sign in front. Trimming and fields are modelled as the
standard library computes them. Lines are told apart by the place where they end:
`Entries` are the ends of the lines that hold a key, `Bad` those of the lines that
are refused, and `parse` answers with the error of the first of these, or with the
keys in the order of their lines (`Nth`). A state is a text `s`, and a step adds a piece to
it. The property about the base64 check is asked of every such text, those about
files as well.

### SshdConfig

A line has a keyword, a separator, a value or a pattern, and perhaps a `#` in
front. The helper's reading (`includes_dropin_dir`, `find_trusted_user_ca_keys`,
which passes over a keyword that stands alone) is translated from the code; sshd's (`Effective`: the first value wins, includes are
read in place and in lexical order, a `Match` makes what follows conditional) is
written down from how sshd is documented and is marked external. The administrator
adds lines, takes any line out again, and edits drop-ins, the managed one as well,
before and after an install; an install that sshd rejects puts the drop-in back
(`PreviousDropin`).

## The runs

| Run | Question | Result |
|---|---|---|
| `ops_safety` | all operations, all failures, edits, late reloads, crashes and power cuts between any two steps | holds, 1.4 million states |
| `ops_rolled_back` | does `RolledBack` mean that the previous file was restored (`protocol.rs`)? | violated |
| `ops_restart` | is no rejected configuration left for a restarted helper (`ops.rs`)? | violated |
| `secure_write` | does `secure_write` implement an atomic, durable replacement? | holds |
| `server` | authentication, audit trail, socket; does every connection end, is SIGTERM obeyed, does a restart succeed? | holds, 0.38 million states |
| `system` | does an apply stay applied, and is every request answered, with stale requests in the queue, rollbacks and outages around it? | holds, 0.73 million states |
| `command` | is the verdict on a command true, is it reaped, does the call return? | holds |
| `socket_path` | three helpers on one path: does one end up serving there, with the mode and the group it asked for, and can all of them fail? | holds |
| `framing` | is a body exactly what was sent, the cap exact, the time bounded? | holds, 0.49 million states |
| `startup` | what token is served, and do helper and agent agree on it after a rotation? | holds, 0.11 million states |
| `parsers` | are exactly the key files, and exactly the base64 blobs, accepted, and does the rendering read back? | holds, 0.11 million states |
| `sshd_config` | does the helper's reading of a configuration agree with sshd's, and what can an install bring into force? | holds, 0.39 million states |

What holds in `ops_safety`:

* `NoRejectedLeftBehind`: while the files are sound, no request leaves a
  configuration sshd rejects, whatever fails.
* `FailedRequestRestores`: a failed request left the contents it found, unless
  the directory fsync of the write or the restore itself failed. Those two
  cases are named in the property because in them the code does leave the new
  file.
* `AppliedIsLive`: `Applied` (or `Ok` for the drop-in) means in place, synced,
  loaded by a running sshd. A late reload of an earlier request cannot spoil
  it: it loads the same files.
* `SilentRollbackResyncs`: a rollback that logged nothing has also brought the
  running sshd back to the restored files.
* `VerifySound`: what an `Ok` from `VerifyState` says about the host, whatever was
  done to it before the request came. When someone edits a file between two looks
  of the request it says nothing, and the code does not either: each look is true
  of the file it found.
* `CommandBudget`: at most six commands, hence six timeouts, per request.
* `ReloadNeverKillsSshd`: validate first, then reload. It needs the conditions
  "no edit" and "no queued reload": the model shows that a reload queued by an
  earlier, timed-out command can hit a file that has not been validated yet.

What holds elsewhere, beyond what the table says:

* `EveryRequestEnds` (`system`): nobody waits for ever behind other requests and
  their rollbacks; a rollback that started over would break it.
* `AppliedStays` (`system`): the file keeps what the agent was last told is
  applied until it asks for something else. It rests on three things at once:
  the queue is served in order, one operation at a time, and the directory is
  synced before the answer. Serving the newest connection first breaks it.
* `ReachableInTheEnd` (`socket_path`): helpers that start over each other unlink each
  other's sockets, and chown and chmod what another has bound; when the last has
  come through `bind`, one that serves is at the path, set up as it asked for. The
  others may serve too, on sockets nobody can reach any more: that is
  `SocketStale.cfg`. The property is about starting. A helper that stops removes
  whatever is at the path, and nothing is claimed of that.
* `NotAllFail` (`socket_path`): a helper that fails to start was overtaken by one
  that is still there.
* `OutcomeIsTrue`, `NoChildLeft` (`command`): also for a child that exits between
  the last poll and the kill, and for one that has filled the pipe.
* `RunReturns` (`command`) needs that descendants let go of the pipe in the end;
  without it, it is violated (`CommandPinned.cfg`).
* `TimeIsBounded` (`framing`) is the bound the code does have: the timeout times
  the bytes of the largest frame.
* `TokensConverge` (`startup`): a helper that dies in the middle of a rotation and
  comes back with the new token disagrees with the agent only until the agent is
  restarted, the rotation's last step.
* `RejectionIsFinal` (`parsers`): no later line makes an invalid one acceptable.
* `InstallOnlyManages` (`sshd_config`): on every configuration, with `Match` blocks,
  Includes of other files and drop-ins edited by hand, an install and its rollback
  leave in force what was, or bring the managed file into force. A rollback that
  removed the drop-in would uncover a value behind it.
* `PlainConfigTakesEffect` (`sshd_config`) says under which conditions an install
  that was accepted takes effect; `SshdInert.cfg` and `SshdPrecedence.cfg` drop one
  condition each.

The two violations are disagreements between the code and what the repository
says about it:

* `ops_rolled_back`: the directory fsync after the rename fails, `secure_write`
  returns an error, the handler leaves by `?` before `rollback_path`, and the
  answer is `RolledBack` with the new, unvalidated file in place.
* `ops_restart`: killed between the rename and the end of `sshd -t`, the helper
  leaves the new file; nothing looks at it at the next start.

### Further configurations

These configurations are kept for the other places where the code does not do
what its comments or documents say. Each checks one property, stated in its
module beside the sentence it is taken from, and TLC reports it violated; none of
them is among the runs of `PROJECT.json`.

| Configuration | Property | What TLC shows |
|---|---|---|
| `OpsConverges.cfg` (`MCHelperOps`) | `SuccessIsLive` | the retry of an apply whose fsync failed, or that a crash interrupted, finds the file current, answers `NotModified`, and never reloads |
| `OpsOwnership.cfg` (`MCHelperOps`) | `VerifyChecksOwnership` | `VerifyState` never looks at the owner |
| `OpsDirectories.cfg` (`MCHelperOps`) | `EnsuredMeansDirectories` | a regular file at the directory's path is given mode 0755 and `Ok` |
| `ServerPeerFirst.cfg` (`MCHelperServer`) | `PeerCheckedBeforeBody` | the credentials are read first, but the uid is only compared in `evaluate`, after the body was read and decoded |
| `SocketStale.cfg` (`SocketPath`) | `OnlyStaleRemoved` | `bind` does not ask whether anyone listens on the socket it removes; a second helper takes the path from the first |
| `SocketClobbers.cfg` (`SocketPath`) | `NeverClobbers` | the file type is read, then the name is removed: a file put there in between goes |
| `CommandPinned.cfg` (`CommandRunner`) | `RunReturns` | `read_to_string` waits for the end of the pipe, which a descendant keeps open after the command has exited; no deadline applies any more |
| `CommandDeadline.cfg` (`CommandRunner`) | `NeverPanics` | a timeout too large for an `Instant` panics in the addition, with the child spawned |
| `FramingTimeout.cfg` (`Framing`) | `PerConnectionTimeout` | the timeout starts anew with every `read` |
| `StartupPinned.cfg` (`Startup`) | `SetMeansPinned` | a uid that does not parse counts as none: pinning is off |
| `SshdInert.cfg` (`SshdConfig`) | `InertNotAccepted` | an Include of one other file of the directory, or one inside a `Match`, is taken for the Include of the drop-in |
| `SshdPrecedence.cfg` (`SshdConfig`) | `ManagedTakesPrecedence` | sshd takes the first value, so that a late name comes last |

### Bounds

* Contents (`ops_safety`): a good CA file, one that parses and sshd rejects, one
  that does not parse; the rendered drop-in, the same with other trailing white
  space, bytes that are not UTF-8. Each is a different path through the code;
  two of a kind would take the same one.
* Hosts: a fresh one and a provisioned one; directories safe, missing, with
  another mode, a link, a file.
* Edits: a link, a group-writable file, a broken drop-in. `quiet` is a flag, so
  the number of edits is not bounded, nor is that of crashes and power cuts.
* `CmdCap` = 7 is one more than the commands a request can run, so that the
  seventh would be seen.
* `MaxOrphans` = 2 leftovers of `secure_write`: enough for one to be there when
  the next is made. The bound only stops the count.
* `HelperServer`: two connections (one waits while the other is served), six
  kinds of message, two tokens (before and after a rotation), one crash, after
  which the helper finds a stale socket. The safety properties are proved for
  any number.
* `HelperSystem`: three requests (one running, one waiting, one newer), one
  outage, a provisioned host with a CA file sshd rejects among the requests.
* `SocketPath`: three helpers (one removes what the second bound while the third
  fails), two of them with a group; how often they start, stop and die is not bounded.
* `CommandRunner`: a timeout of four polls, a pipe of two units and up to three
  of output, so that it can fill; the clock stops two ticks after the deadline,
  as later instants are not told apart. `CommandDeadline.cfg` has
  `MaxInstant` below the timeout.
* `Framing`: four binary digits of prefix and a cap of three bytes, so that
  lengths below, at and above the cap, and the largest prefix, all occur; a
  timeout of two ticks.
* `Startup`: token lengths 0, 31 and 32 around the limit, and 64; two rotations,
  two deaths.
* `TrustedCa`: five pieces, of which an algorithm, a blob and a whole entry are one
  each. The other characters are a letter, `=`, `#`, a blank, carriage return, line
  feed and a bell, which is a control character and no white space; the algorithm's
  name has a `-`, which is no base64. All texts of up to five of these characters
  are among them, and files of several entries with
  comments, blank lines, invalid lines before and behind valid ones. For the
  base64 check, as for the rest, the proof has no bound.
* `SshdConfig`: three lines of main file from 26 shapes; one drop-in before and
  one behind the managed one.

### Fairness

* `HelperSystem`: `WF(ServerLoop)`, as each step of the loop and of a handler is a
  system call, or a command that `run` kills at its deadline.
* `WF(Restarted)` there, and `WF(proc = "failed" /\ Start)` in `HelperServer`: the
  unit has `Restart=on-failure`.
* `HelperServer`: `WF(ServerStep)`, as reads and writes on a connection end by `IO_TIMEOUT`, an
  operation by the above.
* `CommandRunner`: `WF(RunStep)` and `WF(Tick)`, the helper runs and time passes.
  `OrderlySpec` adds `WF(HeirExits)`; `CommandPinned.cfg` does without it. Nothing is
  assumed of the command itself.
* `Framing`: `WF(Read \/ ReadFails)` and `WF(Tick)`; the peer owes nothing.
* `Startup`: `WF(Helper)` (the unit restarts it) and `WF(Finishing)` (an operator
  who has begun a rotation finishes it).

Nothing is assumed of clients, signals, edits, late reloads or of sshd starting
again. Deadlock is checked except where the behaviour really ends: a frame that
was read (`Framing`), a rotation that is over (`Startup`), a text of all its
pieces (`TrustedCa`), an agent that has sent all its requests
(`HelperSystem`).

## The proofs

Every property that a run checks and that is not a liveness property is also a
theorem for every value of the constants: all safety invariants, the action
properties `ReloadNeverKillsSshd`, `OnlyAuthenticatedRuns` and `InstallOnlyManages`, and the refinement
of `AtomicFile`. The invariants used in the proofs were checked by TLC on the runs'
instances before they were proved.

Of each liveness property the part that is a matter of single steps is proved as
well: a measure that every step of the process under fairness decreases, and that
no other step increases but the ones that start something new.

| Liveness property (TLC) | Theorem | What decreases |
|---|---|---|
| `EveryRequestEnds` | `HandlersAdvance`, `LoopAdvances` | the steps of the handler under way, at most 15, and of those in the queue |
| `EveryConnectionEnds` | `TurnComes` | eight steps for each connection in front, and those of the one being served |
| `StopIsObeyed` | `StopAdvances` | steps to the loop's next look at the flag, at most 7 |
| `ServesAfterCrash` | `FailsForAReason` | (no measure: the reasons for which a start can fail, a stale socket not among them) |
| `TokensConverge` | `TokensAgree`, `StartAdvances` | the calls before the helper serves |
| `FrameEnds` | `FrameAdvances` | bytes that may still come, each with its timeout |
| `RunReturns` | `PollEndsAtDeadline` | steps of `run` after the deadline, at most 3; the last may have to wait for the pipe |

What these theorems leave to TLC is that a step is enabled while the measure is
above zero, and the passage from fairness to the eventual end. For `RunReturns` that
part needs an assumption (`OrderlySpec`): the drain of a pipe that an heir holds
open is not enabled.

**`HelperOpsProofs`** is about `HelperOps` and `HelperSystem`, for any bodies, any
set of rejected configurations, any edits, any provisioning and any number of
requests, from `BodyAssumption` (the sets of bodies are nested as the code's
checks are, and the rendered drop-in is UTF-8), `WorldAssumption` and
`SystemAssumption` (the constants have their types).

| Theorem | States |
|---|---|
| `TypeCorrect` | `TypeOK` |
| `RejectedIsRolledBack` | `NoRejectedLeftBehind` |
| `FailureRestores` | `FailedRequestRestores` |
| `AppliedReachesSshd` | `AppliedIsLive` |
| `RollbackResyncs` | `SilentRollbackResyncs` |
| `VerifyIsSound` | `VerifySound` |
| `CommandsBounded` | `CommandBudget` |
| `ReloadKeepsSshd` | `ReloadNeverKillsSshd` |
| `AppliedIsKept` | `AppliedStays` |
| `SystemRunsOps` | `HelperSystem` implements `HelperOps` |
| `FilesAreAtomic` | each managed file implements `AtomicFile` |
| `RequestsAreSerial` | the queue of `HelperSystem` implements `SerialLoop` |
| `HandlersAdvance`, `LoopAdvances` | handlers and the loop run out of steps |

None of them is inductive: they speak of the moment between requests, and what
makes them true is what the handler knows in the middle of one. The invariant is
built in three layers.

`IInv`, about the files:

* `Control`: which operation and phase a step can belong to (the commands are
  shared by three callers);
* `Backup`: from the write to the end of the commands, putting `prev` back into
  the files gives the contents on arrival; in a rollback or a verification the
  files already are those;
* `Accepted`: when the files are sound, either sshd accepts them, or they are in
  flux and it accepts them with `prev` put back; and after `sshd -t` succeeded
  on unedited files it accepts them as they are.

`LInv`, about the commands and the running sshd:

* `Budget`: the commands run so far, by step and phase. Three are left when a
  commit fails, and a rollback does not roll back;
* `Progress`: after the rename the wanted contents are in place, after the
  directory fsync on storage, and after the reload in sshd, while nobody else
  edits;
* `Verified`: what `VerifyState` has looked at so far still holds, and what it has
  read of the file it is at is still there, while nobody else edits;
* `Settled`: a request that ended with `is-active` succeeding left files that sshd
  accepts. It is what makes a late reload harmless: the reload loads the same,
  accepted files, so that `AppliedIsLive` survives it.

`SInv`, about the queue:

* `Queue`: connections wait in the order the requests were sent in, behind the one
  being served and the one last answered;
* `Serving`: the operation under way is that of the request being served;
* `Kept`: the last request sent, when it was answered `Applied`, is in the file
  and on storage. A request that can still undo it would have to come out of the
  queue later with a smaller number, which `Queue` excludes.

`HelperSystem` takes the steps of `HelperOps`, so that the first two layers are
reused as they are (and `SystemRunsOps` is nearly free). One lemma per group of actions shows that a layer is kept; the
reads share one lemma (`ReadingStep`), the command errors another.

**`SecureWriteProofs`**: `PathIsWhole`, `OkMeansDurable`, `OnlyRenameLeaks`,
`TypeCorrect` and `Refinement` (`Spec => A!Spec`), from `OrphanBound` and
`SentinelAssumption`. The invariant says how far the temporary file has come at
each step (`Progress`), so that what is renamed is complete, has its mode and is
synced; a power cut can then only choose between whole files, which is the
abstract `PowerCut`.

**`HelperServerProofs`**: `OnlyAuthenticated` (`OnlyAuthenticatedRuns`),
`TrailHasNoGap` (`AuditTrail`), `SocketStaysOurs` (`SocketIsOurs`) and
`ServerTypes`, for any clients, messages, tokens, uids and crashes, from
`ServerAssumption`. The invariant adds to them where the listener is during
start-up (`Listener`); that the queue holds each waiting connection once and not
the one being served, and that only a whole request gets to `evaluate` (`Queue`);
and how many audit lines the connection has at each step (`Trail`). Without `Queue`
a connection might be served twice and audited twice.

`ConnectionsAreSerial` shows that the server implements `SerialLoop`; `TurnComes`,
`StopAdvances` and `FailsForAReason` are the measures and reasons of the table
above. They need two more invariants: a connection waits only for a process that
hears it (`Waiting`), and the probe leaves no socket for `bind` to fail over
(`Probed`).

The same module proves `LoadsTrusted` (`ServedTokenTrusted`) of the start-up,
`Startup`, for any token lengths and any number of rotations and deaths. The file
may be replaced between any two calls of `load_token`; the argument is that what a
check found holds of whatever file is there at the next check (`Checked`), because
a rotation moves only a finished file to the path (`Rotation`). `TokensAgree` adds
that each reader of the token is restarted after the move (`Agreed`), and
`StartAdvances` that no check of `load_token` refuses a file to trust, so that the
checks and `Trusted` draw the line in the same place.

**`SocketPathProofs`**: `OneIsReachable` (`ReachableInTheEnd`), `SomeoneGetsThrough`
(`NotAllFail`) and `PathTypes`, for any number of helpers, from `PathAssumption`.
`Provisioned` says that a socket whose helper serves has been set up, by that helper
if by no other, and nothing undoes it. `Contended` is the other half: once a helper is past its lstat and
nobody meddled, a free path has somebody about to bind it, and a socket at the
path has somebody listening; so whoever fails leaves another behind that is on its
way, and when nobody is on its way any more the one at the path serves.

**`CommandRunnerProofs`**: `OutcomeNeverLies` (`OutcomeIsTrue`), `AlwaysReaped`
(`NoChildLeft`) and `RunnerTypes`, for every timeout, pipe and output, from
`RunnerAssumption`. `Progress` adds that the deadline has passed when the kill is
reached and that the child is reaped when its stderr is drained. 
`PollEndsAtDeadline` says that the poll does not start over once the deadline has
passed, and which of its two ends `run` takes: a child that has not exited is killed
and its pipe is left alone; of one that has exited the pipe is read. It does not say
that `run` returns soon after the deadline: while a descendant holds the pipe
(`Held`) the read takes no step, for ever in `CommandPinned.cfg`.

**`FramingProofs`**: `ReturnsWhatWasSent` (`FrameIsExact`), `RefusesOnlyOversized`
(`CapIsExact`) and `ReadIsBounded` (`TimeIsBounded`), for every base of the bytes
(256 among them), every cap that fits the prefix, every body and every timeout,
from `FrameAssumption`. `PrefixRoundTrips` shows that `from_be_bytes` undoes
`to_be_bytes`, digit by digit. `Position` says that what was read, what is on the
wire and what is not sent yet make up, in this order, the rest of the frame, so
that it does not matter how the bytes are cut into reads. `Time` is an account:
each byte taken has paid for at most one timeout. `FrameAdvances` reads the same
account the other way round, from what is left.

**`TrustedCaProofs`**: `AlwaysExact` (`AcceptsExactlyBase64`), `AcceptsKeyFiles`
(`AcceptsExactlyKeyLines`), `RejectionSticks` (`RejectionIsFinal`), `FileRoundTrips`
(`RenderRoundTrips`), `EntryIsKeyLine` and `KeyRoundTrips`, for texts of any length over any alphabet,
from `ByteAssumption` (`=` is not in the alphabet), `PieceAssumption` (texts are
put together from strings of bytes) and `WordAssumption` (what white space, control
characters and the names of algorithms have in common with base64 and with each
other, each true of the nine names and of the standard library's classes). Without induction
over data, the argument is by extremes: a field ends at the least white space
behind its start, trimming goes from the least to the greatest character that is
not white space, and such extremes exist in every set of naturals that is not empty
and bounded (`Least`, `Greatest`). `FieldsAre` and `FieldsExist` say from this what
the fields of a line are; `EntryIsKeyLine` that the code's check of a line accepts
exactly the lines of the grammar. `LinesOfPrefix` says that text added behind a
line end changes no line before it, from which `RejectionSticks` follows.
`KeyRoundTrips` says that one rendered key is read back as the key it was.
`FileRoundTrips` puts a file together from such lines: the rendering is a recursive
function of the list of keys (`FlattenSeq`), and what it does for every list is
shown by a least counterexample (`Least` again) in place of an induction; the lines
of the rendering are then those of its parts, each part ends in a line feed that
is its only one, and the n-th key of the rendering is the n-th key of the file.

**`SshdConfigProofs`**: `InstallNeverLoosens` (`InstallOnlyManages`), `FindsWhatSshdUses`
(`FindIsEffective`) and `InstallTakesEffect` (`PlainConfigTakesEffect`), for
configurations and drop-in directories of any size, from `ConfigAssumption`. sshd's
value is the first in reading order, which is an order of pairs (a line, and the
file it includes); `EarliestExists` reduces it to the least line and then the least
file. `Answered` says what an answer shows about the files. For
`InstallNeverLoosens`, the drop-in that an install adds to the reads is either the
earliest of them, or what was the earliest still is.

What stays with TLC, and why:

* The liveness properties (`EveryConnectionEnds`, `StopIsObeyed`, `ServesAfterCrash`,
  `EveryRequestEnds`, `RunReturns`, `FrameEnds`, `TokensConverge`): liveness under
  fairness and `ENABLED` are out of the prover's reach.
* The two runs that end in a violation and the further configurations above: a
  counterexample is one behaviour.

## What is not modelled, and assumptions

* sshd's verdict depends on the two managed files only, `sshd -t` reads them at
  one instant, and sshd does not stop by itself.
* In `HelperOps` the main `sshd_config` is a free choice at the moment it is read;
  its contents are in `SshdConfig`, where quoting, nested includes and tokens of
  several patterns on one line are left out.
* Directories change only through the helper; the durability of a created
  directory is not modelled.
* In `HelperServer` the socket file is not removed by others while a helper
  listens; that case is in `SocketPath`, which has no clients: who connects over
  which socket before its chmod is in `HelperServer`, for one helper.
* Sending the reply is one step with two ends; its timeout behaves as that of
  `read`, which `Framing` models.
* The constant time of the token comparison is not a matter of states.
* `fsync` and `validate_trusted_file` of `security.rs` have no caller.
* JSON, error texts, log formatting, deployment scripts and packaging: no state,
  or pure input and output.

## Plan

1. Done: `HelperOps`, `SecureWrite` with `AtomicFile`, `HelperServer`, their runs
   and proofs.
2. Done: `CommandRunner`, `SocketPath`, `Framing`, `Startup`, `TrustedCa`, `Base64`,
   `SshdConfig`, and `HelperSystem`, which composes the operations with the queue;
   proofs about four of the components' modules.
3. Done: proofs of every safety invariant, of the action properties, and of the
   invariants of `HelperSystem` and `Startup`.
4. Done: the refinements that tie the modules together (`FilesAreAtomic`,
   `SystemRunsOps`, and both queues as a `SerialLoop`).
5. Done: the round trip of a whole key file, and the measures behind the liveness
   properties.
6. Open: the enabledness half of the liveness properties, which is out of the
   prover's reach and stays with TLC.
