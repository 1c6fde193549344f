# A verification project for Pazuzu

Pazuzu keeps one authenticated OpenSSH `ControlMaster` alive and lets many local
programs share it. A gateway process owns the master; commands, transfers,
shells and bridges are sessions on it. This directory holds TLA+ models of the
parts that decide something, the TLC configurations that check them on small
instances, and machine-checked proofs of what matters most. Paths below are
relative to the package `src/pazuzu/`, unless they start with `docs/`, `tests/`
or `README.md` (the repository's own).

## 1. The system

| part | state it keeps | operations | talks to |
| --- | --- | --- | --- |
| session leases (`lease.py`) | lock files `slot-0..`, `probe-0`, the file `max-sessions` | acquire (thread or coroutine), release, publish, read the published budget | the kernel's `flock`; shared by the gateway and every bridge process |
| admission (`_SessionSlots`, `supervisor.py:62-96`) | FIFO lock of the head, counters `waiting` and `active` | hold, time out, be cancelled, release | leases |
| connection supervisor (`OpenSshSupervisor`) | connection state, generation, repair epoch, repair lock, failed-probe count, running probe, backoff, wake event | execute, transfer, reconnect, attachments, status; maintenance task; check, repair, connect | admission, transport |
| master control (`OpenSshTransport`) | child process, log, owner file, control socket | start, stop, adopt, detach, control check, probe, session | `ssh` processes, the remote host |
| bridge (`run_bridge`) | lease, registered forward, child process, retry delay, stop event | acquire, forward, serve, cancel, retry, stop on a signal | leases, the master |
| gateway (`gateway.py`) | listening socket, client tasks, stop event | accept, dispatch, cancel on disconnect, hand over the socket, shut down | supervisor, clients |
| shell client (`shell.py`) | last reported state, cancellation event, child `ssh` | attach, notice a loss, reconnect, wait, reattach, stop | gateway, the master |
| subprocesses (`process.py`) | child group, two readers, a feeder | run, time out, cancel, terminate and kill | kernel |
| transfers (`transfer.py`) | none | filter arguments, build a command line, run it | subprocesses |
| client, Slurm, MCP (`client.py`, `slurm.py`, `mcp_server.py`) | none | calls of the gateway, rendering and parsing | gateway |
| installation (`launchd.py`) | agent files, loaded agents | install, remove, status | `launchctl` |
| command line (`cli.py`) | none | parse, call | everything |

How they interact. Everything in the gateway runs on one asyncio loop: its
coroutines interleave at awaits only. Bridges are other processes and meet the
gateway only in the lock files and on the master. The master is a process of its
own, can outlive a gateway, and dies, hangs or becomes slow at any moment. A
client is a connection to the gateway's socket: closing it cancels the request
at whatever await it is.

What is hard here, and what makes each part correct:

* **Leases.** No arbiter, polling, overlapping pools, crashed holders, a budget
  that changes over restarts. Correct when no file has two holders, the budget
  is not exceeded, probes never queue behind work, and bridges leave the gateway
  a slot.
* **Admission.** Waiters that time out or vanish anywhere in the queue. Correct
  when the counters are exact, operations start in order of arrival, and each is
  admitted or leaves.
* **Supervisor.** Several tasks see one failure; probes overlap repairs; exit
  code 255 is ambiguous; a cancelled repair is abandoned half-way. Correct when
  an unsafe command begins at most once and the answer never claims more than is
  known; one repair per failure; a slow but living master is kept; a failed
  attempt is not repeated before its backoff; every request is answered and the
  connection comes back.
* **Master control.** The spawn happens in a thread that cannot be cancelled; a
  crash leaves an owner file and a socket. Correct when at most one master is
  recorded and no unrecorded one survives a stop.
* **Bridge.** A signal between any two steps; a killed predecessor's forward.
  Correct when the service runs under a lease and a forward, a stop request ends
  it, and nothing registered is left behind by an orderly exit.
* **Gateway.** Two gateways at one path; late handlers at shutdown. Correct when
  at most one serves and no request outlives the server.
* **Shell.** Stale statuses, reconnects that fail, a stop at any moment. Correct
  when it reattaches after every loss until the session ends or it is stopped.
* **Subprocesses.** Deadline, cancellation and exit race, the leader of a group
  may end before a descendant, and a cancellation may strike in the clean-up.
  Correct when sessions are open only under a lease, results are whole, and every
  interrupted request ends.
* **Installation.** A sequence of commands any of which may fail or be
  interrupted, while launchd unloads agents in its own time. Correct when what
  runs has a file to find it by and is what the file says, and when an
  uninstallation leaves nothing behind.

`PROJECT.json` lists the hazards one by one, at their lines, with the properties
that watch them or the reason none does yet.

## 2. The modules

| module | models | state and actions |
| --- | --- | --- |
| `SessionBudget` | `lease.py`, `_SessionSlots`, the leases taken in `probe` and `run_bridge` | `lease[p]` is the file an actor has locked, `scan[p]` its place in the loop of `_try_acquire`, `queue` the waiters of the head lock; `ahead[o]` is history, those who were waiting when `o` arrived and still are. `FileBusy` and `TakeFile` are one `flock` attempt each, so scans of different processes interleave file by file; a scan on the gateway's loop is not interrupted by another gateway task (`LoopIsFree`). `GatewayExit` drops the gateway's locks as the kernel does and leaves bridges and the published file alone. |
| `SessionBudgetProofs`, `SupervisorProofs`, `BridgeProofs`, `GatewayProofs`, `ShellProofs`, `RequestProofs`, `InstallationProofs` | | the theorems about those modules |
| `SupervisorContractProofs` | | the theorem that `Supervisor` implements `ExecutionContract` |
| `Supervisor` | `supervisor.py` but for `close` and `detach` (see `Gateway`), with the transport, the gateway's cancellation and the world around it | `task[t]` is a coroutine: its request, the await it is suspended at, and its locals. Clients and the maintenance task share the actions of `_connect`, `_replace_master` and `_check`. `lockq` is the asyncio lock, `flights` the running probes, `link` and `fate` the master and the sessions on it. |
| `Bridge` | `run_bridge` and the remote wrapper of `bridge_session_argv` | `pc` is the main thread's place in the loop; `stop`, `lease`, `registered`, `child` and `delay` are its locals; `forward` is the listener on the `master`, `remote[s]` the wrapper at the other end of a channel, and `cut[s]` says that its input has ended. `RelaySignal` is the signal handler and may run between any two steps of the main thread; `Kill` ends the process and leaves forward and service behind. A service is a channel with the remote lock and the guard that watches its input. |
| `Gateway` | `serve` and its shutdown, `_prepare_socket`, `close` and `detach` of the supervisor, `start_master`, `stop_master` and the owner file | `pc[g]` is the main coroutine of a gateway process, `job[g]` the one task that holds the repair lock, between which awaits it is suspended and who began it; `socket`, `control` and `owner` are the three files; `alive`, `bound` and `sick` the masters. Each await of a start or a stop is a step of its own, and `Cancel` and `Kill` may strike at each. |
| `Shell` | `run_shell` and what it calls | `pc` is the place in the attach loop, `health` the latest answer of the gateway, `told` the reporter's last state, `stop` the cancellation event. `ssh` is the process on the terminal: it may fail to start (`SpawnFails`), it ends when it likes (`SshEnds`), and a stop gives it SIGTERM (`TerminateSsh`) and, if it does not obey, SIGKILL (`KillSsh`). A stop ends every call at its await (`DropCall`) and lets none begin (`Begin`). The gateway's answers are those of `reachable` and `connection`, which change at any moment; a long call fails only if there was `trouble` while it was under way. |
| `Request` | one request from `_handle_client` through its task and `_SessionSlots.hold` to `run_process`, `stop_process` and `_read_bounded`, with `serve`'s shutdown | `handler[r]` and `task[r]` are the two coroutines, each at the await it is suspended at; `cancelling[r]` says that `cancel()` was called and the next thing the task gets is `CancelledError` (`Deliver`). `leader` and `helper` are a process group: ssh, or scp or rsync with the ssh it starts; both hold the pipe, so its end is read when both are gone. `written`, `taken`, `kept` and `truncated` count output in chunks. `abandoned` is history. |
| `Installation` | `install_services`, `install_bridge`, `remove_bridge`, `uninstall_services` and the steps they share | `op`, `label` and `at` are the script, its agent and its step, any of which may `Fail`; `file` and `loaded`, `args` are the agents' files and launchd's view of them; `Unloaded` comes when launchd likes. `master` is what answers at the control path: a gateway that is unloaded leaves it, a gateway that is loaded adopts it or starts its own. `torn` and `missed` are history. |
| `ExecutionContract` | what the supervisor promises about running commands | `runs` counts how often a command may have begun; `Answer` is allowed only when it is honest |
| `MC_SessionBudget`, `MC_Supervisor`, `MC_Bridge`, `MC_Gateway`, `MC_Shell`, `MC_Request`, `MC_Installation` | | instances for TLC |

`Supervisor` is shown to implement `ExecutionContract`: `ContractKept` is the
contract's specification under the mapping that reads `kind` and `runs` from the
task records.

The modules meet in the code at few points, and each takes the others as its
environment. `SessionBudget` gives out the leases that `Supervisor` counts and
`Bridge` waits for. `Supervisor` decides when a job of `Gateway` begins and how
often it retries; `Gateway` allows every such decision, and a job of it may come
up against any outcome that `Supervisor` assumes of `ComeUp`, `StartFails` and
`Stop`. `Request` has in detail what the two of them have as one step: the
handler that `Gateway` cancels and the session that `Supervisor` runs, whose check
is here only its verdict. What `Installation` calls a gateway that connects is a
job of `Gateway`. What `Shell` sees of a gateway is the state of `Supervisor`, here any
sequence of states. No module is composed of two others: the product of their
states would be large, and none of the properties needs both sides in detail.

An action of `Supervisor` is what a task does between two awaits that another
task could observe. Where the code awaits something that no other task can
notice, or that only a lock's holder can be affected by, the steps are one
action. The world is external: the master dies, turns broken (its socket answers
but sessions fail) or busy (sessions are slow) at most `MaxFaults` times, at any
moment; a failed start and a crowded probe slot count as faults as well. Busy
hosts calm down by themselves; a broken master ends when its keepalives notice.
`slow` stands for both ambiguous outcomes of a probe, which the supervisor
treats alike. The backoff is a flag: time enters only as "it is over", and it
ends no sooner than the tasks that may run have run. History variables (`serial`,
`blame`, the field `seen`) are read by properties only.

A definition that nothing uses and that stands before one with the same
parameters is a mutant of it. Each property of each passing run has one: with the
mutant in the definition's place TLC finds the property violated.

## 3. The runs

| run | instance | shows |
| --- | --- | --- |
| `budget` | 3 operations, 2 bridges, 2 probes, budgets 3 and 4, 2 gateway starts, fairness | the budget across restarts, room for the gateway, probes that wait for probes only, arrival order, admission of every waiting operation once one slot comes back |
| `supervisor` | an unsafe command beside a forced reconnect, a transfer, a shell or a plain reconnect; 1 slot, 1 attempt, 2 failed probes, 1 fault | the execution contract and the rules of repair; nobody is told falsely that the connection is up |
| `supervisor_replay` | a retry-safe command beside status requests that probe; 2 attempts | the contract with a replay |
| `supervisor_live` | an unsafe command beside a transfer, for which there is 1 slot, or a forced reconnect; 1 attempt, 1 failed probe, 1 fault, fairness | every request is answered or stays in its session; the connection recovers |
| `bridge` | 3 services one after the other, 2 faults, 3 steps of backoff, any signals and kills, fairness | the forward belongs to whoever registered it, orphaned services end, the service comes back after each fault, a stop that can be heard ends the bridge |
| `gateway` | 2 processes, each started any number of times, 2 masters, fairness | the path leads to the gateway that serves, a healthy master is kept or ended as asked, no master escapes the records, a stop ends the gateway |
| `shell` | any sequence of the gateway's states, losses and stops, an ssh that may not start or not obey, fairness | honest messages, reattachment, a stop that ends the shell |
| `request` | 1 request with a replay, a group of 2, 3 chunks of output where 1 is kept; a client that leaves, a deadline, a stop and a kill at any await; both ways in which `wait()` may return; fairness | a session is open only under a lease, a result is whole, an interrupted request and a stop end |
| `installation` | 2 hosts, any sequence of commands, cut short anywhere, and login sessions in between | no agent without a file, completed changes are in force, an uninstallation leaves nothing |
| `supervisor_repair`, `gateway_overlap`, `request_orphan` | | three promises that the code does not keep, see section 5 |

Bounds and why they are enough. Two actors of each kind are the least that
compete for a file, and three kinds meet in one pool; a third operation lets one
leave the queue from its middle. Budget 3 gives a bridge one
slot and the gateway two files; with 4 both bridges can hold one, so a restart
from 4 to 3 finds bridges that counted on more. Two starts are one restart; a
further one meets no new state, since a gateway starts with nothing but the
published file and the bridges that live on. In `Supervisor` two clients and the
maintenance task make three tasks that compete for the lock, which is what it
takes for one to repair, one to wait and one to arrive late. Two failed probes
distinguish "this one" from "enough"; two attempts distinguish "again" from "give
up". One fault, together with a forced reconnect or a client that goes away
half-way through a repair, reaches a repair of a repaired master; a second fault
multiplies the states and was tried on smaller instances only. `supervisor_live`
tolerates no failed probe (`ProbeFailures = 1`): a tolerated one changes whether a
check repairs, not what anybody waits for, and with two TLC comes close to five
minutes. `generation` and
`epoch` are bounded by the number of clients, faults and maintenance rounds,
because only a failure, a fault or a request leads to a repair.

A bridge meets three channels in its life here: its own service, and one after
each of two faults, which is also what it takes for a new service to find the
lock of an old one twice. Three steps of backoff are a first, a doubled and a
capped delay. Two gateway processes are an old and a new one; each can be started
again after its end, so any number may follow one another. Two masters are one
that survives or escaped and one that is started beside it; process ids are used
again after a death, as the kernel does. `Gateway` assumes of whoever starts
gateways (`Apart`) that two do not start in the same instant, and, where
`Overlapping` is FALSE, that none starts while another is ending, which launchd
guarantees for its agents. The run `gateway_overlap` drops the latter. `Shell` has
no parameters, and its state space is complete.

One request is enough in `Request`: requests meet in the slots, whose module is
`SessionBudget`, and in the shutdown, which treats them alike; the theorems about
it hold for any number. A limit of one chunk with three written has chunks before,
across and after the limit. A helper is any descendant that holds the pipes; more
of them change nothing, since the end of the pipe is the end of the last. Two
hosts are what a change of hosts needs, and one bridge stands for all, which share
nothing. `Installation` assumes that no two commands run at once, and that a
gateway is not unloaded in the middle of starting a master, which is `Gateway`'s
subject.

Deadlock is checked in all runs but those of the supervisor and of the request,
which say `CHECK_DEADLOCK FALSE`: when each client has its answer and maintenance is
parked for a reauthorisation, or when a gateway has ended, nothing more happens,
by design.

Fairness. No module assumes that a session, an operation or a cancelled request
ends. Each has a deadline, but the clean-up after it waits for the readers of the
output, without one, while a helper that outlived its leader holds the pipe
(`process.py:51-52, 91`). What rests on such an end says so: `LastSlotComesBack` in
`OperationAdmitted`, the place `session` in `EveryRequestAnswered`, `HeldUp` in the
`StopEnds` of `Gateway`, `Stranded` in `Request`.

`SessionBudget`: the head of the queue keeps trying files (it polls every 50 ms);
nothing for operations that hold a file, bridges, probes, deadlines of the queue or
restarts. `Supervisor`: the event loop runs each task that can go on, each probe,
each step of a repair and each wait for a slot has a deadline, timers fire (weak
fairness per task), and time passes, so that a backoff ends although it may not end
while a task is about to run (strong fairness of `BackoffEnds`); nothing for the remote
host, commands, sessions or clients. `Bridge`: the bridge's main thread, the remote
lock's next holder and the guard of a service whose input has ended go on; nothing
for signals, kills, the child or the master. `Gateway`: the main coroutine and the
job go on, since every control command, probe and wait in them has a deadline, and
the shutdown's cancellations arrive at a job; nothing for requests, clients, masters,
signals or starts. `Shell`: a call to the gateway returns or fails within its
deadline, the sleep ends, ssh is spawned or not, and a set event, the end of ssh and
the end of the two seconds after SIGTERM are noticed; nothing for ssh, the user or
the gateway. One weak fairness covers them all, since a shell is at one await at a
time. `Request`:
the event loop runs the handler, the task and the reader, deadlines of the queue, of
the connection and of the check pass, the two seconds of the clean-up pass, and the
kernel reports the end of a leader; nothing for the members of a group, which may
ignore SIGTERM, write for ever or outlive their leader, for the client, or for the
deadline of a session, so that `StopEnds` does not rest on it. `Installation` needs
none.

Only TLC checks liveness, under the fairness above, and refutes the three promises.
Every invariant, every action property and the refinement that a run checks is
also a theorem (section 4), so the bounds above matter to those no longer; TLC
still shows, by the mutants, that each of them can be broken.

## 4. The proofs

`SessionBudgetProofs` proves, for every finite set of actors, every set of
budgets of at least 2 and every number of restarts, the invariants that `budget`
checks, the arrival order, and two more that no run repeats: no file has two
holders (`LeaseExclusive`), and the counters are exact (`CountersExact`). The inductive
invariant is

    IInv == TypeOK /\ LeaseInv /\ QueueInv /\ AheadInv /\ CountersExact

None of the properties is inductive alone. `LeaseInv` adds that exactly the
holders have a file, that it lies in the pool of the budget they work with, that
the scan stays in that pool, and that the actors of a dead gateway are idle;
exclusion follows since `TakeFile` takes an unlocked file. `QueueInv` says that
the queue lists exactly the waiting operations, once each, and that only its head
has begun a scan; without it the counters (a waiter that leaves must have been
counted) cannot be derived. `AheadInv` says that whoever was waiting when an
operation arrived, and still is, stands before it in the queue; it rests on
`QueueInv`, because a waiter that gives up is taken from any place of the queue and
must be the one it was. Since only the head acquires, `AdmittedInOrder` follows:
nobody is `ahead` of the one that is admitted. `CountersExact` is then
preserved by cardinality lemmas on adding and removing one element, and
`WithinBudget` maps the holders injectively into the files below the largest
budget in force. The theorems rest on the three assumptions named in
`SessionBudget` and on no others.

`SupervisorProofs` proves, for any finite set of clients and any choice of what they
ask for, any number of slots, attempts, tolerated probes and faults, everything
that the runs of the supervisor say but liveness and the contract. Two history
variables make the rules statable (`serial` counts the masters there really
were, a task's `seen` is the one it probed), and the code compares neither: it
compares epochs. The inductive invariant `Inv == Base /\ EpochInv` ties the two
together.

* `LockInv`: whoever waits for the repair lock or repairs stands in its queue,
  once, and whoever repairs stands first. Coroutines leave the queue anywhere,
  when they are cancelled, so this rests on lemmas about sequences without
  repetitions. `OneRepairAtATime` follows.
* `Coherent`: what the fields of a coroutine mean at each await. Which call it is
  inside of says whether it waits or repairs; only a check has seen a master, and
  it keeps what it saw until it has decided.
* `FlightInv` and `Timely`: while connected, a probe, or what a check learned from
  it, is of the present epoch exactly if (for a check: only if) it is of the
  master in use, and while not connected it is of an earlier epoch. This is why
  `SuccessorSpared`, `HealthyIsCurrent` and `SlowMasterKept` hold, and why comparing
  epochs suffices in the code. It is not inductive without `RepairInv`: a repair goes on only
  while the connection is given up, the new master has no probe on its way when it
  becomes the one in use, and before the first generation nothing was probed.
* `ProbeCountExact` is a part of the invariant itself, since the count is what
  the ground of `SlowMasterKept` is.

Each action property is then a lemma about the few steps that could break it:
who gives a master up and on what grounds, who begins a repair, who answers.

`SupervisorContractProofs` proves `Spec => Contract!Spec`: initial states map to
initial states, and every step of the supervisor is a step of the contract or a
stutter. An arrival is `Ask`, a launch is `Begin` or `Refuse`, an exit of the command
is `Exit`; the loss of a master maps to `Lose` for every session it carried, and
an end of a check to an honest `Answer`, or to a stutter where it leads to a replay,
whose launch is a second `Begin`.
Two facts per client are needed beyond `Inv`. `KindOK` says how often a
command may have begun at each await, given whether it was replayed. `LossOK`
is the argument behind the code's answer "unavailable" or "uncertain": if a session was lost and the
generation is still that of the session, the master in use is the one it was lost
with, which is down, so no probe of this epoch can succeed. Without it a lost
command could be taken for one that merely returned 255.

`BridgeProofs` proves `ListenerAccounted`, and `OrphanCut`: in every state, whatever was
killed, a remote wrapper that is not the bridge's child has lost its input. `OrphanCut`
is the safe half of the liveness property `OrphansEnd`; its invariant adds when the
bridge has a child at all, and that a child whose channel is lost is cut as well.

`GatewayProofs` proves six facts for every finite set of processes and of masters.
`NoLateRequest` needs `OnlyCloseCloses`: the job that `close` runs is the only one
whose return moves the main coroutine on. `EndpointOwned` needs `PathInv`: nobody
serves while another gateway clears the path, is about to bind it, or ends. That
is where the assumption on whoever starts gateways enters, and the theorem says so:
`~Overlapping /\ Spec => []EndpointOwned`. Without it the statement is false, which
`gateway_overlap` shows.

The other three are about masters and have the same hypothesis, since they need
that at most one gateway is at work (`OneAtWork`, from `PathInv` by cardinality).
`MastersAccounted` follows from `RecordInv`: a living master that did not escape is the one in
the owner file, and each step of a job says what the file holds then (`Recorded`):
nothing before the spawn, the child while it comes up, either while it cleans up.
`StoppedClean` needs in addition `WorkerInv`, that the job `close` runs is a plain stop and
its last, and `CleanInv`, that nothing is left when it returns. `SurvivorKept` needs
`SurvivorInv`: while a master waits for the next gateway, no gateway at work knows
of it or is past asking whether it can be adopted; and `GatheringInv`, that a
gateway gathers its handlers only once it was told to stop or maintenance has
died. Each of these reads the owner file, the socket and the local variables of every
gateway at once, which no single run of the program can do.

`ShellProofs` proves `FreshHealth`, which no run checks, and `GoodNewsTold`. `Shell`
has no parameters, so there is no bound to remove; the invariant adds that the news
is good already when the attachment is asked for and when ssh is spawned.

`RequestProofs` proves `TypeOK`, `SessionsCovered` and `OutputExact` for any finite set
of requests, any number of slots, any limit and any length of output. The
inductive invariant joins four parts per request. `HandlerInv`: a task exists only
once the handler has dispatched, and only a handler that leaves cancels one.
`GroupInv`: a group is alive only while its task runs or cleans up and holds the
lease, or it was abandoned. `StreamInv`: what the reader keeps is what it has taken,
cut at the limit. `ResultInv`: a result exists only once the group has ended and
the pipe is empty. From these, `SessionsWithinSlots` follows by cardinality: unless
a clean-up was cut short, no more sessions are open than there are slots.

`InstallationProofs` proves the three invariants of `installation` for any set of
hosts. Its invariant adds where the script can be and what the agent at hand is
like there (`ScriptOK`), which agents an uninstallation has passed (`PassedOK`), and
that without the gateway's file there is no master, but one that was missed or is
about to be told to exit (`MasterOK`); without the last, nothing would be known of
the master at an uninstallation that finds no file to read the host from.

Out of the prover's reach: liveness under fairness, and ENABLED. They stay with
TLC.

## 5. What the code does not keep

* `FirstRepairAccepted` (run `supervisor_repair`). Two commands lose their
  channels. The first caller's `_check` begins a repair; the second reaches
  `_check` meanwhile, reads the epoch that the repair has already raised and the
  state `reconnecting`, takes the outcome for "failed" without a probe, waits for
  the lock, finds the epoch unchanged and replaces the new, healthy master.
* `EndpointKept` (`gateway_overlap`). `pazuzu stop` is answered at once, while the
  gateway is still ending. A gateway started meanwhile takes the path over; the
  old one's last line removes it. The new one serves on, but cannot be reached.
* `CancelledGroupEnds` (`request_orphan`). `stop_process` gives a group two seconds
  after SIGTERM. A cancellation in this time, a second one or one after the
  deadline, is raised where nobody catches it: SIGKILL is never sent, and a group
  that ignores SIGTERM lives on without a lease. `SessionsCovered` names this
  exception.

More, which have no run:

* The verdict "degraded" of a check is treated like a lost connection: a retry-safe
  command is replayed on the master that was kept (`supervisor.py:413`, `CheckEnds` in
  `Supervisor`), while `README.md:302-303` promises a new generation.
* Maintenance that waits for a reauthorisation is woken by `reconnect` only; a
  command that restores the connection leaves it suspended (`supervisor.py:321`,
  `WakeUp`).
* A signal that arrives while the bridge registers its forward or starts ssh sets
  the stop event, which nobody looks at until the service that is being started
  ends by itself (`transport.py:618`, `RelaySignal`). `StopHeard` is what holds instead.
* A helper that outlives its leader is never signalled, and the readers are waited
  for without a deadline (`process.py:51-52, 91`): an scp whose ssh hangs on keeps an
  expired request, or a stop of the gateway, waiting. `InterruptedEnds` and `StopEnds`
  excuse exactly this (`Stranded`), and so do, in their own terms, the liveness
  properties of the modules that see only the request (section 3, fairness): it
  keeps its slot as well.
* An installation for another host leaves the old gateway's master at a control path
  that does not depend on the host, and the new gateway adopts it (`ConnectGateway`):
  it reaches the old host until that master ends.
* The last promise of `lease.py:115-117`, that
  bridges never take the gateway's last slot, fails when a gateway is restarted with
  a smaller `max_sessions` under a living bridge: `BridgesLeaveRoom` says when it
  holds.
* A timer that maintenance set before a reauthorisation became necessary
  still ends in an automatic attempt (`TimerFires`), which `README.md:129-130` says is
  paused.
* `tests/test_gateway.py:240` expects the socket path to be gone after
  maintenance died: the exception of the dead task is raised again in
  `_stop_maintenance`, so the last line of `serve` is not reached (`HaltMaintenance`),
  and on the Python versions whose asyncio does not itself remove the path of a
  closed server (before 3.13) the path stays. The next gateway clears it.

## 6. Not modelled, and the plan

Not modelled by choice: the wording of messages, parsing, rendering of Slurm
scripts and property lists, argument parsing, the thin calls of the client and of
the MCP server, statistics that decide nothing, the contents of commands and
their output.

Abstracted in the modules: the seconds between SIGTERM and SIGKILL in
`stop_master` are one step; a client's request in `Gateway` is only
whether it runs and whether it holds the connection's job; more than one accepted
connection at a time adds nothing to the shutdown, which treats them alike.

The command line, the MCP server and the Python client are thin calls of the
gateway and keep no state; the Slurm helpers and the filter of a transfer's
arguments render, parse and check text. `slurm_status` asks two remote sources one
after the other, and nothing in the repository promises that they agree.
`service_status` only reads. In `Request` the feeder of standard input is left out
(it ends with the pipe, and its outcome decides nothing), and one reader stands for
both. The count of failures behind the backoff is abstracted to whether one runs,
so the overflow at `supervisor.py:36` after 1025 failures is out of sight.

Next, in this order:

1. Safe halves of the liveness properties, as `OrphanCut` is for `OrphansEnd` and
   `ArrivalOrder` for `OperationAdmitted`: that a stop request leaves `Shell`, `Request` and
   `Gateway` no way back to work.
2. `BridgeProofs`: that the child is a service under a lease and, but for a master
   that was replaced, under a forward.
3. The hazards without a property, if one can be stated without inventing a promise.
