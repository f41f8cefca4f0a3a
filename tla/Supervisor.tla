----------------------------- MODULE Supervisor -----------------------------
(***************************************************************************)
(* The processes a shell starts, two lives of the shell on one home: which *)
(* program is found, who listens on a service's socket, when a child is    *)
(* taken for ready, and how children end with their shell.                 *)
(* crates/syndeo-shell/src/supervisor.rs, with Server of                   *)
(* crates/syndeo-ipc/src/transport.rs, exit_when_parent_does and the       *)
(* children's main functions.  Processes, sockets, pipes and signals are   *)
(* the operating system's, installing is the package's.                    *)
(***************************************************************************)
EXTENDS Naturals, Sequences

CONSTANTS
  Shells,      \* lives of the shell, and its name for its children
  MaxVersion,  \* bound on the versions installed, one after another
  NoListener   \* no listener at a socket's path

ASSUME SupervisorAssumption == MaxVersion \in Nat \ {0} /\ NoListener \notin Shells

Kinds == {"net", "keystore", "agent"}

Installs == {"package", "bundle", "tree"}

\* What the commands start, in order: browse and peers, agent, sign.
Plans == {<<"net">>, <<"net", "keystore", "agent">>, <<"keystore">>}

VARIABLES
  installed,   \* the version the package has installed, its only one
  shell,       \* each shell: its step, image, how it is installed, what it is to start, and
               \* the child it waits for
  proc,        \* each shell's child of each kind: its step and its program's version
  socket       \* who made the socket at each service's path

supervisor == <<installed, shell, proc, socket>>

NoProcess == [step |-> "none", version |-> 0]

SupervisorInit ==
  /\ installed = 1
  /\ shell = [s \in Shells |-> [step |-> "off", version |-> 0, install |-> "tree",
                             plan |-> <<>>, waits |-> "agent"]]
  /\ proc = [s \in Shells |-> [k \in Kinds |-> NoProcess]]
  /\ socket = [k \in Kinds |-> NoListener]

ShellGone(s) == [shell[s] EXCEPT !.step = "gone", !.plan = <<>>, !.waits = "agent"]

Alive(s, k) == proc[s][k].step \in {"spawned", "bound"}

Listening(k) == \E s \in Shells : socket[k] = s /\ proc[s][k].step = "bound"

-----------------------------------------------------------------------------
\* The package: one version directory; the one it replaces is removed.
Upgrade ==
  /\ installed < MaxVersion /\ installed' = installed + 1
  /\ UNCHANGED <<shell, proc, socket>>

\* running_image: as the kernel has it, not the link it was started by.
RunningImage == installed

\* capture_install_dir, first thing in main.
StartShell(s) ==
  /\ shell[s].step = "off"
  /\ \E install \in Installs, plan \in Plans :
       shell' = [shell EXCEPT ![s] = [step |-> "starting", version |-> RunningImage,
                                      install |-> install, plan |-> plan,
                                      waits |-> "agent"]]
  /\ UNCHANGED <<installed, proc, socket>>

\* in_bundle: the bundle's helper, whatever was put there since.
InBundle == {installed}

\* is_packaged_dir, RemovedByUpgrade: in the package the image's own directory, or nothing.
InPackage(s) == {v \in {shell[s].version} : v = installed}

\* Mutant: a packaged process looks where its link leads, too.
LocateAnywhere(s) == IF shell[s].install = "tree" THEN {shell[s].version} ELSE {installed}

\* find, locate_from: elsewhere the image's directory first, which stays.
Locate(s) ==
  CASE shell[s].install = "bundle" -> InBundle
    [] shell[s].install = "package" -> InPackage(s)
    [] shell[s].install = "tree" -> {shell[s].version}

\* clear_stale: a socket nobody answers is removed.
SocketCleared(k) == IF Listening(k) THEN socket[k] ELSE NoListener

\* start_net, start_keystore, start_agent: the child's program, from where it is found.
StartChild(s) ==
  /\ shell[s].step = "starting" /\ shell[s].plan # <<>>
  /\ LET k == Head(shell[s].plan) IN
     /\ socket' = IF k = "agent" THEN socket ELSE [socket EXCEPT ![k] = SocketCleared(k)]
     /\ \E v \in Locate(s) : proc' = [proc EXCEPT ![s][k] = [step |-> "spawned", version |-> v]]
     /\ shell' = [shell EXCEPT ![s].step = IF k = "agent" THEN "open" ELSE "waiting",
                               ![s].plan = Tail(@), ![s].waits = k]
  /\ UNCHANGED installed

\* A program that is not found, or a child that was not ready in time, ends the command:
\* kill_on_drop.
Failed(s) ==
  /\ \/ shell[s].step = "starting" /\ shell[s].plan # <<>> /\ Locate(s) = {}
     \/ shell[s].step = "waiting"
  /\ shell' = [shell EXCEPT ![s] = ShellGone(s)]
  /\ proc' = [proc EXCEPT ![s] = [k \in Kinds |->
                IF Alive(s, k) THEN [proc[s][k] EXCEPT !.step = "exited"] ELSE proc[s][k]]]
  /\ UNCHANGED <<installed, socket>>

\* wait_ready: somebody accepts at the path, and the child has not exited.
WaitReady(s) ==
  /\ shell[s].step = "waiting"
  /\ Alive(s, shell[s].waits) /\ Listening(shell[s].waits)
  /\ shell' = [shell EXCEPT ![s].step = IF shell[s].plan = <<>> THEN "open" ELSE "starting",
                            ![s].waits = "agent"]
  /\ UNCHANGED <<installed, proc, socket>>

-----------------------------------------------------------------------------
\* A child.

\* Server::bind replaces what is at the path.  The network process first opens the cache,
\* which one process has at a time: another exits.
Bind(s, k) ==
  /\ proc[s][k].step = "spawned" /\ k # "agent"
  /\ IF k = "net" /\ \E r \in Shells \ {s} : proc[r]["net"].step = "bound"
     THEN /\ proc' = [proc EXCEPT ![s][k].step = "exited"]
          /\ UNCHANGED socket
     ELSE /\ proc' = [proc EXCEPT ![s][k].step = "bound"]
          /\ socket' = [socket EXCEPT ![k] = s]
  /\ UNCHANGED <<installed, shell>>

\* A crash, or the agent's task done: nothing is tidied.
Exit(s, k) ==
  /\ Alive(s, k)
  /\ proc' = [proc EXCEPT ![s][k].step = "exited"]
  /\ UNCHANGED <<installed, shell, socket>>

\* exit_when_parent_does: its stdin ended, because the shell that held the pipe is gone.
ParentGone(s, k) == shell[s].step = "gone" /\ Exit(s, k)

-----------------------------------------------------------------------------
\* The end of a shell.

\* What the command was for is done, or was interrupted: SIGTERM to each child.
ShutsDown(s) ==
  /\ shell[s].step = "open"
  /\ shell' = [shell EXCEPT ![s].step = "stopping"]
  /\ UNCHANGED <<installed, proc, socket>>

\* The network process closes its cache and its server, whose drop removes whatever is at
\* the path; the others just end.
Terminated(s, k) ==
  /\ shell[s].step = "stopping" /\ Alive(s, k)
  /\ proc' = [proc EXCEPT ![s][k].step = "exited"]
  /\ socket' = IF k = "net" /\ proc[s][k].step = "bound"
               THEN [socket EXCEPT ![k] = NoListener] ELSE socket
  /\ UNCHANGED <<installed, shell>>

\* After the grace SIGKILL, and each is waited for; then the shell ends.
Stopped(s) ==
  /\ shell[s].step = "stopping"
  /\ shell' = [shell EXCEPT ![s] = ShellGone(s)]
  /\ proc' = [proc EXCEPT ![s] = [k \in Kinds |->
                IF Alive(s, k) THEN [proc[s][k] EXCEPT !.step = "exited"] ELSE proc[s][k]]]
  /\ UNCHANGED <<installed, socket>>

\* A force-quit or a crash: no destructor runs, and the kernel closes the pipes.
ShellDies(s) ==
  /\ shell[s].step \notin {"off", "gone"}
  /\ shell' = [shell EXCEPT ![s] = ShellGone(s)]
  /\ UNCHANGED <<installed, proc, socket>>

SupervisorNext ==
  \/ Upgrade
  \/ \E s \in Shells :
       \/ StartShell(s) \/ StartChild(s) \/ Failed(s) \/ WaitReady(s)
       \/ ShutsDown(s) \/ Stopped(s) \/ ShellDies(s)
       \/ \E k \in Kinds : Bind(s, k) \/ Exit(s, k) \/ ParentGone(s, k) \/ Terminated(s, k)

SupervisorSpec == SupervisorInit /\ [][SupervisorNext]_supervisor

-----------------------------------------------------------------------------
SupervisorType ==
  /\ installed \in 1 .. MaxVersion
  /\ socket \in [Kinds -> Shells \cup {NoListener}]

\* A packaged shell's processes are all of the version of the shell: an upgrade between its
\* start and the start of a child never pairs two releases.
OneRelease ==
  \A s \in Shells, k \in Kinds :
    shell[s].install = "package" /\ proc[s][k].step # "none" => proc[s][k].version = shell[s].version
=============================================================================
