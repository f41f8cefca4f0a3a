------------------------------- MODULE MCProxy -------------------------------
(***************************************************************************)
(* The parts that are processes, and those that run by themselves, checked *)
(* in one run: each behaviour is of one part, while the others stay as     *)
(* they begin.                                                             *)
(***************************************************************************)
EXTENDS MCSequential, Proxy, Authority, Owner, NetService, Tools

\* A directory of the authority in which nothing, a key or a pair was found.
MCStarts == {NoPair} \cup {Pair(k, c) : k \in {1}, c \in {1, Nothing}}

\* A certificate whose key is gone: load_or_create replaces both.
MCLoneCert == {Pair(Nothing, 1)}

Processes == {"connections", "authority", "owner", "service", "tools"}

Init ==
  /\ part \in Processes \cup Sequential
  /\ ProxyInit /\ AuthorityInit /\ OwnerInit /\ ServiceInit /\ ToolsInit
  /\ part # "connections" => ~auth
  /\ part # "authority" => files = CHOOSE f \in Starts : TRUE
  /\ part # "service" =>
       question = [integrity |-> "none", head |-> FALSE, length |-> 0, declared |-> FALSE]
  /\ SequentialInit

processes == <<proxyVars, authority, ownerVars, service, toolsVars>>

ProcessesNext ==
  /\ UNCHANGED <<part, sequential>>
  /\ \/ /\ part = "connections" /\ ProxyNext
        /\ UNCHANGED <<authority, ownerVars, service, toolsVars>>
     \/ /\ part = "authority" /\ AuthorityNext
        /\ UNCHANGED <<proxyVars, ownerVars, service, toolsVars>>
     \/ /\ part = "owner" /\ OwnerNext
        /\ UNCHANGED <<proxyVars, authority, service, toolsVars>>
     \/ /\ part = "service" /\ ServiceNext
        /\ UNCHANGED <<proxyVars, authority, ownerVars, toolsVars>>
     \/ /\ part = "tools" /\ ToolsNext
        /\ UNCHANGED <<proxyVars, authority, ownerVars, service>>

Next == ProcessesNext \/ (SequentialNext /\ UNCHANGED processes)

vars == <<part, processes, sequential>>

\* An action of the owner while the other parts rest.
Owning(action) ==
  /\ part = "owner" /\ action
  /\ UNCHANGED <<part, proxyVars, authority, service, toolsVars, sequential>>

Spec == Init /\ [][Next]_vars /\ WF_vars(Owning(Escalate)) /\ WF_vars(Owning(Reap))
=============================================================================
