------------------------------- MODULE Tools -------------------------------
(***************************************************************************)
(* The example tools, given to a home that has no "tools" of its own, by   *)
(* shells that start at the same time, fail, or are cut off, while a       *)
(* person may make that directory to say no.                               *)
(* crates/syndeo-shell/src/tools.rs.  Files, renames and the clock are the *)
(* operating system's.  A seeding takes less than an hour: one that is     *)
(* suspended for longer is taken for abandoned, and may publish what       *)
(* another is removing.                                                    *)
(***************************************************************************)
EXTENDS FiniteSets

CONSTANTS
  Seeders,    \* runs of the shell on one home
  ToolNames   \* the names of the tools that releases come with

ASSUME ToolsAssumption == Seeders \cap {"none", "person"} = {}

VARIABLES
  tools,    \* what is called "tools": nothing, a person's (and empty), or what was seeded
  staging,  \* the staging directory of each run: its files written in full and in part
  seeder,   \* each run: its step, the tools beside its binary, and whether it was cut off
  saidNo    \* whether a person made the directory

toolsVars == <<tools, staging, seeder, saidNo>>

NoDirectory == [is |-> "none", whole |-> {}, part |-> {}]

Files(r) == staging[r].whole \cup staging[r].part

Step(r, at) == seeder' = [seeder EXCEPT ![r].at = at]

ToolsInit ==
  /\ saidNo = FALSE /\ tools = NoDirectory /\ staging = [r \in Seeders |-> NoDirectory]
  /\ seeder = [r \in Seeders |-> [at |-> "idle", has |-> {}, cut |-> FALSE]]

-----------------------------------------------------------------------------
\* seed_with: nothing is done for a home that has something called tools.
Look(r) ==
  /\ seeder[r].at = "idle" /\ UNCHANGED <<tools, staging>>
  /\ Step(r, IF tools.is = "none" THEN "read" ELSE "over")

\* read_tools: the tools beside the binary, which may be none or unreadable.
ReadTools(r) ==
  /\ seeder[r].at = "read" /\ UNCHANGED <<tools, staging>>
  /\ \E has \in SUBSET ToolNames :
       seeder' = [seeder EXCEPT ![r].has = has, ![r].at = IF has = {} THEN "over" ELSE "stale"]

\* stale_contents: what may be removed, of the directories over an hour old.
Abandoned(r) == {s \in Seeders : staging[s].is = "stale" /\ Files(s) \subseteq seeder[r].has}

\* A directory, without a file.
Without(d, f) == [d EXCEPT !.whole = @ \ {f}, !.part = @ \ {f}]

WithoutOne(s) == IF Files(s) = {} THEN NoDirectory
                 ELSE Without(staging[s], CHOOSE f \in Files(s) : TRUE)

\* remove_stale: each file and then the directory.
RemoveStale(r) ==
  /\ seeder[r].at = "stale" /\ UNCHANGED tools
  /\ \/ \E s \in Abandoned(r) :
          /\ UNCHANGED seeder
          /\ staging' = [staging EXCEPT ![s] = WithoutOne(s)]
     \/ Abandoned(r) = {} /\ Step(r, "make") /\ UNCHANGED staging

\* make_staging, which may fail.
MakeStaging(r) ==
  /\ seeder[r].at = "make" /\ UNCHANGED tools
  /\ \/ Step(r, "write") /\ staging' = [staging EXCEPT ![r].is = "made"]
     \/ Step(r, "over") /\ UNCHANGED staging

\* A tool is created, and then written and put on the disk.
WriteTool(r) ==
  /\ seeder[r].at = "write" /\ UNCHANGED <<tools, seeder>>
  /\ \/ /\ staging[r].part = {}
        /\ \E f \in seeder[r].has \ Files(r) : staging' = [staging EXCEPT ![r].part = {f}]
     \/ \E f \in staging[r].part :
          staging' = [staging EXCEPT ![r].part = {}, ![r].whole = @ \cup {f}]

\* All are, or one could not be written.
Staged(r) ==
  /\ seeder[r].at = "write" /\ UNCHANGED <<tools, staging>>
  /\ Step(r, IF staging[r].whole = seeder[r].has THEN "publish" ELSE "discard")

\* rename, as it is without being told not to replace anything: an empty directory is replaced.
CanRenameOver == tools.whole = {}

\* rename_exclusive.
CanRename == tools.is = "none"

\* The staging directory is renamed into place, or removed: something is there, or such a rename
\* is not supported.
Publish(r) ==
  /\ seeder[r].at = "publish"
  /\ \/ /\ CanRename /\ tools' = [staging[r] EXCEPT !.is = r]
        /\ staging' = [staging EXCEPT ![r] = NoDirectory] /\ Step(r, "over")
     \/ Step(r, "discard") /\ UNCHANGED <<tools, staging>>

\* discard: what this run wrote, and its directory.
Discard(r) ==
  /\ seeder[r].at = "discard" /\ UNCHANGED tools
  /\ \/ \E f \in Files(r) : /\ UNCHANGED seeder
                            /\ staging' = [staging EXCEPT ![r] = Without(@, f)]
     \/ Files(r) = {} /\ staging' = [staging EXCEPT ![r] = NoDirectory] /\ Step(r, "over")

\* The run is killed, or the power fails.
CutOff(r) ==
  /\ seeder[r].at \notin {"idle", "over"} /\ UNCHANGED <<tools, staging>>
  /\ seeder' = [seeder EXCEPT ![r].at = "over", ![r].cut = TRUE]

\* STALE_AFTER passes, with no run at work.
Hour ==
  /\ \A r \in Seeders : seeder[r].at \in {"idle", "over"}
  /\ \E r \in Seeders : staging[r].is = "made"
  /\ staging' = [r \in Seeders |-> IF staging[r].is = "made" THEN [staging[r] EXCEPT !.is = "stale"]
                                   ELSE staging[r]]
  /\ UNCHANGED <<tools, seeder>>

\* A person makes an empty directory.
SayNo ==
  /\ tools.is = "none" /\ tools' = [NoDirectory EXCEPT !.is = "person"] /\ saidNo' = TRUE
  /\ UNCHANGED <<staging, seeder>>

ToolsNext ==
  \/ SayNo
  \/ Hour /\ UNCHANGED saidNo
  \/ \E r \in Seeders :
       /\ UNCHANGED saidNo
       /\ \/ Look(r) \/ ReadTools(r) \/ RemoveStale(r) \/ MakeStaging(r) \/ WriteTool(r)
          \/ Staged(r) \/ Publish(r) \/ Discard(r) \/ CutOff(r)

ToolsSpec == ToolsInit /\ [][ToolsNext]_toolsVars

-----------------------------------------------------------------------------
\* The directory appears whole or not at all, with the tools of one run, and never where a person
\* made one; and a run that was not cut off leaves nothing else behind.
ToolsWhole ==
  /\ \A r \in Seeders : tools.is = r =>
       tools.part = {} /\ tools.whole = seeder[r].has /\ tools.whole # {}
  /\ saidNo => tools.is = "person"
  /\ \A r \in Seeders : seeder[r].at = "over" /\ ~seeder[r].cut => staging[r].is = "none"

=============================================================================
