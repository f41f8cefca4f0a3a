---------------------------- MODULE AgentClient -----------------------------
(***************************************************************************)
(* The program that an agent runs: Syndeo control, with one request or a   *)
(* session of them, and Syndeo mcp.  crates/syndeo-app/src/agent_client.rs *)
(* and, of agent.rs, read_line and Mcp.  What it is sent is a sequence of  *)
(* lines, which arrive in pieces of any size; the application at the other *)
(* end of its socket may refuse it, close the connection at any moment,    *)
(* and do what it is asked before it does.  A session that goes on reading *)
(* after nobody heard that a line was too long is left out.                *)
(***************************************************************************)
EXTENDS Naturals, SequencesExt

CONSTANTS
  Lines,      \* the lines that may be sent: their length, and what they are
  Sent,       \* how many of them are sent
  MaxRequest, \* the longest line that is read
  Newline     \* what ends a line

ASSUME LinesAssumption ==
  /\ MaxRequest \in Nat /\ Sent \in Nat /\ Newline \notin Nat
  /\ \A l \in Lines : l.length \in Nat
  /\ \A l \in Lines : l.is \in {"call", "eval", "answered", "notification", "garbled", "bytes"}

VARIABLES
  kind,       \* "one", "session" or "mcp"
  lines,      \* what is sent
  input,      \* what of it has not been read
  line,       \* read_line's line so far, and whether it is too long
  tooLong,
  read,       \* how many lines were read
  at,         \* where the program is
  link,       \* the connection: "none", "up", or "down" when the application closed it
  sought,      \* what the application is asked now
  answer,     \* what came back
  done,       \* how often each line was done by the application
  out,        \* what was answered: the line, and whether it was done
  status      \* the exit status

clientVars == <<kind, lines, input, line, tooLong, read, at, link, sought, answer, done, out, status>>
reading == <<input, line, tooLong, read>>

\* A line is its number, so many times.
Units(i) == [n \in 1 .. lines[i].length |-> i]

ClientInit ==
  /\ kind \in {"one", "session", "mcp"}
  /\ lines \in IF kind = "one" THEN [1 .. 1 -> {l \in Lines : l.is \in {"call", "eval"}}]
               ELSE UNION {[1 .. n -> Lines] : n \in 0 .. Sent}
  /\ \E ends \in BOOLEAN :    \* whether the last line does
       input = FlattenSeq([i \in DOMAIN lines |->
                             Units(i) \o IF i < Len(lines) \/ ends THEN <<Newline>> ELSE <<>>])
  /\ line = <<>> /\ tooLong = FALSE /\ read = 0
  /\ at = IF kind = "mcp" THEN "read" ELSE "connect"
  /\ link = "none" /\ sought = "nothing" /\ answer = "nothing"
  /\ done = [i \in DOMAIN lines |-> 0] /\ out = <<>> /\ status = "running"

Exit(code) == at' = "over" /\ status' = code

-----------------------------------------------------------------------------
\* Whether a line with so much more is too long, forgetting what was read before.
PartTooLong(part) == Len(part) > MaxRequest

\* Whether a line with so much more is too long.
NowTooLong(part) == tooLong \/ Len(line) + Len(part) > MaxRequest

\* read_line, of the next piece.
Piece ==
  /\ at = "read" /\ input # <<>> /\ kind # "one"
  /\ \E n \in 1 .. Len(input) :
       LET found == {i \in 1 .. n : input[i] = Newline}
           end == CHOOSE i \in found : \A j \in found : i <= j
           part == IF found = {} THEN SubSeq(input, 1, n) ELSE SubSeq(input, 1, end - 1)
       IN /\ tooLong' = NowTooLong(part)
          /\ line' = IF NowTooLong(part) THEN <<>> ELSE line \o part
          /\ input' = SubSeq(input, (IF found = {} THEN n ELSE end) + 1, Len(input))
          /\ at' = IF found = {} THEN "read" ELSE "line"
  /\ UNCHANGED <<kind, lines, read, link, sought, answer, done, out, status>>

\* read_line, at the end: what there is of a line is one.
EndOfInput ==
  /\ at = "read" /\ input = <<>> /\ kind # "one"
  /\ IF line = <<>> /\ ~tooLong THEN Exit("done") ELSE at' = "line" /\ UNCHANGED status
  /\ UNCHANGED <<kind, lines, input, line, tooLong, read, link, sought, answer, done, out>>

\* The line that was read, by its number.
Now == IF kind = "one" THEN 1 ELSE read + 1

\* A line is handled: what is too long, not text or not understood is answered here, a blank line
\* and a notification are not answered, and the rest is asked of the application.
Handle ==
  LET is == IF tooLong THEN "long" ELSE IF line = <<>> THEN "blank" ELSE lines[line[1]].is
      here == is \in {"long", "garbled", "bytes"} \/ (kind = "mcp" /\ is = "answered")
      silent == is = "blank" \/ (kind = "mcp" /\ is = "notification")
  IN /\ at = "line"
     /\ \/ /\ silent /\ at' = "read" /\ read' = read + 1 /\ UNCHANGED <<sought, answer>>
        \/ here /\ at' = "print" /\ answer' = "here" /\ UNCHANGED <<read, sought>>
        \/ ~here /\ ~silent /\ at' = "call" /\ sought' = "line" /\ UNCHANGED <<read, answer>>
     /\ line' = <<>> /\ tooLong' = FALSE
     /\ UNCHANGED <<kind, lines, input, link, done, out, status>>

-----------------------------------------------------------------------------
\* connect, and hello: for control before anything is read, for mcp when it is needed.
CallConnects ==
  /\ at = "connect" \/ (at = "call" /\ link = "none")
  /\ \/ /\ link' = "up" /\ UNCHANGED <<status, answer>>
        /\ at' = IF at = "call" \/ kind = "one" THEN "call" ELSE "read"
        /\ sought' = IF kind = "one" THEN "line" ELSE sought
     \/ /\ link' = "none" /\ UNCHANGED sought     \* off, closed, or not approved
        /\ IF kind = "mcp" THEN at' = "print" /\ answer' = "failed" /\ UNCHANGED status
           ELSE \E code \in {"unreachable", "failed"} : Exit(code) /\ UNCHANGED answer
  /\ UNCHANGED <<kind, lines, input, line, tooLong, read, done, out>>

\* Connection::send, and what the application makes of it: it does what it is asked, or fails it,
\* or wants the person asked for scripts first, or closes the connection before or after.
Call ==
  /\ at = "call" /\ link # "none" /\ at' = "answered"
  /\ \/ /\ link = "up" /\ sought # "scope" /\ done' = [done EXCEPT ![Now] = @ + 1]
        /\ \/ answer' = "done" /\ UNCHANGED link
           \/ answer' = "closed" /\ link' = "down"
     \/ /\ link = "up" /\ sought = "scope" /\ answer' \in {"done", "failed"}
        /\ UNCHANGED <<done, link>>
     \/ link = "up" /\ answer' = "failed" /\ UNCHANGED <<done, link>>
     \/ /\ link = "up" /\ sought = "line" /\ lines[Now].is = "eval" /\ answer' = "not granted"
        /\ UNCHANGED <<done, link>>
     \/ answer' = "closed" /\ link' = "down" /\ UNCHANGED done
  /\ UNCHANGED <<kind, lines, sought, out, status>> /\ UNCHANGED reading

\* App::call, where a failure is followed by another try.
CallAgain ==
  /\ at = "answered" /\ kind = "mcp"
  /\ link' = IF answer = "closed" THEN "none" ELSE link
  /\ IF answer \in {"not granted", "closed"} THEN sought' = "line" /\ at' = "call"
     ELSE at' = "print" /\ UNCHANGED sought
  /\ UNCHANGED <<kind, lines, answer, done, out, status>> /\ UNCHANGED reading

\* App::call and call_tool: a closed connection is let go; JavaScript that is not allowed yet is
\* asked for, once, and tried again.
CallAnswered ==
  /\ at = "answered" /\ kind = "mcp"
  /\ link' = IF answer = "closed" THEN "none" ELSE link
  /\ CASE sought = "line" /\ answer = "not granted" -> sought' = "scope" /\ at' = "call"
       [] sought = "scope" /\ answer = "done" -> sought' = "again" /\ at' = "call"
       [] OTHER -> at' = "print" /\ UNCHANGED sought
  /\ UNCHANGED <<kind, lines, answer, done, out, status>> /\ UNCHANGED reading

\* control: the answer as it is, or why there is none, which ends it.
ControlAnswered ==
  /\ at = "answered" /\ kind # "mcp"
  /\ IF answer = "closed"
     THEN out' = Append(out, [line |-> Now, done |-> FALSE]) /\ Exit("unreachable")
     ELSE at' = "print" /\ UNCHANGED <<out, status>>
  /\ UNCHANGED <<kind, lines, link, sought, answer, done>> /\ UNCHANGED reading

\* print_line: one answer a line, and the next is read.
PrintLine ==
  /\ at = "print" /\ sought' = "nothing" /\ answer' = "nothing"
  /\ \/ /\ out' = Append(out, [line |-> Now, done |-> answer = "done"])
        /\ IF kind = "one" THEN Exit(IF answer = "done" THEN "done" ELSE "failed")
           ELSE at' = "read" /\ UNCHANGED status
        /\ read' = read + 1
     \/ /\ Exit(IF kind = "one" /\ answer = "done" THEN "done" ELSE "failed")   \* nobody reads it
        /\ UNCHANGED <<out, read>>
  /\ UNCHANGED <<kind, lines, input, line, tooLong, link, done>>

\* The application stops the agent, or agents are turned off, while nothing is under way.
Dropped ==
  /\ link = "up" /\ at \in {"read", "line"} /\ link' = "down"
  /\ UNCHANGED <<kind, lines, sought, answer, done, out, status, at>> /\ UNCHANGED reading

ClientNext ==
  \/ Piece \/ EndOfInput \/ Handle
  \/ CallConnects \/ Call \/ CallAnswered \/ ControlAnswered \/ PrintLine \/ Dropped

-----------------------------------------------------------------------------
Long(l) == l.length > MaxRequest

\* Whether a line is answered.
IsAnswered(i) ==
  kind = "one" \/ Long(lines[i])
    \/ (lines[i].length > 0 /\ (kind = "mcp" => lines[i].is # "notification"))

\* The lines that are answered, of the first so many.
Answerable(n) == {i \in 1 .. n : IsAnswered(i)}

\* Every line is answered once, in order, and nothing else is: however the lines arrive, those
\* too long to read, blank or not text among them, the last of them without its end, a line never
\* becomes two or runs into the next, and a program that ends well has answered all of them.
AnsweredInOrder ==
  /\ \A i, j \in DOMAIN out : i < j => out[i].line < out[j].line
  /\ LET answered == {out[i].line : i \in DOMAIN out} IN
     /\ at # "over" => answered = Answerable(IF kind = "one" THEN 0 ELSE read)
     /\ status = "done" /\ kind # "one" => answered = Answerable(Len(lines))
  /\ at = "line" =>
       /\ ~tooLong => line = Units(read + 1)
       /\ tooLong <=> Long(lines[read + 1])

\* The application does no line twice, whatever the connection does in the middle of it; and what
\* is said to be done was.
DoneOnce ==
  /\ \A i \in DOMAIN done : done[i] <= 1
  /\ \A i \in DOMAIN out : out[i].done => done[out[i].line] = 1
  /\ kind = "one" /\ status = "done" => done[1] = 1

ClientSpec == ClientInit /\ [][ClientNext]_clientVars
=============================================================================
