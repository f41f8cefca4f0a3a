----------------------------- MODULE NetService -----------------------------
(***************************************************************************)
(* One fetch over the network process's socket: its answer as frames, and  *)
(* the whole body that the shell, the agent, the window and Servo collect  *)
(* from them.  crates/syndeo-net/src/service.rs and                        *)
(* crates/syndeo-ipc/src/frame.rs.  The fetch itself is NetFetch; the      *)
(* socket keeps its order and ends when either process does.  A body is    *)
(* its pieces, numbered, each no larger than CHUNK.                        *)
(***************************************************************************)
EXTENDS Naturals, Sequences

CONSTANTS
  MaxBody,      \* bound on the pieces of a body
  WholeLimit    \* MAX_WHOLE_BODY, in pieces

ASSUME ServiceAssumption == MaxBody \in Nat /\ WholeLimit \in Nat

VARIABLES
  question,      \* the request: its integrity, whether it is a HEAD; and what it will find:
              \* the body's length and whether a Content-Length declares one
  server,     \* where respond is: "idle", "asked", "streaming", "over"
  sent,       \* the pieces it has put into frames
  wire,       \* frames on the socket
  client,     \* where fetch_within is: "idle", "begun", "body", "whole", "refused"
  got         \* the pieces the client has

service == <<question, server, sent, wire, client, got>>

\* The body comes as declared, or without a length; a HEAD has a length and no body.
Questions ==
  {q \in [integrity : {"none", "unusable", "matches", "differs"}, head : BOOLEAN,
          length : 0 .. MaxBody, declared : BOOLEAN] : q.head => q.length = 0 \/ q.declared}

Body(q) == IF q.head THEN 0 ELSE q.length

Frame(kind) == [kind |-> kind, piece |-> 0]

Chunk(n) == [kind |-> "chunk", piece |-> n]

ServiceInit ==
  /\ question \in Questions /\ server = "idle" /\ sent = 0
  /\ wire = <<>> /\ client = "idle" /\ got = <<>>

\* Framed::send: what is sent to a client that has closed its end is lost, and the server
\* stops.
Send(frame) ==
  wire' = IF client \in {"whole", "refused"} THEN wire ELSE Append(wire, frame)

-----------------------------------------------------------------------------
\* serve, respond: the request is taken.
Take ==
  /\ server = "idle" /\ client = "begun"
  /\ server' = "asked"
  /\ UNCHANGED <<question, sent, wire, client, got>>

\* An unusable declaration, an unknown method, a fetch that failed, or a body that was
\* collected and is not the one declared.
Refuse ==
  /\ server = "asked"
  /\ Send(Frame("error")) /\ server' = "over"
  /\ UNCHANGED <<question, sent, client, got>>

\* FetchBegin: with no declaration as soon as there is a response, with one when the whole
\* body is there and hashes to it.
Begin ==
  /\ server = "asked" /\ question.integrity \in {"none", "matches"}
  /\ Send(Frame("begin")) /\ server' = "streaming"
  /\ UNCHANGED <<question, sent, client, got>>

SendChunk ==
  /\ server = "streaming" /\ sent < Body(question)
  /\ Send(Chunk(sent + 1)) /\ sent' = sent + 1
  /\ UNCHANGED <<question, server, client, got>>

\* The origin cut a streamed body short: an error after the beginning.
CutShort ==
  /\ server = "streaming" /\ question.integrity = "none"
  /\ Send(Frame("error")) /\ server' = "over"
  /\ UNCHANGED <<question, sent, client, got>>

FetchEnd ==
  /\ server = "streaming" /\ sent = Body(question)
  /\ Send(Frame("end")) /\ server' = "over"
  /\ UNCHANGED <<question, sent, client, got>>

\* The network process is gone: what it sent can still be read, and then the end of file.
ServerDies ==
  /\ server \notin {"idle", "over"}
  /\ server' = "over"
  /\ UNCHANGED <<question, sent, wire, client, got>>

-----------------------------------------------------------------------------
\* Framed::fetch.
Ask ==
  /\ client = "idle" /\ client' = "begun"
  /\ UNCHANGED <<question, server, sent, wire, got>>

Read(frame) == wire # <<>> /\ Head(wire).kind = frame /\ wire' = Tail(wire)

\* A length that is declared and too large is refused at once, but not a HEAD's.
ReadBegin ==
  /\ client = "begun" /\ Read("begin")
  /\ client' = IF question.declared /\ ~question.head /\ question.length > WholeLimit
               THEN "refused" ELSE "body"
  /\ UNCHANGED <<question, server, sent, got>>

ReadChunk ==
  /\ client = "body" /\ Read("chunk")
  /\ IF Len(got) + 1 > WholeLimit THEN client' = "refused" /\ UNCHANGED got
     ELSE got' = Append(got, Head(wire).piece) /\ UNCHANGED client
  /\ UNCHANGED <<question, server, sent>>

ReadFetchEnd ==
  /\ client = "body" /\ Read("end")
  /\ client' = "whole"
  /\ UNCHANGED <<question, server, sent, got>>

\* Mutant: what has arrived when the body was cut short is handed on.
ReadErrorWhole ==
  /\ client \in {"begun", "body"} /\ Read("error")
  /\ client' = IF client = "body" THEN "whole" ELSE "refused"
  /\ UNCHANGED <<question, server, sent, got>>

\* A fetch that failed, or a body cut short: never what has arrived.
ReadError ==
  /\ client \in {"begun", "body"} /\ Read("error")
  /\ client' = "refused"
  /\ UNCHANGED <<question, server, sent, got>>

\* recv on a socket that has ended.
ReadClosed ==
  /\ client \in {"begun", "body"} /\ wire = <<>> /\ server = "over"
  /\ client' = "refused"
  /\ UNCHANGED <<question, server, sent, wire, got>>

ServiceNext ==
  \/ Take \/ Refuse \/ Begin \/ SendChunk \/ CutShort \/ FetchEnd \/ ServerDies
  \/ Ask \/ ReadBegin \/ ReadChunk \/ ReadFetchEnd \/ ReadError \/ ReadClosed

ServiceSpec == ServiceInit /\ [][ServiceNext]_service

-----------------------------------------------------------------------------
\* What a client takes for a page is all of it, in order, within its limit, and hashing to
\* what it declared: wherever the body was cut short, the network process died, or the
\* limit was crossed, it has an error and no page.
WholeOrNothing ==
  client = "whole" =>
    /\ got = [n \in 1 .. Body(question) |-> n]
    /\ Body(question) <= WholeLimit
    /\ question.integrity \in {"none", "matches"}
=============================================================================
