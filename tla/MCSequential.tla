---------------------------- MODULE MCSequential ----------------------------
(***************************************************************************)
(* The parts that run by themselves: each behaviour is of one part, while  *)
(* the others stay as they begin.                                          *)
(***************************************************************************)
EXTENDS Ranges, Freshness, PageBudget, AgentClient

CONSTANTS unsaid, absent, unreadable, newline

VARIABLE part

-----------------------------------------------------------------------------
\* Six bytes under a strong tag, and two representations whose tags are weak and the same.
MCReps == {"strong", "weak", "undated"}
MCLength == [strong |-> 6, weak |-> 3, undated |-> 4]
MCTag == [strong |-> "x", weak |-> "weak", undated |-> "weak"]
MCModified == [strong |-> 5, weak |-> 6, undated |-> Unsaid]

FromTo(first, last) == [kind |-> "range", start |-> first, end |-> last]
Unread(kind_) == [kind |-> kind_, start |-> Unsaid, end |-> Unsaid]

MCRangeHeaders ==
  {<<FromTo(s, e)>> : s, e \in 0 .. 6} \cup {<<FromTo(s, Unsaid)>> : s \in 0 .. 6}
    \cup {<<FromTo(Unsaid, e)>> : e \in {0, 1, 2, 7, Unsaid}}
    \cup {<<FromTo(1, 7)>>, <<FromTo(0, 0), FromTo(2, 2)>>,
          <<FromTo(1, 1), Unread("garbled")>>, <<Unread("empty")>>}

-----------------------------------------------------------------------------
MCNoControl ==
  [maxAge |-> Absent, sMaxage |-> Absent, noStore |-> FALSE, noCache |-> FALSE,
   mustUnderstand |-> FALSE, private |-> FALSE, public |-> FALSE, mustRevalidate |-> FALSE,
   proxyRevalidate |-> FALSE, staleIfError |-> Absent, staleWhileRevalidate |-> Absent]

Plain == [status |-> 200, control |-> MCNoControl, expires |-> Absent, lastModified |-> Absent,
          etag |-> TRUE, dated |-> TRUE, setsCookie |-> FALSE, variesOnAll |-> FALSE]

Aged == [Plain EXCEPT !.control.maxAge = 1]

MCResponses ==
  {Plain, Aged,
   [Aged EXCEPT !.control.staleWhileRevalidate = 1, !.control.sMaxage = 2, !.dated = FALSE],
   [Aged EXCEPT !.control.mustRevalidate = TRUE, !.control.noStore = TRUE,
                !.control.mustUnderstand = TRUE],
   [Aged EXCEPT !.control.noCache = TRUE],
   [Aged EXCEPT !.control.proxyRevalidate = TRUE, !.setsCookie = TRUE, !.etag = FALSE],
   [Plain EXCEPT !.expires = 2, !.etag = FALSE, !.status = 302],
   [Plain EXCEPT !.status = 301, !.etag = FALSE],
   [Plain EXCEPT !.lastModified = 0, !.expires = Unreadable]}

NoDemand == [noStore |-> FALSE, noCache |-> FALSE, conditional |-> FALSE, authorized |-> FALSE,
             maxAge |-> Absent, minFresh |-> Absent, maxStale |-> Absent]

MCDemands ==
  {NoDemand, [NoDemand EXCEPT !.maxAge = 1], [NoDemand EXCEPT !.minFresh = 1],
   [NoDemand EXCEPT !.maxStale = 1], [NoDemand EXCEPT !.maxStale = 100, !.authorized = TRUE],
   [NoDemand EXCEPT !.noCache = TRUE], [NoDemand EXCEPT !.noStore = TRUE],
   [NoDemand EXCEPT !.conditional = TRUE]}

-----------------------------------------------------------------------------
\* Pages are made of three of these, or fewer.
Pieces ==
  {<<"<", "a">>, <<"<", "s", ">">>, <<"<", "t", ">">>, <<"<", "/", "s">>, <<"W", "a">>,
   <<"=", "Q">>, <<">">>, <<"<", "!", "-", "-">>, <<"-", "-", "!">>, <<"<", "!", "C">>,
   <<"]", "]">>, <<"/">>, <<"<", "p", ">">>}

MCPages == {p \o q \o r : p, q, r \in Pieces \cup {<<>>}}

\* Pages that begin with a comment.
MCComments == {<<"<", "!", "-", "-">> \o p \o q : p, q \in Pieces \cup {<<"a">>}}

-----------------------------------------------------------------------------
A(n, is) == [length |-> n, is |-> is]

MCLines == {A(0, "garbled"), A(1, "call"), A(2, "eval"), A(3, "call"), A(1, "notification"),
            A(2, "answered"), A(1, "garbled"), A(2, "bytes")}

-----------------------------------------------------------------------------
Sequential == {"ranges", "freshness", "budget", "client"}

SequentialInit ==
  /\ IF part = "freshness" THEN TRUE ELSE skew = 0 /\ shared = FALSE
  /\ IF part = "budget" THEN TRUE ELSE html = <<>> /\ budget = 0
  /\ IF part = "client" THEN TRUE ELSE kind = "mcp" /\ lines = <<>>
  /\ RangesInit /\ FreshnessInit /\ BudgetInit /\ ClientInit

SequentialNext ==
  /\ UNCHANGED part
  /\ \/ part = "ranges" /\ RangesNext /\ UNCHANGED <<freshness, pageBudget, clientVars>>
     \/ part = "freshness" /\ FreshnessNext /\ UNCHANGED <<partial, pageBudget, clientVars>>
     \/ part = "budget" /\ BudgetNext /\ UNCHANGED <<partial, freshness, clientVars>>
     \/ part = "client" /\ ClientNext /\ UNCHANGED <<partial, freshness, pageBudget>>

sequential == <<partial, freshness, pageBudget, clientVars>>

SequentialSpec ==
  part \in Sequential /\ SequentialInit /\ [][SequentialNext]_<<part, sequential>>
=============================================================================
