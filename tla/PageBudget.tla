----------------------------- MODULE PageBudget -----------------------------
(***************************************************************************)
(* Parsing a page within a budget of work.  crates/syndeo-dom/src/         *)
(* budget.rs: the meter, the gate before the tree builder, the metered     *)
(* tree, and the lookahead that finds the end of each tag, and its         *)
(* attributes, before the tokenizer is given it.                           *)
(*                                                                         *)
(* A character is a byte.  "W" stands for white space, "Q" for a double    *)
(* quote, "D" for the word doctype, "C" for [CDATA[, and the name "s" for  *)
(* script.  html5ever's tokenizer and tree builder are external: the       *)
(* tokenizer goes through the states that the source lists as its own, the *)
(* tree builder opens and closes elements.                                 *)
(***************************************************************************)
EXTENDS Naturals, SequencesExt

CONSTANTS
  Pages,     \* the pages that are parsed
  Budgets,   \* the budgets they are parsed with
  Walks      \* what a change of the tree may cost

\* No place, past the end of every page.
Nowhere == 1000

ASSUME BudgetAssumption ==
  /\ Budgets \subseteq Nat /\ Walks \subseteq Nat /\ Walks # {}
  /\ \A page \in Pages : page \in Seq(STRING) /\ Len(page) < Nowhere

Letters == {"a", "s", "t", "p"}

\* A character, as far as the states tell it apart.
Class(c) == IF c \in Letters THEN "a" ELSE c

VARIABLES
  html, budget,
  ahead,          \* Lookahead, with its position
  parser,         \* the tokenizer, the gate and the meter
  parsed, given,  \* as parse keeps them
  cut,            \* cut_at
  phase           \* "loop", "end" or "done"

pageBudget == <<html, budget, ahead, parser, parsed, given, cut, phase>>

-----------------------------------------------------------------------------
\* The states that depend on the character alone: the characters that lead from each to another,
\* where any other leads, and whether that one is read again there.
To(on, other, again) == [on |-> on, other |-> other, again |-> again]

TagMoves ==
  [Data |-> To({<<"<", "TagOpen">>}, "Data", FALSE),
   Plaintext |-> To({}, "Plaintext", FALSE),
   TagOpen |->
     To({<<"!", "MarkupDeclarationOpen">>, <<"/", "EndTagOpen">>, <<"?", "BogusComment">>,
         <<"a", "TagName">>},
        "Data", TRUE),
   EndTagOpen |-> To({<<">", "Data">>, <<"a", "TagName">>}, "BogusComment", TRUE),
   TagName |->
     To({<<"W", "BeforeAttributeName">>, <<"/", "SelfClosingStartTag">>, <<">", "Emit">>},
        "TagName", FALSE),
   BeforeAttributeName |->
     To({<<"W", "BeforeAttributeName">>, <<"/", "SelfClosingStartTag">>, <<">", "Emit">>},
        "AttributeName", FALSE),
   AttributeName |->
     To({<<"W", "AfterAttributeName">>, <<"/", "SelfClosingStartTag">>,
         <<"=", "BeforeAttributeValue">>, <<">", "Emit">>},
        "AttributeName", FALSE),
   AfterAttributeName |->
     To({<<"W", "AfterAttributeName">>, <<"/", "SelfClosingStartTag">>,
         <<"=", "BeforeAttributeValue">>, <<">", "Emit">>},
        "AttributeName", FALSE),
   BeforeAttributeValue |->
     To({<<"W", "BeforeAttributeValue">>, <<"Q", "DoubleQuoted">>, <<"'", "SingleQuoted">>,
         <<">", "Emit">>},
        "Unquoted", TRUE),
   DoubleQuoted |-> To({<<"Q", "AfterAttributeValueQuoted">>}, "DoubleQuoted", FALSE),
   SingleQuoted |-> To({<<"'", "AfterAttributeValueQuoted">>}, "SingleQuoted", FALSE),
   Unquoted |-> To({<<"W", "BeforeAttributeName">>, <<">", "Emit">>}, "Unquoted", FALSE),
   AfterAttributeValueQuoted |->
     To({<<"W", "BeforeAttributeName">>, <<"/", "SelfClosingStartTag">>, <<">", "Emit">>},
        "BeforeAttributeName", TRUE),
   SelfClosingStartTag |-> To({<<">", "Emit">>}, "BeforeAttributeName", TRUE)]

CommentMoves ==
  [CommentStart |-> To({<<"-", "CommentStartDash">>, <<">", "Data">>}, "Comment", FALSE),
   CommentStartDash |-> To({<<"-", "CommentEnd">>, <<">", "Data">>}, "Comment", FALSE),
   Comment |-> To({<<"<", "CommentLessThanSign">>, <<"-", "CommentEndDash">>},
                  "Comment", FALSE),
   CommentLessThanSign |->
     To({<<"!", "CommentLessThanSignBang">>, <<"<", "CommentLessThanSign">>}, "Comment", TRUE),
   CommentLessThanSignBang |-> To({<<"-", "CommentLessThanSignBangDash">>}, "Comment", TRUE),
   CommentLessThanSignBangDash |-> To({<<"-", "CommentLessThanSignBangDashDash">>},
                                      "CommentEndDash", TRUE),
   CommentLessThanSignBangDashDash |-> To({}, "CommentEnd", TRUE),
   CommentEndDash |-> To({<<"-", "CommentEnd">>}, "Comment", FALSE),
   CommentEnd |-> To({<<">", "Data">>, <<"!", "CommentEndBang">>, <<"-", "CommentEnd">>},
                     "Comment", TRUE),
   CommentEndBang |-> To({<<"-", "CommentEndDash">>, <<">", "Data">>}, "Comment", FALSE),
   BogusComment |-> To({<<">", "Data">>}, "BogusComment", FALSE),
   Doctype |-> To({<<">", "Data">>}, "Doctype", FALSE),
   CdataSection |-> To({<<"]", "CdataSectionBracket">>}, "CdataSection", FALSE),
   CdataSectionBracket |-> To({<<"]", "CdataSectionEnd">>}, "CdataSection", TRUE),
   CdataSectionEnd |-> To({<<"]", "CdataSectionEnd">>, <<">", "Data">>}, "CdataSection", TRUE)]

ScriptMoves ==
  [RawEndTagOpen |-> To({<<"a", "RawEndTagName">>}, "Raw", TRUE),
   ScriptDataEscapeStart |-> To({<<"-", "ScriptDataEscapeStartDash">>}, "Raw", TRUE),
   ScriptDataEscapeStartDash |-> To({<<"-", "ScriptDataEscapedDashDash">>}, "Raw", TRUE),
   ScriptDataEscapedDash |->
     To({<<"-", "ScriptDataEscapedDashDash">>, <<"<", "RawLessThanSign">>}, "Raw", FALSE),
   ScriptDataEscapedDashDash |->
     To({<<"-", "ScriptDataEscapedDashDash">>, <<"<", "RawLessThanSign">>}, "Raw", FALSE)]

\* appropriate: the end tag that closes raw text.
Appropriate(la) == la.isEnd /\ la.name = la.last

\* Raw text, and the states that look at more than the character.
RawMove(la, following) ==
  CASE la.state = "Raw" ->
         To({<<"<", "RawLessThanSign">>}
              \cup (IF la.raw \in {"escaped", "double"} THEN {<<"-", "ScriptDataEscapedDash">>}
                    ELSE {}), "Raw", FALSE)
    [] la.state = "RawLessThanSign" ->
         To((IF la.raw = "double" THEN {<<"/", "ScriptDataDoubleEscapeEnd">>}
             ELSE {<<"/", "RawEndTagOpen">>})
              \cup (IF la.raw = "escaped" THEN {<<"a", "ScriptDataDoubleEscapeStart">>} ELSE {})
              \cup (IF la.raw = "script" THEN {<<"!", "ScriptDataEscapeStart">>} ELSE {}),
            "Raw", TRUE)
    [] la.state = "RawEndTagName" ->
         To((IF Appropriate(la)
             THEN {<<"W", "BeforeAttributeName">>, <<"/", "SelfClosingStartTag">>, <<">", "Emit">>}
             ELSE {}) \cup {<<"a", "RawEndTagName">>}, "Raw", TRUE)
    [] la.state \in {"ScriptDataDoubleEscapeStart", "ScriptDataDoubleEscapeEnd"} ->
         To({<<"W", "Raw">>, <<"/", "Raw">>, <<">", "Raw">>, <<"a", la.state>>}, "Raw", TRUE)
    [] la.state = "MarkupDeclarationOpen" ->
         To((IF following = "-" THEN {<<"-", "CommentStart">>} ELSE {}) \cup {<<"D", "Doctype">>}
              \cup (IF la.foreign THEN {<<"C", "CdataSection">>} ELSE {}), "BogusComment", TRUE)

Move(la, following) ==
  CASE la.state \in DOMAIN TagMoves -> TagMoves[la.state]
    [] la.state \in DOMAIN CommentMoves -> CommentMoves[la.state]
    [] la.state \in DOMAIN ScriptMoves -> ScriptMoves[la.state]
    [] OTHER -> RawMove(la, following)

\* reading_a_tag.
ReadingATag(state) ==
  state \in {"TagOpen", "EndTagOpen", "TagName", "BeforeAttributeName", "AttributeName",
             "AfterAttributeName", "BeforeAttributeValue", "DoubleQuoted", "SingleQuoted",
             "Unquoted", "AfterAttributeValueQuoted", "SelfClosingStartTag", "RawLessThanSign",
             "RawEndTagOpen", "RawEndTagName", "Emit"}

\* begin_tag, begin_attribute, the name and the temporary buffer: what reading c in la, on the
\* way to a state, leaves.
Scribbled(la, c, to) ==
  CASE to \in {"TagName", "RawEndTagName"} /\ la.state # to ->
         [la EXCEPT !.name = <<c>>, !.isEnd = (la.state # "TagOpen"), !.attributes = 0]
    [] to \in {"TagName", "RawEndTagName"} /\ la.state = to -> [la EXCEPT !.name = Append(@, c)]
    [] to = "AttributeName" /\ la.state # to -> [la EXCEPT !.attributes = @ + 1]
    [] to = "ScriptDataDoubleEscapeEnd" /\ la.state # to -> [la EXCEPT !.temp = <<>>]
    [] to = "ScriptDataDoubleEscapeStart" /\ la.state # to -> [la EXCEPT !.temp = <<c>>]
    [] to \in {"ScriptDataDoubleEscapeStart", "ScriptDataDoubleEscapeEnd"} /\ la.state = to ->
         [la EXCEPT !.temp = Append(@, c)]
    [] OTHER -> la

\* The kind of raw text that comes after.
RawAfter(la, c, to) ==
  CASE la.state = "ScriptDataEscapeStartDash" /\ c = "-" -> "escaped"
    [] la.state = "ScriptDataEscapedDashDash" /\ c = ">" -> "script"
    [] la.state = "ScriptDataDoubleEscapeStart" /\ to = "Raw" /\ c \in {"W", "/", ">"} ->
         IF la.temp = <<"s">> THEN "double" ELSE "escaped"
    [] la.state = "ScriptDataDoubleEscapeEnd" /\ to = "Raw" /\ c \in {"W", "/", ">"} ->
         IF la.temp = <<"s">> THEN "escaped" ELSE "double"
    [] OTHER -> la.raw

\* The state that a character leads to.
LedTo(la, c, at, to) ==
  [Scribbled(la, c, to) EXCEPT
     !.state = to, !.raw = RawAfter(la, c, to),
     !.start = IF c = "<" /\ to \in {"TagOpen", "RawLessThanSign"} THEN at
               ELSE IF ReadingATag(to) THEN @ ELSE Nowhere]

\* Where a character leads to.
Leads(move, c) ==
  IF \E way \in move.on : way[1] = Class(c)
  THEN (CHOOSE way \in move.on : way[1] = Class(c))[2] ELSE move.other

\* A state reads the character, or leaves it to the state it leads to.
ReadOnce(r, c, at, following) ==
  LET move == Move(r.la, following) IN
  IF r.again THEN [la |-> LedTo(r.la, c, at, Leads(move, c)),
                   again |-> move.again /\ \A way \in move.on : way[1] # Class(c)]
  ELSE r

\* One character, at a place, until no state reads it again: the third never does.
Reads(la, c, at, following) ==
  LET Once(r) == ReadOnce(r, c, at, following)
  IN Once(Once(Once([la |-> la, again |-> TRUE]))).la

\* Lookahead::new, and the tokenizer as it begins.
NewReader == [state |-> "Data", raw |-> "rcdata", start |-> Nowhere, isEnd |-> FALSE,
              attributes |-> 0, name |-> <<>>, last |-> <<>>, temp |-> <<>>, foreign |-> FALSE]

\* emit.
Emitted(la) == [la EXCEPT !.state = "Data", !.start = Nowhere, !.attributes = 0,
                          !.last = IF la.isEnd THEN la.last ELSE la.name]

CharAt(page, i) == IF i < Len(page) THEN page[i + 1] ELSE "end"

\* A character is read, unless the dashes of a comment's opening were taken together before.
ScanOn(r, at, limit) ==
  IF r.scan # "on" \/ at < r.at THEN r
  ELSE IF at >= limit THEN [r EXCEPT !.scan = "limit"]
  ELSE LET la == Reads(r.la, CharAt(html, at), at, CharAt(html, at + 1)) IN
       [scan |-> IF la.state = "Emit" THEN "tag" ELSE "on", la |-> la,
        at |-> at + (IF la.state = "CommentStart" THEN 2 ELSE 1)]

ScanFrom(la, at, limit) ==
  FoldLeft(LAMBDA r, i : ScanOn(r, at + i - 1, limit), [scan |-> "on", la |-> la, at |-> at],
           [i \in 1 .. (Len(html) - at) |-> i])

\* next_tag: to the end of a tag, of the page, or of what may be read.
NextTag(la, at, limit) ==
  LET r == ScanFrom(la, at, limit) IN IF r.scan = "on" THEN [r EXCEPT !.scan = "end"] ELSE r

-----------------------------------------------------------------------------
\* Meter.
Spent(p) == p.refused \/ p.charged > budget

Remaining(p) ==
  IF p.refused \/ p.charged > budget THEN 0 ELSE budget - p.charged

Charge(p, units) == [p EXCEPT !.charged = @ + units]

Afford(p, units) ==
  IF p.refused \/ p.charged + units > budget THEN [p EXCEPT !.refused = TRUE]
  ELSE Charge(p, units)

\* attribute_cost.
AttributeCost(n) == (n * (IF n = 0 THEN 0 ELSE n - 1)) \div 2 + n

\* Gate::process_token: a token the budget allows goes to the tree builder, whose changes of
\* the tree are charged as they are made (Metered); any other goes nowhere.
Process(p, at, attributes, walk) ==
  LET paid == Afford(p, 1 + p.held + attributes) IN
  IF Spent(p) \/ paid.refused
  THEN [paid EXCEPT !.refused = IF Spent(p) THEN p.refused ELSE TRUE,
                    !.dropped = IF @ < at THEN @ ELSE at, !.given = FALSE]
  ELSE [Charge(paid, 1 + attributes + walk) EXCEPT !.given = TRUE]

\* The tree builder, told of a tag: what is open, and the state it leaves the tokenizer in.
\* Between "t" and its end everything is foreign.
Built(p) ==
  LET la == p.reader
      name == Head(la.name)
  IN [p EXCEPT !.held = IF la.isEnd THEN (IF @ = 0 THEN 0 ELSE @ - 1) ELSE @ + 1,
               !.reader = [Emitted(la) EXCEPT
                  !.foreign = IF name = "t" THEN ~la.isEnd ELSE @,
                  !.raw = IF name = "s" THEN "script" ELSE @,
                  !.state = CASE name = "s" /\ ~la.isEnd -> "Raw"
                              [] name = "p" /\ ~la.isEnd -> "Plaintext"
                              [] OTHER -> "Data"],
               !.follow = TRUE]

\* The tokenizer, and what it tells the gate of, after a character.
Took(p, read, at, walk) ==
  LET was == p.reader.state
      q == [p EXCEPT !.reader = read, !.skip = (read.state = "CommentStart"),
                     !.unpaid = @ \/ read.attributes > p.allowed]
      text == was = read.state /\ was \in {"Data", "Raw", "Plaintext"}
  IN IF read.state = "Emit"
     THEN LET done == Process(q, at, read.attributes, walk) IN
          [(IF done.given THEN Built(done) ELSE [done EXCEPT !.reader = Emitted(read)])
             EXCEPT !.text = FALSE]
     ELSE IF text /\ ~p.text THEN [Process(q, at, 0, walk) EXCEPT !.text = TRUE]
     ELSE IF was \in DOMAIN CommentMoves /\ read.state = "Data"
     THEN [Process(q, at, 0, walk) EXCEPT !.text = FALSE]
     ELSE [q EXCEPT !.text = text]

\* The tokenizer reads a character of what it was given.
Tokenized(p, at, walk) ==
  IF p.skip THEN [p EXCEPT !.skip = FALSE]
  ELSE Took(p, Reads(p.reader, CharAt(html, at), at, CharAt(html, at + 1)), at, walk)

\* feed, of the characters from one place up to another.
Feed(p, from, upto, walk) ==
  FoldLeft(LAMBDA q, i : Tokenized(q, from + i - 1, walk), [p EXCEPT !.text = FALSE],
           [i \in 1 .. (IF upto > from THEN upto - from ELSE 0) |-> i])

-----------------------------------------------------------------------------
BudgetInit ==
  /\ html \in Pages /\ budget \in Budgets /\ ahead = [la |-> NewReader, at |-> 0]
  /\ parser = [reader |-> NewReader, charged |-> 0, refused |-> FALSE, held |-> 0,
               given |-> FALSE, follow |-> FALSE, text |-> FALSE, skip |-> FALSE,
               allowed |-> 0, unpaid |-> FALSE, dropped |-> Nowhere]
  /\ parsed = 0 /\ given = 0 /\ cut = Nowhere /\ phase = "loop"

\* The end of what was read.
StopAnywhere(scan) == scan.at

\* Where a limit stops: not into a tag that began before it.
StopAt(scan) == IF scan.la.start = Nowhere THEN scan.at ELSE scan.la.start

\* What was given.
CutAtGiven(p, to) == to

\* cut_at: nothing is said to be parsed that the gate may have refused.
CutAt(p, to) == IF Spent(p) THEN parsed ELSE to

\* Where what is before a tag, or before a limit, ends.
Start(scan) ==
  IF scan.scan = "limit" THEN StopAt(scan)
  ELSE IF scan.la.start = Nowhere THEN Len(html) ELSE scan.la.start

\* The meter, charged with the lookahead.
Looked(scan) == [Charge(parser, scan.at - ahead.at) EXCEPT !.follow = FALSE, !.allowed = 0]

\* One turn of parse's loop: the lookahead, what is before the tag, and the tag if its
\* attributes can be paid.
Turn ==
  /\ phase = "loop" /\ UNCHANGED <<html, budget>>
  /\ \E walk \in Walks :
     \E scan \in {NextTag([ahead.la EXCEPT !.foreign = parser.reader.foreign],
                          ahead.at, ahead.at + Remaining(parser))} :
     \E start \in {Start(scan)} :
     \E before \in {Feed(Looked(scan), given, start, walk)} :
     \E afforded \in {Afford(before, AttributeCost(scan.la.attributes))} :
     \E tag \in {Feed([afforded EXCEPT !.allowed = scan.la.attributes],
                      start, scan.at, walk)} :
          CASE scan.scan = "limit" ->
                 /\ parser' = before /\ given' = start /\ cut' = CutAt(before, start)
                 /\ ahead' = [la |-> scan.la, at |-> scan.at]
                 /\ phase' = "end" /\ UNCHANGED parsed
            [] scan.scan # "limit" /\ (Spent(before) \/ afforded.refused) ->
                 /\ parser' = IF Spent(before) THEN before ELSE afforded
                 /\ ahead' = [la |-> scan.la, at |-> scan.at]
                 /\ given' = start /\ cut' = CutAt(before, start) /\ phase' = "end"
                 /\ parsed' = IF Spent(before) THEN parsed ELSE start
            [] OTHER ->
                 /\ parser' = tag /\ given' = scan.at
                 /\ cut' = IF Spent(tag) THEN start ELSE Nowhere
                 /\ parsed' = IF Spent(tag) THEN start ELSE scan.at
                 /\ phase' = IF Spent(tag) \/ scan.scan = "end" THEN "end" ELSE "loop"
                 /\ ahead' = [at |-> scan.at,
                              la |-> IF scan.scan = "end" THEN scan.la
                                     ELSE [Emitted(scan.la) EXCEPT   \* follow
                                             !.state = tag.reader.state, !.raw = tag.reader.raw]]

\* The tokens the tokenizer still holds back where the input ends: an unfinished comment,
\* doctype or CDATA section, and the characters that might have begun something.  A tag that
\* never ends is not one of them.
Pending(la) ==
  CASE la.state \in {"RawEndTagName", "CdataSectionEnd"} -> 3
    [] la.state \in {"EndTagOpen", "RawEndTagOpen", "CdataSectionBracket"} -> 2
    [] \/ la.state \in DOMAIN CommentMoves \ {"CdataSectionBracket", "CdataSectionEnd"}
       \/ la.state \in {"MarkupDeclarationOpen", "TagOpen"}
       \/ la.state = "RawLessThanSign" /\ la.raw # "double" -> 1
    [] OTHER -> 0

\* The gate, told of those that are left, one after another: it may refuse them.
Flushed(p, at, walk) ==
  LET Told(q, n) == IF Pending(p.reader) < n THEN q ELSE Process(q, at, 0, walk)
  IN Told(Told(Told(p, 1), 2), 3)

\* The end of the input itself is always given, and closes what is open.
EndGiven(p) == Charge(p, 1 + p.held)

\* tokenizer.end.
AtEnd ==
  /\ phase = "end" /\ phase' = "done"
  /\ \E walk \in Walks : parser' = EndGiven(Flushed(parser, given, walk))
  /\ UNCHANGED <<html, budget, ahead, parsed, given, cut>>

BudgetNext == Turn \/ AtEnd

-----------------------------------------------------------------------------
\* The tokenizer never compares an attribute that was not paid for: whatever comments, raw
\* text or unfinished tags a page is made of, and wherever its budget ends, each tag it is
\* given was found first, with every attribute it has.
AttributesPaid == ~parser.unpaid

\* What a page says of where it was cut is so: up to there, every token was taken; of a page
\* that is not cut, nothing was refused but what the tokenizer held back to the very end; and
\* the work goes past the budget by no more than the tree work of a single token, and the end.
CutHonest ==
  /\ parsed <= given /\ given <= Len(html)
  /\ phase # "loop" /\ cut # Nowhere => cut <= given /\ cut <= parser.dropped
  /\ phase # "loop" /\ cut = Nowhere => given = Len(html) /\ Len(html) <= parser.dropped
  /\ \E walk \in Walks : parser.charged <= budget + 2 + parser.held + Len(html) + walk

\* "When the budget is spent, the rest of the page is not parsed: the Document says so"
\* (budget.rs:33): a page that says nothing of a cut was taken whole.
SaysItWasCut == phase = "done" /\ cut = Nowhere => parser.dropped = Nowhere

BudgetSpec == BudgetInit /\ [][BudgetNext]_pageBudget
=============================================================================
