------------------------------- MODULE Ranges -------------------------------
(***************************************************************************)
(* A body that arrives in ranges and is asked for in ranges.               *)
(* crates/syndeo-cache/src/range.rs, and store_partial, wanted_bytes,      *)
(* read_span and materialize of cache.rs.  Only one entry is followed;     *)
(* files, references and threads are CacheStore's.                         *)
(*                                                                         *)
(* A byte is the representation it belongs to and its place in it, so that *)
(* two representations are never mistaken for one another.  Numbers are    *)
(* kept to Word values, as the code keeps them to 64 bits.                 *)
(***************************************************************************)
EXTENDS Naturals, SequencesExt

CONSTANTS
  Reps,          \* what the origin serves at the address, over time
  Length,        \* how long each is
  Tag,           \* the strong entity tag of each, "weak" or "none"
  Modified,      \* when each was last modified, or Unsaid
  Word,          \* how many values a number has
  RangeHeaders,  \* the Range fields that requests carry
  Unsaid

\* A strong tag names one representation, and so does a date: representations made within one
\* second of each other are outside this model.
ASSUME RepsAssumption ==
  /\ Word \in Nat /\ \A r \in Reps : Length[r] \in 1 .. (Word - 1)
  /\ \A header \in RangeHeaders : header \in Seq([kind : {"range", "garbled", "empty"},
                                                  start : Nat \cup {Unsaid}, end : Nat \cup {Unsaid}])
  /\ Unsaid \notin Nat \cup RangeHeaders
  /\ Unsaid \notin [first : 0 .. Word, last : 0 .. Word]
  /\ Unsaid \notin [first : 0 .. Word, last : 0 .. Word, status : {200, 206}]
  /\ \A r, s \in Reps : Tag[r] = Tag[s] /\ Tag[r] \notin {"weak", "none"} => r = s
  /\ \A r, s \in Reps : Modified[r] = Modified[s] /\ Modified[r] # Unsaid => r = s

VARIABLE partial  \* the entry: its headers, its length where that is known, and its runs

NoPartial == [tag |-> "none", modified |-> Unsaid, total |-> Unsaid, whole |-> FALSE,
              segments |-> <<>>]

Whole(r) == [i \in 1 .. Length[r] |-> <<r, i - 1>>]

Least(a, b) == IF a < b THEN a ELSE b
Most(a, b) == IF a < b THEN b ELSE a

-----------------------------------------------------------------------------
\* parse_range: each part is empty, not a range, or two numbers of which one may be left out;
\* anything malformed undoes the whole field.
Malformed(part) ==
  \/ part.kind = "garbled"
  \/ part.start = Unsaid /\ part.end \in {Unsaid, 0}
  \/ part.start # Unsaid /\ part.end # Unsaid /\ part.end < part.start

Keep(said, part) == IF part.kind = "empty" THEN said ELSE Append(said, part)

Said(parts) == FoldLeft(Keep, <<>>, parts)

ParseRange(parts) ==
  LET said == Said(parts) IN
  IF said = <<>> \/ \E i \in DOMAIN said : Malformed(said[i]) THEN Unsaid ELSE said

\* resolve: the first and the last byte a part means, of so many.
Resolve(part, total) ==
  CASE total = 0 -> Unsaid
    [] total > 0 /\ part.start = Unsaid ->
         [first |-> total - Least(part.end, total), last |-> total - 1]
    [] total > 0 /\ part.start # Unsaid ->
         IF part.start >= total THEN Unsaid
         ELSE [first |-> part.start,
               last |-> IF part.end = Unsaid THEN total - 1 ELSE Least(part.end, total - 1)]

\* len and half_open, which may pass the last number there is.
RangeLen(r) == (r.last - r.first + 1) % Word
HalfOpen(r) == <<r.first, (r.last + 1) % Word>>

\* if_range_matches.
IfRangeMatches(condition, entry) ==
  IF condition.kind = "date" THEN entry.modified = condition.is
  ELSE condition.is \notin {"weak", "none"} /\ entry.tag = condition.is

-----------------------------------------------------------------------------
\* sort_unstable: each span goes after those before it, in the order of pairs.
Before(s, t) == s[1] < t[1] \/ (s[1] = t[1] /\ s[2] < t[2])

PlaceSpan(sorted, s) ==
  InsertAt(sorted, Cardinality({i \in DOMAIN sorted : Before(sorted[i], s)}) + 1, s)

SortedSpans(spans) == FoldLeft(PlaceSpan, <<>>, spans)

\* sort_by_key, by where a segment starts.
PlaceSegment(sorted, s) ==
  InsertAt(sorted, Cardinality({i \in DOMAIN sorted : sorted[i].start <= s.start}) + 1, s)

SortedSegments(segments) == FoldLeft(PlaceSegment, <<>>, segments)

\* Coverage: runs that end before the next begins.
MergeApart(runs, s) ==
  IF runs # <<>> /\ s[1] < runs[Len(runs)][2]
  THEN [runs EXCEPT ![Len(runs)][2] = Most(@, s[2])]
  ELSE Append(runs, s)

Merge(runs, s) ==
  IF runs # <<>> /\ s[1] <= runs[Len(runs)][2]
  THEN [runs EXCEPT ![Len(runs)][2] = Most(@, s[2])]
  ELSE Append(runs, s)

Merged(spans) == FoldLeft(Merge, <<>>, spans)

Normalize(spans) == Merged(SortedSpans(spans))

Covers(runs, from, to) ==
  to <= from \/ \E i \in DOMAIN runs : runs[i][1] <= from /\ runs[i][2] >= to

\* missing: what the runs leave of a span.
Leave(walked, s, to) ==
  IF s[2] <= walked.cursor \/ s[1] >= to \/ walked.cursor >= to THEN walked
  ELSE [out |-> IF s[1] > walked.cursor
                THEN Append(walked.out, <<walked.cursor, Least(s[1], to)>>) ELSE walked.out,
        cursor |-> Most(walked.cursor, s[2])]

Walk(runs, from, to) ==
  FoldLeft(LAMBDA w, s : Leave(w, s, to), [out |-> <<>>, cursor |-> from], runs)

Missing(runs, from, to) ==
  LET walked == Walk(runs, from, to) IN
  IF walked.cursor < to THEN Append(walked.out, <<walked.cursor, to>>) ELSE walked.out

Spans(entry) == [i \in DOMAIN entry.segments |-> <<entry.segments[i].start, entry.segments[i].end>>]

Coverage(entry) == Normalize(Spans(entry))

\* read_span, of what is said to be covered.
ReadOn(r, s, to) ==
  IF s.end <= r.cursor \/ s.start > r.cursor \/ r.cursor >= to THEN r
  ELSE [cursor |-> Least(to, s.end),
        bytes |-> r.bytes \o SubSeq(s.bytes, r.cursor - s.start + 1, Least(to, s.end) - s.start)]

ReadAll(segments, from, to) ==
  FoldLeft(LAMBDA r, s : ReadOn(r, s, to), [cursor |-> from, bytes |-> <<>>], segments)

ReadSpan(entry, from, to) == ReadAll(entry.segments, from, to)

-----------------------------------------------------------------------------
RangesInit == partial = NoPartial

\* same_representation, without a look at whether a tag is strong.
SameTag(entry, r) ==
  IF entry.tag # "none" /\ Tag[r] # "none" THEN entry.tag = Tag[r]
  ELSE entry.modified # Unsaid /\ entry.modified = Modified[r]

\* same_representation: one strong tag, or one date.
SameRepresentation(entry, r) ==
  IF {entry.tag, Tag[r]} \cap {"weak", "none"} = {} THEN entry.tag = Tag[r]
  ELSE entry.modified # Unsaid /\ entry.modified = Modified[r]

\* store_partial: slices of what arrived are put where a byte was missing, and once none is,
\* the whole becomes one segment.
Filled(entry, range, body) ==
  LET gaps == Missing(Coverage(entry), range.first, HalfOpen(range)[2])
      slice(g) == [start |-> g[1], end |-> g[2],
                   bytes |-> SubSeq(body, g[1] - range.first + 1, g[2] - range.first)]
  IN SortedSegments(entry.segments \o [i \in DOMAIN gaps |-> slice(gaps[i])])

Completed(entry) ==
  IF entry.total # Unsaid /\ Covers(Coverage(entry), 0, entry.total)
  THEN [entry EXCEPT !.whole = TRUE,
          !.segments = <<[start |-> 0, end |-> entry.total,
                          bytes |-> ReadSpan(entry, 0, entry.total).bytes]>>]
  ELSE entry

\* store_partial: a 206 with the bytes of a range, or with fewer when it was cut short, and with
\* or without the length of the whole.
StorePartialRange ==
  \E r \in Reps, first \in 0 .. (Word - 1), last \in 0 .. (Word - 1), sent \in 0 .. Word,
     total \in {Unsaid} \cup {Length[s] : s \in Reps} :
    LET range == [first |-> first, last |-> last]
        body == SubSeq(Whole(r), first + 1, first + sent)
        entry == IF SameRepresentation(partial, r) THEN partial ELSE NoPartial
    IN /\ last >= first /\ first + sent <= Length[r]
       /\ total # Unsaid => total = Length[r] /\ last < total
       /\ RangeLen(range) = sent
       /\ partial' = IF entry.whole THEN partial
                     ELSE Completed([tag |-> Tag[r], modified |-> Modified[r],
                                     total |-> IF total = Unsaid THEN entry.total ELSE total,
                                     whole |-> FALSE, segments |-> Filled(entry, range, body)])

\* store, of a whole body.
StoreWhole ==
  \E r \in Reps :
    partial' = [tag |-> Tag[r], modified |-> Modified[r], total |-> Length[r], whole |-> TRUE,
                segments |-> <<[start |-> 0, end |-> Length[r], bytes |-> Whole(r)]>>]

RangesNext == StorePartialRange \/ StoreWhole

RangesSpec == RangesInit /\ [][RangesNext]_partial

-----------------------------------------------------------------------------
\* wanted_bytes: a range, the whole, or nothing.
Wanted(request) ==
  LET specs == IF request.range = Unsaid THEN Unsaid ELSE ParseRange(request.range)
      whole == IF partial.whole THEN [first |-> 0, last |-> partial.total - 1, status |-> 200]
               ELSE Unsaid
      resolved == Resolve(specs[1], partial.total)
      span == HalfOpen(resolved)
  IN CASE request.range = Unsaid -> whole
       [] request.range # Unsaid /\ request.ifRange # Unsaid
            /\ ~IfRangeMatches(request.ifRange, partial) -> Unsaid
       [] OTHER ->
            IF specs = Unsaid THEN whole
            ELSE IF Len(specs) > 1 \/ partial.total = Unsaid THEN Unsaid
            ELSE IF resolved = Unsaid THEN whole
            ELSE IF Covers(Coverage(partial), span[1], span[2])
            THEN [first |-> resolved.first, last |-> resolved.last, status |-> 206]
            ELSE Unsaid

\* materialize: the bytes, with what is said of them.
Materialize(request) ==
  LET wanted == Wanted(request) IN
  [wanted |-> wanted, tag |-> partial.tag, total |-> partial.total,
   bytes |-> IF wanted = Unsaid THEN <<>>
             ELSE ReadSpan(partial, wanted.first, wanted.last + 1).bytes]

RangeRequests ==
  [range : {Unsaid} \cup RangeHeaders,
   ifRange : {Unsaid} \cup [kind : {"tag"}, is : {Tag[r] : r \in Reps}]
               \cup [kind : {"date"}, is : {Modified[r] : r \in Reps} \ {Unsaid}]]

\* What a range means of so many bytes, taken from RFC 9110 and not from the code.
Meant(part, total) ==
  {i \in 0 .. (total - 1) :
     IF part.start = Unsaid THEN i + part.end >= total
     ELSE i >= part.start /\ (part.end = Unsaid \/ i <= part.end)}

\* A range is answered with the bytes it means and no other, all of one representation, with the
\* place and the length that Content-Range gives them, and only to a client that asked for that
\* representation if it named one: whatever ranges arrived before, in whatever order, cut short,
\* overlapping, of which representation and at the last number there is.
RangeIsExact ==
  partial # NoPartial => \A request \in RangeRequests :
    LET a == Materialize(request) IN
    a.wanted # Unsaid =>
      \E r \in Reps :
        /\ Tag[r] = a.tag /\ Length[r] = a.total
        /\ a.bytes = SubSeq(Whole(r), a.wanted.first + 1, a.wanted.last + 1)
        /\ a.wanted.status = 200 => a.bytes = Whole(r)
        /\ a.wanted.status = 206 =>
             /\ a.wanted.first .. a.wanted.last = Meant(ParseRange(request.range)[1], Length[r])
             /\ request.ifRange # Unsaid =>
                  request.ifRange.is = IF request.ifRange.kind = "date" THEN Modified[r] ELSE Tag[r]

\* What is held is served: a range whose every byte has arrived is answered from the store, and
\* an entry that has them all is whole, wherever the ranges that brought them met.
HeldIsServed ==
  LET held == UNION {partial.segments[i].start .. (partial.segments[i].end - 1) :
                       i \in DOMAIN partial.segments}
  IN partial.total # Unsaid =>
       /\ 0 .. (partial.total - 1) \subseteq held => partial.whole
       /\ \A header \in RangeHeaders :
            LET meant == Meant(header[1], partial.total) IN
            /\ Len(header) = 1 /\ ParseRange(header) # Unsaid
            /\ meant # {} /\ meant \subseteq held
            => Wanted([range |-> header, ifRange |-> Unsaid]) # Unsaid
=============================================================================
