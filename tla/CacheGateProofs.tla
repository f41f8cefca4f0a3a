---------------------------- MODULE CacheGateProofs ----------------------------
(***************************************************************************)
(* The blob gate.  As long as files do not rot, every blob record has its  *)
(* file, for any number of threads and whatever calls overlap; with exact  *)
(* counts, every entry can be read, calls leave nothing behind them, and a *)
(* clear erases everything.  And a whole record is of the body it names.   *)
(***************************************************************************)
EXTENDS CacheStoreProofs

\* Where the gate is held, and how.
SharingSteps == {"write", "slice", "join", "whole", "digest", "commit", "grant"}
ExcludingSteps == {"forget", "unlink", "wipe"}

GateHeld ==
  /\ sharing = {p \in Threads : at[p] \in SharingSteps}
  /\ excluding = {p \in Threads : at[p] \in ExcludingSteps}
  /\ excluding # {} => sharing = {}
  /\ \A p, q \in excluding : p = q

NothingRots ==
  /\ \A c \in Contents : disk[c] # "corrupt"
  /\ \A p \in Threads : at[p] # "condemn"

\* A store has on disk what it put, but for what it is about to write.
PutSteps == {"write", "slice", "join", "whole", "digest", "commit"}

PutsOnDisk ==
  \A p \in Threads : at[p] \in PutSteps =>
    \A c \in loc[p].put :
      disk[c] = "whole" \/ (c = loc[p].hand /\ at[p] \in {"write", "slice", "whole"})

\* A file goes only after its row.
RowsGoFirst ==
  \A p \in Threads :
    /\ at[p] = "unlink" => blobs[loc[p].gone] = NoRow
    /\ at[p] = "wipe" => \A c \in Contents : blobs[c] = NoRow

\* No call holds the gate, or condemns, by the step it goes on to later.
Held == SharingSteps \cup ExcludingSteps
Free == Steps \ (Held \cup {"condemn"})

ThenFree == \A p \in Threads : loc[p].then \in Free

GateInv ==
  GateHeld /\ NothingRots /\ PutsOnDisk /\ RowsGoFirst /\ RowsHaveFiles /\ ThenFree

(***************************************************************************)
(* One thread moves on.                                                    *)
(***************************************************************************)

\* What a step does with the gate.
GateStep(p, step) ==
  \/ /\ GateKept
     /\ at[p] \in SharingSteps <=> step \in SharingSteps
     /\ at[p] \in ExcludingSteps <=> step \in ExcludingSteps
  \/ CanShare /\ Share(p) /\ step \in SharingSteps
  \/ Unshare(p) /\ step \notin Held /\ at[p] \notin ExcludingSteps
  \/ CanExclude /\ Exclude(p) /\ step \in ExcludingSteps
  \/ excluding' = excluding \ {p} /\ UNCHANGED sharing /\ step \notin Held /\ at[p] \notin SharingSteps

\* A step that moves a thread and its holds together keeps the gate's record of
\* who holds it (cache.rs:199-201).
LEMMA GateHeldNext ==
  ASSUME Typed, GateHeld, NEW p \in Threads, NEW step \in Steps,
         at' = [at EXCEPT ![p] = step], GateStep(p, step)
  PROVE  GateHeld'
<1>0. \A q \in Threads : at'[q] = IF q = p THEN step ELSE at[q]
  BY DEF Typed, ThreadsOK
<1>s. SharingSteps \cap ExcludingSteps = {}
  BY DEF SharingSteps, ExcludingSteps
<1>1. CASE /\ GateKept
           /\ at[p] \in SharingSteps <=> step \in SharingSteps
           /\ at[p] \in ExcludingSteps <=> step \in ExcludingSteps
  BY <1>0, <1>1 DEF GateHeld, GateKept
<1>2. CASE CanShare /\ Share(p) /\ step \in SharingSteps
  BY <1>0, <1>s, <1>2 DEF GateHeld, CanShare, Share
<1>3. CASE Unshare(p) /\ step \notin Held /\ at[p] \notin ExcludingSteps
  BY <1>0, <1>3 DEF GateHeld, Unshare, Held
<1>4. CASE CanExclude /\ Exclude(p) /\ step \in ExcludingSteps
  BY <1>0, <1>s, <1>4 DEF GateHeld, CanExclude, Exclude
<1>5. CASE excluding' = excluding \ {p} /\ UNCHANGED sharing /\ step \notin Held /\ at[p] \notin SharingSteps
  BY <1>0, <1>5 DEF GateHeld, Held
<1> QED
  BY <1>1, <1>2, <1>3, <1>4, <1>5 DEF GateStep

RowsShrink == \A c \in Contents : blobs[c] = NoRow => blobs'[c] = NoRow
FilesStay == \A c \in Contents : disk'[c] # "corrupt" /\ (disk[c] = "whole" => disk'[c] = "whole")

\* What p must show of the step it goes to, when it creates no row and deletes
\* no file.
LEMMA Move ==
  ASSUME Typed, Typed', GateInv, NEW p \in Threads, NEW step, NEW l,
         Goto(p, step, l), step # "condemn", l.then \in Free, GateStep(p, step),
         RowsShrink, FilesStay,
         step \in PutSteps => \A c \in l.put :
           disk'[c] = "whole" \/ (c = l.hand /\ step \in {"write", "slice", "whole"}),
         step = "unlink" => blobs'[l.gone] = NoRow,
         step = "wipe" => \A c \in Contents : blobs'[c] = NoRow
  PROVE  GateInv'
<1>0. /\ at' = [at EXCEPT ![p] = step]
      /\ \A q \in Threads : at'[q] = IF q = p THEN step ELSE at[q]
      /\ \A q \in Threads \ {p} : loc'[q] = loc[q]
      /\ loc'[p] = IF step = "idle" THEN Blank ELSE l
  BY DEF Goto, Typed, ThreadsOK
<1>1. GateHeld'
  <2>1. step \in Steps
    BY <1>0 DEF Typed, ThreadsOK
  <2> QED
    BY <1>0, <2>1, GateHeldNext DEF GateInv
<1>2. NothingRots'
  BY <1>0 DEF GateInv, NothingRots, FilesStay
<1>3. PutsOnDisk'
  <2> SUFFICES ASSUME NEW q \in Threads, at'[q] \in PutSteps, NEW c \in loc'[q].put
               PROVE  \/ disk'[c] = "whole"
                      \/ c = loc'[q].hand /\ at'[q] \in {"write", "slice", "whole"}
    BY DEF PutsOnDisk
  <2>1. CASE q = p
    BY <1>0, <2>1 DEF PutSteps
  <2>2. CASE q # p
    <3>1. c \in Contents /\ c \in loc[q].put
      BY <1>0, <2>2, LocalsOf
    <3> QED
      BY <1>0, <2>2, <3>1 DEF GateInv, PutsOnDisk, FilesStay
  <2> QED
    BY <2>1, <2>2
<1>4. RowsGoFirst'
  <2> SUFFICES ASSUME NEW q \in Threads
               PROVE  /\ at'[q] = "unlink" => blobs'[loc'[q].gone] = NoRow
                      /\ at'[q] = "wipe" => \A c \in Contents : blobs'[c] = NoRow
    BY DEF RowsGoFirst
  <2>1. CASE q = p
    BY <1>0, <2>1
  <2>2. CASE q # p
    BY <1>0, <2>2, LocalsOf DEF GateInv, RowsGoFirst, RowsShrink
  <2> QED
    BY <2>1, <2>2
<1>5. RowsHaveFiles'
  BY DEF GateInv, RowsHaveFiles, RowsShrink, FilesStay
<1>6. ThenFree'
  BY <1>0 DEF GateInv, ThenFree, Blank, Free, Steps, Held, SharingSteps, ExcludingSteps
<1> QED
  BY <1>1, <1>2, <1>3, <1>4, <1>5, <1>6 DEF GateInv

\* The common case: neither before nor after the step does p hold the gate.
LEMMA FreeMove ==
  ASSUME Typed, Typed', GateInv, NEW p \in Threads, at[p] \notin Held,
         NEW step, NEW l,
         Goto(p, step, l), step \in Free, l.then \in Free,
         GateKept, RowsShrink, disk' = disk
  PROVE  GateInv'
<1>1. GateStep(p, step)
  BY DEF GateStep, Held, Free
<1>2. FilesStay
  BY DEF FilesStay, GateInv, NothingRots
<1>3. step \notin PutSteps /\ step \notin {"unlink", "wipe", "condemn"}
  BY DEF Free, Held, SharingSteps, ExcludingSteps, PutSteps
<1> QED
  BY <1>1, <1>2, <1>3, Move

\* The same for a step that leads to a deletion first (delete_orphans).
LEMMA FreeDeleteThen ==
  ASSUME Typed, Typed', GateInv, NEW p \in Threads, at[p] \notin Held,
         NEW orphans, NEW step, NEW l \in Locals,
         DeleteThen(p, orphans, step, l), step \in Free, l.then \in Free,
         GateKept, RowsShrink, disk' = disk
  PROVE  GateInv'
<1>1. CASE orphans = {}
  BY <1>1, FreeMove DEF DeleteThen
<1>2. CASE orphans # {}
  <2> DEFINE m == [l EXCEPT !.todo = orphans, !.then = step]
  <2>1. m.then = step
    BY DEF Locals
  <2>2. "delete" \in Free
    BY DEF Free, Steps, Held, SharingSteps, ExcludingSteps
  <2>3. Goto(p, "delete", m)
    BY <1>2 DEF DeleteThen
  <2> QED
    BY <2>1, <2>2, <2>3, FreeMove
<1> QED
  BY <1>1, <1>2

\* Every transaction but put_entry and clear keeps or drops rows.
LEMMA TransactionsShrink ==
  ASSUME IndexType
  PROVE  /\ UNCHANGED index => RowsShrink
         /\ \A k, r : RefreshEntry(k, r) => RowsShrink
         /\ \A k \in Keys : RemoveEntry(k) => RowsShrink
         /\ \A m, u : Invalidate(m, u) => RowsShrink
         /\ \A k \in Keys : \A r : DropBroken(k, r) => RowsShrink
         /\ \A k : RecordAccess(k) => RowsShrink
         /\ ClearIndex => RowsShrink
         /\ \A c \in Contents : Forget(c) => RowsShrink
         /\ \A c, h : GrantEligibility(c, h) => RowsShrink
         /\ \A cs : IndexSri(cs) \/ PruneSri(cs) => RowsShrink
<1>1. \A ks \in SUBSET Keys : ReleaseAll(ks) => RowsShrink
  BY ReleaseAllType DEF RowsShrink
<1>2. \A m, u : Listed(m, u) \in SUBSET Keys
  BY DEF Listed, IndexType
<1>3. \A m, u : Invalidate(m, u) => RowsShrink
  BY <1>1, <1>2 DEF Invalidate
<1>4. \A k \in Keys : RemoveEntry(k) => RowsShrink
  BY <1>1 DEF RemoveEntry
<1>5. \A k \in Keys : \A r : DropBroken(k, r) => RowsShrink
  BY <1>1 DEF DropBroken
<1>6. \A c \in Contents : Forget(c) => RowsShrink
  BY DEF Forget, RowsShrink, IndexType
<1>7. ClearIndex => RowsShrink
  BY DEF ClearIndex, RowsShrink
<1>8. blobs' = blobs => RowsShrink
  BY DEF RowsShrink
<1> QED
  BY <1>3, <1>4, <1>5, <1>6, <1>7, <1>8
  DEF index, RefreshEntry, RecordAccess, GrantEligibility, IndexSri, PruneSri

(***************************************************************************)
(* The calls and steps that leave the gate alone.                          *)
(***************************************************************************)

\* The free steps a call names, and what it goes on with.
LEMMA FreeNames ==
  /\ {"idle", "gate", "index", "head", "refresh", "read", "confirm", "drop", "touch", "await",
      "discard", "remove", "delete", "prune", "pruning", "serve", "invalidateHead",
      "totals", "snapshot", "evict", "charge"} \subseteq Free
  /\ Blank \in Locals /\ Blank.then = "idle"
BY BlankType DEF Free, Steps, Held, SharingSteps, ExcludingSteps, Blank

\* Starting a call keeps the gate invariant.
LEMMA FreeCalls ==
  ASSUME Typed, Typed', GateInv, NEW p \in Threads,
         \/ StorePartial(p) \/ Lookup(p) \/ InvalidateUrl(p) \/ DiscardRepresentation(p)
         \/ CollectGarbage(p) \/ AskedByPeer(p)
  PROVE  GateInv'
<1> USE FreeNames
<1>t. IndexType
  BY DEF Typed
<1>i. at[p] = "idle" /\ at[p] \notin Held
  BY DEF StorePartial, Lookup, InvalidateUrl, DiscardRepresentation, CollectGarbage,
         AskedByPeer, Held, SharingSteps, ExcludingSteps
<1>1. CASE StorePartial(p)
  <2>1. PICK k \in {k \in Keys : k[1] = "GET"}, t \in Bodies : \E s \in Slices[t] :
          LET e == entries[k]
              fresh == [tag |-> t, whole |-> FALSE, body |-> {}, hits |-> 0]
              l == [Blank EXCEPT !.key = k, !.rec = fresh, !.hand = s]
          IN \/ e = NoEntry /\ Goto(p, "gate", l)
             \/ e # NoEntry /\ e.tag # t /\ Goto(p, "remove", [l EXCEPT !.then = "gate"])
             \/ e # NoEntry /\ e.tag = t /\ ~e.whole /\ Goto(p, "gate", [l EXCEPT !.rec = e])
    BY <1>1 DEF StorePartial
  <2> DEFINE fresh == [tag |-> t, whole |-> FALSE, body |-> {}, hits |-> 0]
             l(s) == [Blank EXCEPT !.key = k, !.rec = fresh, !.hand = s]
  <2>2. PICK s \in Slices[t] :
          \/ Goto(p, "gate", l(s))
          \/ Goto(p, "remove", [l(s) EXCEPT !.then = "gate"])
          \/ Goto(p, "gate", [l(s) EXCEPT !.rec = entries[k]])
    BY <2>1
  <2>3. /\ l(s).then \in Free /\ [l(s) EXCEPT !.then = "gate"].then \in Free
        /\ [l(s) EXCEPT !.rec = entries[k]].then \in Free
    BY DEF Locals
  <2>4. UNCHANGED index /\ GateKept /\ disk' = disk
    BY <1>1 DEF StorePartial
  <2> QED
    BY <1>t, <1>i, <2>2, <2>3, <2>4, FreeMove, TransactionsShrink
<1>2. CASE Lookup(p)
  <2>1. PICK k \in variants, step \in {"read", "touch"} :
          Goto(p, step, [Blank EXCEPT !.key = k, !.rec = entries[k], !.then = "drop"])
    BY <1>2 DEF Lookup
  <2>2. [Blank EXCEPT !.key = k, !.rec = entries[k], !.then = "drop"].then \in Free
    BY DEF Locals
  <2> QED
    BY <1>t, <1>i, <1>2, <2>1, <2>2, FreeMove, TransactionsShrink DEF Lookup
<1>3. CASE InvalidateUrl(p)
  <2>1. PICK k \in Keys, step \in {"invalidateHead", "idle"} :
          /\ Invalidate(k[1], k[2])
          /\ DeleteThen(p, Orphans(Listed(k[1], k[2])), step, [Blank EXCEPT !.key = k])
    BY <1>3 DEF InvalidateUrl
  <2>2. [Blank EXCEPT !.key = k] \in Locals /\ [Blank EXCEPT !.key = k].then \in Free
    BY DEF Locals
  <2> QED
    BY <1>t, <1>i, <1>3, <2>1, <2>2, FreeDeleteThen, TransactionsShrink DEF InvalidateUrl
<1>4. CASE DiscardRepresentation(p)
  <2>1. PICK k \in Keys : Goto(p, "discard", [Blank EXCEPT !.key = k, !.rec = entries[k]])
    BY <1>4 DEF DiscardRepresentation
  <2>2. [Blank EXCEPT !.key = k, !.rec = entries[k]].then \in Free
    BY DEF Locals
  <2> QED
    BY <1>t, <1>i, <1>4, <2>1, <2>2, FreeMove, TransactionsShrink DEF DiscardRepresentation
<1>5. CASE CollectGarbage(p)
  BY <1>t, <1>i, <1>5, FreeDeleteThen, TransactionsShrink DEF CollectGarbage
<1>6. CASE AskedByPeer(p)
  <2>1. PICK c \in Contents : Goto(p, "serve", [Blank EXCEPT !.hand = c])
    BY <1>6 DEF AskedByPeer
  <2>2. [Blank EXCEPT !.hand = c].then \in Free
    BY DEF Locals
  <2> QED
    BY <1>t, <1>i, <1>6, <2>1, <2>2, FreeMove, TransactionsShrink DEF AskedByPeer
<1> QED
  BY <1>1, <1>2, <1>3, <1>4, <1>5, <1>6

\* The steps that touch neither gate nor files keep it.
LEMMA FreeRuns ==
  ASSUME Typed, Typed', GateInv, NEW p \in Threads,
         \/ Index(p) \/ Head(p) \/ Read(p) \/ Drop(p) \/ Touch(p)
         \/ NotModified(p) \/ Answered(p) \/ Refresh(p) \/ Confirm(p)
         \/ Remove(p) \/ InvalidateHead(p) \/ Discard(p) \/ Prune(p) \/ Pruning(p)
         \/ ServePeer(p) \/ Totals(p) \/ Snapshot(p) \/ Evict(p) \/ Charge(p)
  PROVE  GateInv'
<1> USE FreeNames, LocalsOf
<1>t. IndexType
  BY DEF Typed
<1>f. loc[p].then \in Free
  BY DEF GateInv, ThenFree
<1>i. at[p] \notin Held
  BY DEF Index, Head, Read, Drop, Touch, NotModified, Answered, Refresh, Confirm, Remove,
         InvalidateHead, Discard, Prune, Pruning, ServePeer, Totals, Snapshot, Evict, Charge,
         Held, SharingSteps, ExcludingSteps
<1>idle. Goto(p, "idle", Blank) /\ GateKept /\ RowsShrink /\ disk' = disk => GateInv'
  BY <1>i, FreeMove
<1>sound. loc[p].rec \in Entry => \A c \in loc[p].rec.body : disk[c] # "corrupt"
  BY DEF GateInv, NothingRots, Entry
<1>1. CASE Index(p)
  BY <1>t, <1>f, <1>i, <1>1, FreeMove, TransactionsShrink DEF Index
<1>2. CASE Head(p)
  <2>1. CASE Goto(p, "totals", loc[p])
    BY <1>t, <1>f, <1>i, <1>2, <2>1, FreeMove, TransactionsShrink DEF Head
  <2>2. CASE ~Goto(p, "totals", loc[p])
    <3>1. PICK g \in StoredGets(loc[p].key), step \in {"refresh", "remove"} :
            Goto(p, step, [loc[p] EXCEPT !.key = g, !.rec = entries[g], !.then = "totals"])
      BY <1>2, <2>2 DEF Head
    <3>2. [loc[p] EXCEPT !.key = g, !.rec = entries[g], !.then = "totals"].then \in Free
      BY DEF Locals
    <3> QED
      BY <1>t, <1>i, <1>2, <3>1, <3>2, FreeMove, TransactionsShrink DEF Head
  <2> QED
    BY <2>1, <2>2
<1>3. CASE Read(p)
  <2>1. loc[p].rec \in Entry
    BY <1>3 DEF Read, WithRecord
  <2>2. PICK step \in {"touch", "await", "drop"} : Goto(p, step, loc[p])
    BY <1>3, <1>sound, <2>1 DEF Read, ReadNext
  <2> QED
    BY <1>t, <1>f, <1>i, <1>3, <2>2, FreeMove, TransactionsShrink DEF Read
<1>4. CASE Drop(p)
  <2>1. CASE Unchanged(loc[p].key, loc[p].rec)
    BY <1>t, <1>f, <1>i, <1>4, <2>1, FreeDeleteThen, TransactionsShrink DEF Drop
  <2>2. CASE ~Unchanged(loc[p].key, loc[p].rec)
    BY <1>t, <1>idle, <1>4, <2>2, TransactionsShrink DEF Drop
  <2> QED
    BY <2>1, <2>2
<1>5. CASE Touch(p)
  BY <1>t, <1>idle, <1>5, TransactionsShrink DEF Touch
<1>6. CASE NotModified(p)
  <2> DEFINE l == [loc[p] EXCEPT !.rec = [entries[loc[p].key] EXCEPT !.tag = loc[p].rec.tag],
                                 !.then = "confirm"]
  <2>1. l.then \in Free
    BY DEF Locals
  <2>2. Goto(p, "idle", Blank) \/ Goto(p, "refresh", l)
    BY <1>6 DEF NotModified
  <2> QED
    BY <1>t, <1>i, <1>idle, <1>6, <2>1, <2>2, FreeMove, TransactionsShrink DEF NotModified
<1>7. CASE Answered(p)
  BY <1>t, <1>idle, <1>7, TransactionsShrink DEF Answered
<1>8. CASE Refresh(p)
  BY <1>t, <1>f, <1>i, <1>8, FreeMove, TransactionsShrink DEF Refresh
<1>9. CASE Confirm(p)
  <2> DEFINE d == [loc[p] EXCEPT !.then = "drop"]
  <2>1. d.then \in Free
    BY DEF Locals
  <2>2. loc[p].rec \in Entry
    BY <1>9 DEF Confirm, WithRecord
  <2>3. Goto(p, "drop", d) \/ Goto(p, "idle", Blank)
    BY <1>9, <1>sound, <2>2 DEF Confirm
  <2> QED
    BY <1>t, <1>i, <1>idle, <1>9, <2>1, <2>3, FreeMove, TransactionsShrink DEF Confirm
<1>10. CASE Remove(p)
  BY <1>t, <1>f, <1>i, <1>10, FreeDeleteThen, TransactionsShrink DEF Remove
<1>11. CASE InvalidateHead(p)
  BY <1>t, <1>f, <1>i, <1>11, FreeDeleteThen, TransactionsShrink DEF InvalidateHead
<1>12. CASE Discard(p)
  <2>1. CASE Unchanged(loc[p].key, loc[p].rec)
    BY <1>t, <1>f, <1>i, <1>12, <2>1, FreeDeleteThen, TransactionsShrink DEF Discard
  <2>2. CASE ~Unchanged(loc[p].key, loc[p].rec)
    BY <1>t, <1>idle, <1>12, <2>2, TransactionsShrink DEF Discard
  <2> QED
    BY <2>1, <2>2
<1>13. CASE Prune(p)
  <2>1. [loc[p] EXCEPT !.todo = StaleSri].then \in Free
    BY <1>f DEF Locals
  <2> QED
    BY <1>t, <1>i, <1>13, <2>1, FreeMove, TransactionsShrink DEF Prune
<1>14. CASE Pruning(p)
  BY <1>t, <1>idle, <1>14, TransactionsShrink DEF Pruning
<1>15. CASE ServePeer(p)
  <2>1. Goto(p, "idle", loc[p])
    BY <1>15 DEF ServePeer, GateInv, NothingRots
  <2> QED
    BY <1>t, <1>f, <1>i, <1>15, <2>1, FreeMove, TransactionsShrink DEF ServePeer
<1>16. CASE Totals(p)
  <2>1. [Blank EXCEPT !.size = Cardinality(Counted)].then \in Free
    BY DEF Locals
  <2> QED
    BY <1>t, <1>i, <1>16, <2>1, FreeMove, TransactionsShrink DEF Totals
<1>17. CASE Snapshot(p)
  <2>1. [loc[p] EXCEPT !.victims = {k \in Keys : entries[k] # NoEntry}].then \in Free
    BY <1>f DEF Locals
  <2> QED
    BY <1>t, <1>i, <1>17, <2>1, FreeMove, TransactionsShrink DEF Snapshot
<1>18. CASE Evict(p)
  <2>1. CASE loc[p].size <= Target \/ loc[p].victims = {}
    BY <1>t, <1>idle, <1>18, <2>1, TransactionsShrink DEF Evict
  <2>2. CASE ~(loc[p].size <= Target \/ loc[p].victims = {})
    <3>1. PICK k \in loc[p].victims :
            /\ RemoveEntry(k)
            /\ \/ Goto(p, "evict", [loc[p] EXCEPT !.victims = @ \ {k}])
               \/ Goto(p, "charge", [loc[p] EXCEPT !.victims = @ \ {k}, !.todo = Orphans({k})])
      BY <1>18, <2>2 DEF Evict
    <3>2. /\ [loc[p] EXCEPT !.victims = @ \ {k}].then \in Free
          /\ [loc[p] EXCEPT !.victims = @ \ {k}, !.todo = Orphans({k})].then \in Free
      BY <1>f DEF Locals
    <3> QED
      BY <1>t, <1>i, <1>18, <3>1, <3>2, FreeMove, TransactionsShrink DEF Evict
  <2> QED
    BY <2>1, <2>2
<1>19. CASE Charge(p)
  <2> DEFINE freed == Cardinality({c \in loc[p].todo : blobs[c] # NoRow})
             l == [loc[p] EXCEPT !.size = IF freed > @ THEN 0 ELSE @ - freed, !.then = "evict"]
  <2>1. l.then \in Free
    BY DEF Locals
  <2>2. Goto(p, "delete", l)
    BY <1>19 DEF Charge
  <2> QED
    BY <1>t, <1>i, <1>19, <2>1, <2>2, FreeMove, TransactionsShrink DEF Charge
<1> QED
  BY <1>1, <1>2, <1>3, <1>4, <1>5, <1>6, <1>7, <1>8, <1>9, <1>10, <1>11, <1>12, <1>13,
     <1>14, <1>15, <1>16, <1>17, <1>18, <1>19

(***************************************************************************)
(* The steps under the gate.                                               *)
(***************************************************************************)

\* While one thread holds the gate exclusively no store is under way, so files
\* without a row can go.
LEMMA DeleteMove ==
  ASSUME Typed, Typed', GateInv, NEW p \in Threads, at[p] \in ExcludingSteps, NEW step, NEW l,
         Goto(p, step, l), step \in Free \cup {"forget"}, l.then \in Free, GateStep(p, step),
         blobs' = blobs,
         \A c \in Contents : /\ disk'[c] # "corrupt"
                             /\ disk[c] = "whole" => disk'[c] = "whole" \/ blobs[c] = NoRow
  PROVE  GateInv'
<1>0. /\ at' = [at EXCEPT ![p] = step] /\ step \in Steps
      /\ \A q \in Threads : at'[q] = IF q = p THEN step ELSE at[q]
      /\ \A q \in Threads \ {p} : loc'[q] = loc[q]
      /\ loc'[p] = IF step = "idle" THEN Blank ELSE l
  BY DEF Goto, Typed, ThreadsOK, Free, Steps
<1>s. step \notin PutSteps /\ step \notin {"unlink", "wipe", "condemn"}
  BY DEF Free, Held, SharingSteps, ExcludingSteps, PutSteps
<1>1. GateHeld'
  BY <1>0, GateHeldNext DEF GateInv
<1>2. NothingRots'
  BY <1>0, <1>s DEF GateInv, NothingRots
<1>3. PutsOnDisk'
  <2>1. p \in excluding /\ sharing = {}
    BY DEF GateInv, GateHeld
  <2>2. \A q \in Threads : at[q] \notin PutSteps
    BY <2>1 DEF GateInv, GateHeld, PutSteps, SharingSteps
  <2> QED
    BY <1>0, <1>s, <2>2 DEF PutsOnDisk
<1>4. RowsGoFirst'
  BY <1>0, <1>s DEF GateInv, RowsGoFirst
<1>5. RowsHaveFiles'
  BY DEF GateInv, RowsHaveFiles
<1>6. ThenFree'
  BY <1>0, FreeNames DEF GateInv, ThenFree
<1> QED
  BY <1>1, <1>2, <1>3, <1>4, <1>5, <1>6 DEF GateInv

\* put_entry creates rows only for what its store put, while nobody deletes.
LEMMA GateCommit ==
  ASSUME Typed, Typed', GateInv, NEW p \in Threads, Commit(p)
  PROVE  GateInv'
<1> USE FreeNames, LocalsOf
<1> DEFINE l == loc[p]
<1>f. l.then \in Free
  BY DEF GateInv, ThenFree
<1>i. at[p] = "commit" /\ at[p] \notin ExcludingSteps
  BY DEF Commit, ExcludingSteps
<1>1. CASE MissingBlob(l.key, l.rec, l.put)
  <2>1. Goto(p, "idle", Blank) /\ UNCHANGED index /\ Unshare(p) /\ disk' = disk
    BY <1>1 DEF Commit
  <2>2. GateStep(p, "idle")
    BY <1>i, <2>1 DEF GateStep, Free
  <2>3. FilesStay
    BY <2>1 DEF FilesStay, GateInv, NothingRots
  <2> QED
    BY <2>1, <2>2, <2>3, Move, TransactionsShrink DEF PutSteps, Typed
<1>2. CASE ~MissingBlob(l.key, l.rec, l.put)
  <2>0. PICK step \in Free : \E m : Goto(p, step, m) /\ m.then \in Free
    <3> DEFINE orphans == PutOrphans(l.key, l.rec)
               d == [l EXCEPT !.todo = orphans, !.then = l.then]
    <3>1. d.then \in Free
      BY <1>f DEF Locals
    <3>2. Goto(p, l.then, l) \/ Goto(p, "delete", d)
      BY <1>2 DEF Commit, DeleteThen
    <3> HIDE DEF d
    <3>3. CASE Goto(p, l.then, l)
      BY <1>f, <3>3
    <3>4. CASE Goto(p, "delete", d)
      BY <1>f, <3>1, <3>4
    <3> QED
      BY <3>2, <3>3, <3>4
  <2>1. PICK m : Goto(p, step, m) /\ m.then \in Free
    BY <2>0
  <2>2. /\ at' = [at EXCEPT ![p] = step] /\ step \in Steps
        /\ \A q \in Threads : at'[q] = IF q = p THEN step ELSE at[q]
        /\ \A q \in Threads \ {p} : loc'[q] = loc[q]
        /\ loc'[p] = IF step = "idle" THEN Blank ELSE m
    BY <2>1 DEF Goto, Typed, ThreadsOK, Free
  <2>s. step \notin PutSteps /\ step \notin {"unlink", "wipe", "condemn"}
    BY DEF Free, Held, SharingSteps, ExcludingSteps, PutSteps
  <2>3. PutEntry(l.key, l.rec) /\ Unshare(p) /\ disk' = disk
    BY <1>2 DEF Commit
  <2>4. GateHeld'
    <3>1. GateStep(p, step)
      BY <1>i, <2>3 DEF GateStep, Free
    <3> QED
      BY <2>2, <3>1, GateHeldNext DEF GateInv
  <2>5. NothingRots'
    BY <2>2, <2>s, <2>3 DEF GateInv, NothingRots
  <2>6. PutsOnDisk'
    BY <2>2, <2>s, <2>3 DEF GateInv, PutsOnDisk
  <2>7. RowsGoFirst'
    <3>1. \A q \in Threads : at[q] \notin {"unlink", "wipe"}
      BY <1>i DEF GateInv, GateHeld, SharingSteps, ExcludingSteps
    <3> QED
      BY <2>2, <2>s, <3>1 DEF RowsGoFirst
  <2>8. RowsHaveFiles'
    <3> SUFFICES ASSUME NEW c \in Contents, blobs'[c] # NoRow PROVE disk[c] = "whole"
      BY <2>3 DEF RowsHaveFiles
    <3>1. CASE blobs[c] # NoRow
      BY <3>1 DEF GateInv, RowsHaveFiles
    <3>2. CASE blobs[c] = NoRow
      <4>1. c \in Acquired(l.key, l.rec)
        BY <2>3, <3>2 DEF PutEntry, Release
      <4>2. c \in l.put
        BY <1>2, <3>2, <4>1 DEF MissingBlob
      <4> QED
        BY <1>i, <4>2 DEF GateInv, PutsOnDisk, PutSteps
    <3> QED
      BY <3>1, <3>2
  <2>9. ThenFree'
    BY <2>1, <2>2 DEF GateInv, ThenFree
  <2> QED
    BY <2>4, <2>5, <2>6, <2>7, <2>8, <2>9 DEF GateInv
<1> QED
  BY <1>1, <1>2

\* The steps of a store between taking the gate and giving it back keep it.
LEMMA GateStores ==
  ASSUME Typed, Typed', GateInv, NEW p \in Threads,
         Store(p) \/ PutSlice(p) \/ WriteFile(p) \/ WriteFails(p) \/ Join(p) \/ Digest(p)
  PROVE  GateInv'
<1> USE FreeNames, LocalsOf
<1>t. IndexType /\ disk \in [Contents -> {"absent", "whole", "corrupt"}]
  BY DEF Typed, DiskOK
<1>f. loc[p].then \in Free
  BY DEF GateInv, ThenFree
<1>sound. \A c \in Contents : disk[c] # "corrupt" /\ (disk[c] # "absent" => disk[c] = "whole")
  BY <1>t DEF GateInv, NothingRots
<1>same. disk' = disk => FilesStay
  BY <1>sound DEF FilesStay
<1>share. \A step \in SharingSteps : step \notin {"unlink", "wipe", "condemn"} /\ step \notin ExcludingSteps
  BY DEF SharingSteps, ExcludingSteps
<1>idle. Goto(p, "idle", Blank) /\ Unshare(p) /\ RowsShrink /\ FilesStay /\ at[p] \notin ExcludingSteps
           => GateInv'
  <2>1. Unshare(p) /\ at[p] \notin ExcludingSteps => GateStep(p, "idle")
    BY DEF GateStep, Free
  <2> QED
    BY <2>1, Move DEF PutSteps
<1>1. CASE Store(p)
  <2>1. PICK k \in Keys, t \in Bodies :
          Goto(p, IF disk[Payload(k, t)] = "absent" THEN "write" ELSE "commit",
               [Blank EXCEPT !.key = k, !.rec = WholeRecord(k, t, 0), !.put = {Payload(k, t)},
                             !.hand = Payload(k, t), !.then = "index"])
    BY <1>1 DEF Store
  <2> DEFINE c == Payload(k, t)
             l == [Blank EXCEPT !.key = k, !.rec = WholeRecord(k, t, 0), !.put = {c},
                                !.hand = c, !.then = "index"]
             step == IF disk[c] = "absent" THEN "write" ELSE "commit"
  <2>2. l.then \in Free /\ l.put = {c} /\ l.hand = c
    BY DEF Locals
  <2>3. c \in Contents
    BY WholeRecordType, IndexAssumption
  <2>4. step \in SharingSteps
    BY DEF SharingSteps
  <2>5. \A d \in l.put : disk'[d] = "whole" \/ (d = l.hand /\ step \in {"write", "slice", "whole"})
    BY <1>1, <1>sound, <2>2, <2>3 DEF Store
  <2>6. GateStep(p, step)
    BY <1>1, <2>4 DEF Store, GateStep
  <2>7. Goto(p, step, l) /\ UNCHANGED index /\ disk' = disk
    BY <1>1, <2>1 DEF Store
  <2> HIDE DEF l, step
  <2> QED
    BY <1>t, <1>same, <1>share, <2>2, <2>4, <2>5, <2>6, <2>7, Move, TransactionsShrink
<1>2. CASE PutSlice(p)
  <2> DEFINE new == loc[p].hand \notin loc[p].rec.body
             l == [loc[p] EXCEPT !.put = IF new THEN {loc[p].hand} ELSE {}, !.then = "totals"]
             step == IF new /\ disk[loc[p].hand] = "absent" THEN "slice" ELSE "join"
  <2>1. Goto(p, step, l) /\ UNCHANGED index /\ disk' = disk /\ CanShare /\ Share(p)
    BY <1>2 DEF PutSlice
  <2>2. l.then \in Free /\ l.hand = loc[p].hand /\ l.put = IF new THEN {loc[p].hand} ELSE {}
    BY DEF Locals
  <2>3. step \in SharingSteps
    BY DEF SharingSteps
  <2>4. \A d \in l.put : disk'[d] = "whole" \/ (d = l.hand /\ step \in {"write", "slice", "whole"})
    BY <1>sound, <2>1, <2>2
  <2>5. GateStep(p, step)
    BY <2>1, <2>3 DEF GateStep
  <2> HIDE DEF l, step
  <2> QED
    BY <1>t, <1>same, <1>share, <2>1, <2>2, <2>3, <2>4, <2>5, Move, TransactionsShrink
<1>3. CASE WriteFile(p)
  <2>1. PICK step \in {"commit", "join", "digest"} : Goto(p, step, loc[p])
    BY <1>3 DEF WriteFile, WritingNext
  <2>2. at[p] \in {"write", "slice", "whole"} /\ GateKept /\ UNCHANGED index
        /\ disk' = [disk EXCEPT ![loc[p].hand] = "whole"]
    BY <1>3 DEF WriteFile, WritingNext
  <2>3. GateStep(p, step)
    BY <2>2 DEF GateStep, SharingSteps, ExcludingSteps
  <2>4. FilesStay
    BY <1>t, <1>sound, <2>2 DEF FilesStay
  <2>5. \A d \in loc[p].put : disk'[d] = "whole"
    BY <1>t, <2>2 DEF GateInv, PutsOnDisk, PutSteps
  <2>6. step \notin {"unlink", "wipe", "condemn"}
    OBVIOUS
  <2> QED
    BY <1>t, <1>f, <2>1, <2>2, <2>3, <2>4, <2>5, <2>6, Move, TransactionsShrink
<1>4. CASE WriteFails(p)
  <2>1. at[p] \notin ExcludingSteps
    BY <1>4 DEF WriteFails, WritingNext, ExcludingSteps
  <2> QED
    BY <1>t, <1>same, <1>idle, <1>4, <2>1, TransactionsShrink DEF WriteFails
<1>5. CASE Join(p)
  <2> DEFINE l == loc[p]
             t == l.rec.tag
             held == l.rec.body \cup {l.hand}
             part == [l EXCEPT !.rec.body = held]
             full == [l EXCEPT !.rec = WholeRecord(l.key, t, l.rec.hits),
                               !.put = @ \cup {t}, !.hand = t]
  <2>1. l.rec \in Entry /\ at[p] = "join" /\ at[p] \notin ExcludingSteps
    BY <1>5 DEF Join, WithRecord, ExcludingSteps
  <2>2. held \in SUBSET Contents /\ t \in Contents
    BY <2>1, IndexAssumption DEF Entry
  <2>3. RowsShrink /\ FilesStay /\ disk' = disk
    BY <1>t, <1>5, <1>same, TransactionsShrink DEF Join
  <2>4. \A d \in l.put : disk[d] = "whole"
    BY <2>1 DEF GateInv, PutsOnDisk, PutSteps
  <2>5. \/ Goto(p, "commit", part) /\ GateKept
        \/ Goto(p, IF disk[t] = "absent" THEN "whole" ELSE "digest", full) /\ GateKept
        \/ Goto(p, "idle", Blank) /\ Unshare(p)
    BY <1>5, <1>sound, <2>2 DEF Join
  <2>6. CASE Goto(p, "commit", part) /\ GateKept
    <3>1. part.then \in Free /\ part.put = l.put
      BY <1>f DEF Locals
    <3>2. GateStep(p, "commit")
      BY <2>1, <2>6 DEF GateStep, SharingSteps, ExcludingSteps
    <3> HIDE DEF part
    <3> QED
      BY <2>3, <2>4, <2>6, <3>1, <3>2, Move
  <2>7. CASE Goto(p, IF disk[t] = "absent" THEN "whole" ELSE "digest", full) /\ GateKept
    <3> DEFINE step == IF disk[t] = "absent" THEN "whole" ELSE "digest"
    <3>1. full.then \in Free /\ full.put = l.put \cup {t} /\ full.hand = t
      BY <1>f DEF Locals
    <3>2. step \in {"whole", "digest"}
      OBVIOUS
    <3>3. GateStep(p, step)
      BY <2>1, <2>7 DEF GateStep, SharingSteps, ExcludingSteps
    <3>4. \A d \in full.put :
            disk'[d] = "whole" \/ (d = full.hand /\ step \in {"write", "slice", "whole"})
      BY <1>sound, <2>2, <2>3, <2>4, <3>1
    <3>5. Goto(p, step, full)
      BY <2>7
    <3>6. step \notin {"unlink", "wipe", "condemn"}
      BY <3>2
    <3> HIDE DEF full, step
    <3> QED
      BY <2>3, <3>1, <3>3, <3>4, <3>5, <3>6, Move
  <2> QED
    BY <1>idle, <2>1, <2>3, <2>5, <2>6, <2>7
<1>6. CASE Digest(p)
  <2>1. Goto(p, "commit", loc[p]) /\ GateKept /\ disk' = disk /\ at[p] = "digest" /\ RowsShrink
    BY <1>t, <1>6, TransactionsShrink DEF Digest
  <2>2. GateStep(p, "commit")
    BY <2>1 DEF GateStep, SharingSteps, ExcludingSteps
  <2>3. \A d \in loc[p].put : disk'[d] = "whole"
    BY <2>1 DEF GateInv, PutsOnDisk, PutSteps
  <2> QED
    BY <1>f, <1>same, <2>1, <2>2, <2>3, Move
<1> QED
  BY <1>1, <1>2, <1>3, <1>4, <1>5, <1>6

\* The steps of a deletion and of a clear keep it.
LEMMA GateDeletes ==
  ASSUME Typed, Typed', GateInv, NEW p \in Threads,
         \/ Delete(p) \/ ForgetRow(p) \/ Unlink(p) \/ Clear(p) \/ Wipe(p)
         \/ GrantPeer(p) \/ Grant(p)
  PROVE  GateInv'
<1> USE FreeNames, LocalsOf
<1>t. IndexType /\ disk \in [Contents -> {"absent", "whole", "corrupt"}]
  BY DEF Typed, DiskOK
<1>f. loc[p].then \in Free
  BY DEF GateInv, ThenFree
<1>sound. \A c \in Contents : disk[c] # "corrupt"
  BY DEF GateInv, NothingRots
<1>same. disk' = disk => FilesStay
  BY <1>sound DEF FilesStay
<1>1. CASE Delete(p)
  <2>1. GateStep(p, "forget")
    BY <1>1 DEF Delete, GateStep, ExcludingSteps
  <2> QED
    BY <1>t, <1>f, <1>same, <1>1, <2>1, Move, TransactionsShrink DEF Delete, PutSteps
<1>next. ASSUME NEW l, NextCandidate(p, l), l.then \in Free, at[p] \in {"forget", "unlink"}
         PROVE  \E step \in Free \cup {"forget"} : Goto(p, step, l) /\ GateStep(p, step)
  <2>1. CASE l.todo = {}
    BY <1>next, <2>1 DEF NextCandidate, GateStep, Free, SharingSteps
  <2>2. CASE l.todo # {}
    BY <1>next, <2>2 DEF NextCandidate, GateStep, SharingSteps, ExcludingSteps
  <2> QED
    BY <2>1, <2>2
<1>2. CASE ForgetRow(p)
  <2>1. PICK c \in loc[p].todo :
          LET l == [loc[p] EXCEPT !.todo = @ \ {c}, !.gone = c]
          IN IF Unreferenced(c)
             THEN Forget(c) /\ Goto(p, "unlink", l) /\ GateKept
             ELSE UNCHANGED index /\ NextCandidate(p, l)
    BY <1>2 DEF ForgetRow
  <2> DEFINE l == [loc[p] EXCEPT !.todo = @ \ {c}, !.gone = c]
  <2>2. l.then \in Free /\ l.gone = c /\ c \in Contents
    BY <1>f DEF Locals
  <2>3. at[p] = "forget" /\ disk' = disk
    BY <1>2 DEF ForgetRow
  <2>4. CASE Unreferenced(c)
    <3>1. GateStep(p, "unlink")
      BY <2>1, <2>3, <2>4 DEF GateStep, SharingSteps, ExcludingSteps
    <3>2. blobs'[c] = NoRow
      BY <1>t, <2>1, <2>2, <2>4 DEF Forget, IndexType
    <3>3. Goto(p, "unlink", l) /\ RowsShrink
      BY <1>t, <2>1, <2>2, <2>4, TransactionsShrink
    <3> HIDE DEF l
    <3> QED
      BY <1>same, <2>2, <2>3, <3>1, <3>2, <3>3, Move DEF PutSteps
  <2>5. CASE ~Unreferenced(c)
    <3>1. UNCHANGED index /\ NextCandidate(p, l)
      BY <2>1, <2>5
    <3> HIDE DEF l
    <3>2. PICK step \in Free \cup {"forget"} : Goto(p, step, l) /\ GateStep(p, step)
      BY <1>next, <2>2, <2>3, <3>1
    <3> QED
      BY <1>sound, <2>2, <2>3, <3>1, <3>2, DeleteMove DEF index, ExcludingSteps
  <2> QED
    BY <2>4, <2>5
<1>3. CASE Unlink(p)
  <2> DEFINE l == [loc[p] EXCEPT !.gone = Empty]
  <2>1. l.then \in Free
    BY <1>f DEF Locals
  <2>2. /\ at[p] = "unlink" /\ UNCHANGED index /\ NextCandidate(p, l)
        /\ disk' = [disk EXCEPT ![loc[p].gone] = "absent"]
    BY <1>3 DEF Unlink
  <2>3. blobs[loc[p].gone] = NoRow
    BY <2>2 DEF GateInv, RowsGoFirst
  <2> HIDE DEF l
  <2>4. PICK step \in Free \cup {"forget"} : Goto(p, step, l) /\ GateStep(p, step)
    BY <1>next, <2>1, <2>2
  <2>5. \A c \in Contents : /\ disk'[c] # "corrupt"
                            /\ disk[c] = "whole" => disk'[c] = "whole" \/ blobs[c] = NoRow
    BY <1>t, <1>sound, <2>2, <2>3
  <2> QED
    BY <2>1, <2>2, <2>4, <2>5, DeleteMove DEF index, ExcludingSteps
<1>4. CASE Clear(p)
  <2>1. GateStep(p, "wipe")
    BY <1>4 DEF Clear, GateStep, ExcludingSteps
  <2>2. \A c \in Contents : blobs'[c] = NoRow
    BY <1>4 DEF Clear, ClearIndex
  <2> QED
    BY <1>t, <1>same, <1>4, <2>1, <2>2, Move, TransactionsShrink DEF Clear, PutSteps
<1>5. CASE Wipe(p)
  <2>1. /\ at[p] = "wipe" /\ Goto(p, "idle", Blank) /\ UNCHANGED index
        /\ disk' = [c \in Contents |-> "absent"]
        /\ excluding' = excluding \ {p} /\ UNCHANGED sharing
    BY <1>5 DEF Wipe
  <2>2. GateStep(p, "idle")
    BY <2>1 DEF GateStep, Free, SharingSteps
  <2>3. \A c \in Contents : blobs[c] = NoRow
    BY <2>1 DEF GateInv, RowsGoFirst
  <2> QED
    BY <2>1, <2>2, <2>3, DeleteMove DEF index, ExcludingSteps
<1>6. CASE GrantPeer(p)
  <2>1. PICK c \in Contents : Goto(p, "grant", [Blank EXCEPT !.hand = c])
    BY <1>6, <1>sound DEF GrantPeer
  <2>2. [Blank EXCEPT !.hand = c].then \in Free
    BY DEF Locals
  <2>3. GateStep(p, "grant")
    BY <1>6 DEF GrantPeer, GateStep, SharingSteps
  <2> QED
    BY <1>t, <1>same, <1>6, <2>1, <2>2, <2>3, Move, TransactionsShrink DEF GrantPeer, PutSteps
<1>7. CASE Grant(p)
  <2>1. GateStep(p, "idle")
    BY <1>7 DEF Grant, GateStep, Free, ExcludingSteps
  <2> QED
    BY <1>t, <1>same, <1>7, <2>1, Move, TransactionsShrink DEF Grant, PutSteps
<1> QED
  BY <1>1, <1>2, <1>3, <1>4, <1>5, <1>6, <1>7

(***************************************************************************)
(* The theorems.                                                           *)
(***************************************************************************)

\* It holds when the cache is opened empty.
LEMMA GateInit == Init => GateInv
<1> SUFFICES ASSUME Init PROVE GateInv
  OBVIOUS
<1>1. GateHeld
  BY DEF Init, GateHeld, SharingSteps, ExcludingSteps
<1>2. NothingRots /\ PutsOnDisk /\ RowsGoFirst /\ RowsHaveFiles
  BY DEF Init, IndexInit, NothingRots, PutsOnDisk, PutSteps, RowsGoFirst, RowsHaveFiles
<1>3. ThenFree
  BY FreeNames DEF Init, ThenFree
<1> QED
  BY <1>1, <1>2, <1>3 DEF GateInv

\* Every step keeps it, when files do not rot.
LEMMA GateNext ==
  ASSUME Corruptible = {}
  PROVE  Typed /\ GateInv /\ [Next]_vars => GateInv'
<1> SUFFICES ASSUME Typed, GateInv, [Next]_vars PROVE GateInv'
  OBVIOUS
<1>t. Typed'
  BY TypedNext
<1>1. CASE Rot
  BY <1>1 DEF Rot
<1>2. ASSUME NEW p \in Threads, Calls(p) PROVE GateInv'
  BY <1>t, <1>2, FreeCalls, GateStores, GateDeletes DEF Calls
<1>3. ASSUME NEW p \in Threads, Waits(p) PROVE GateInv'
  BY <1>t, <1>3, GateStores, GateDeletes DEF Waits
<1>4. ASSUME NEW p \in Threads, Runs(p) PROVE GateInv'
  <2>1. ~Condemn(p)
    BY DEF Condemn, GateInv, NothingRots
  <2> QED
    BY <1>t, <1>4, <2>1, FreeRuns, GateStores, GateCommit, GateDeletes DEF Runs
<1>5. CASE UNCHANGED vars
  BY <1>5 DEF vars, index, threads, GateInv, GateHeld, NothingRots, PutsOnDisk, RowsGoFirst,
              RowsHaveFiles, ThenFree
<1> QED
  BY <1>1, <1>2, <1>3, <1>4, <1>5 DEF Next

\* So it always holds, with the types it rests on.
LEMMA GateAlways ==
  ASSUME Corruptible = {}
  PROVE  Spec => []GateInv
<1>1. Typed /\ GateInv /\ [Next]_vars => GateInv'
  BY GateNext
<1> QED
  BY <1>1, GateInit, TypedInit, TypedNext, PTL DEF Spec

\* What the gate is for (cache.rs:124-134): as long as files do not rot on their
\* own, every blob record has its file, so nothing a store relied on, or wrote, is
\* deleted between its look at the disk and its commit.
THEOREM GateKeepsFiles ==
  ASSUME Corruptible = {}
  PROVE  Spec => []RowsHaveFiles
<1>1. GateInv => RowsHaveFiles
  BY DEF GateInv
<1>2. Spec => []GateInv
  BY GateAlways
<1> QED
  BY <1>1, <1>2, PTL

\* The two halves together: where no refresh lands on another body, no lookup
\* ever finds an entry whose body is not on disk.
THEOREM EntriesCanBeRead ==
  ASSUME Corruptible = {}
  PROVE  Spec /\ [][RefreshesKeepBody]_vars => []EntriesReadable
<1>1. Typed /\ RowsHaveFiles /\ RefcountsExact => EntriesReadable
  <2> SUFFICES ASSUME Typed, RowsHaveFiles, RefcountsExact,
                      NEW k \in Keys, NEW c \in Body(entries[k])
               PROVE  disk[c] = "whole"
    BY DEF EntriesReadable
  <2>1. c \in Contents
    BY BodyType DEF Typed
  <2>2. Naming(Keys, c) # {}
    BY DEF Naming
  <2> QED
    BY <2>1, <2>2 DEF RefcountsExact, RowsHaveFiles
<1>2. Spec => []RowsHaveFiles
  BY GateKeepsFiles
<1> QED
  BY <1>1, <1>2, AlwaysTyped, CountsAreExact, PTL

\* A body is deleted only by one thread at a time, and while no store is between
\* its look at the disk and its commit.
THEOREM DeletionExcludesStores ==
  ASSUME Corruptible = {}
  PROVE  Spec => [](\A p, q \in Threads :
           at[p] \in ExcludingSteps /\ at[q] \in SharingSteps \cup ExcludingSteps => p = q)
<1>1. GateInv => \A p, q \in Threads :
        at[p] \in ExcludingSteps /\ at[q] \in SharingSteps \cup ExcludingSteps => p = q
  BY DEF GateInv, GateHeld
<1>2. Spec => []GateInv
  BY GateAlways
<1> QED
  BY <1>1, <1>2, PTL

(***************************************************************************)
(* What a call leaves behind.                                              *)
(***************************************************************************)

\* The steps at which a thread has contents to delete, and those of a range being stored.
DeletingSteps == {"charge", "delete", "forget", "unlink"}
RangeSteps == {"gate", "slice", "join", "whole", "digest"}

\* A content that a thread is going to delete, and one whose file it is going to give a row or
\* to remove.
Falls(step, l, c) == step \in DeletingSteps /\ c \in l.todo
Left(step, l, c) ==
  \/ step = "commit" /\ c \in l.put
  \/ step = "unlink" /\ c = l.gone
  \/ step = "wipe"

\* A store puts the one content that its record names.
PutsItsBody(step, l) ==
  step \in {"write", "commit"} => l.put = {l.hand} /\ l.rec.body = {l.hand}

StoresWhole ==
  \A p \in Threads : /\ at[p] \notin RangeSteps /\ loc[p].then # "gate"
                     /\ PutsItsBody(at[p], loc[p])

\* A row without a reference and a file without a row are some thread's to clean up.
RowsOwed == \A c \in Contents : blobs[c] = 0 => \E p \in Threads : Falls(at[p], loc[p], c)
FilesOwed ==
  \A c \in Contents : blobs[c] = NoRow /\ disk[c] # "absent" =>
    \E p \in Threads : Left(at[p], loc[p], c)

CleanInv == StoresWhole /\ RowsOwed /\ FilesOwed

\* What a thread that moves on owes, and what it no longer does.
OwesRows(p, step, l) ==
  \A c \in Contents : blobs'[c] = 0 =>
    Falls(step, l, c) \/ (blobs[c] = 0 /\ ~Falls(at[p], loc[p], c))
OwesFiles(p, step, l) ==
  \A c \in Contents : blobs'[c] = NoRow /\ disk'[c] # "absent" =>
    Left(step, l, c) \/ (blobs[c] = NoRow /\ disk[c] # "absent" /\ ~Left(at[p], loc[p], c))

\* A thread that keeps account of what it owes leaves nothing behind.
LEMMA CleanMove ==
  ASSUME Typed, CleanInv, NEW p \in Threads, NEW step, NEW l, Goto(p, step, l),
         step \notin RangeSteps, l.then # "gate", PutsItsBody(step, l),
         OwesRows(p, step, l), OwesFiles(p, step, l)
  PROVE  CleanInv'
<1>1. /\ \A q \in Threads : at'[q] = IF q = p THEN step ELSE at[q]
      /\ \A q \in Threads \ {p} : loc'[q] = loc[q]
      /\ loc'[p] = IF step = "idle" THEN Blank ELSE l
  BY DEF Goto, Typed, ThreadsOK
<1>2. StoresWhole'
  <2> SUFFICES ASSUME NEW q \in Threads
               PROVE  at'[q] \notin RangeSteps /\ loc'[q].then # "gate" /\ PutsItsBody(at'[q], loc'[q])
    BY DEF StoresWhole, PutsItsBody
  <2>1. CASE q = p /\ step = "idle"
    BY <1>1, <2>1, FreeNames DEF PutsItsBody, RangeSteps
  <2>2. CASE q = p /\ step # "idle"
    BY <1>1, <2>2
  <2>3. CASE q # p
    BY <1>1, <2>3 DEF CleanInv, StoresWhole
  <2> QED
    BY <2>1, <2>2, <2>3
<1>3. \A q \in Threads \ {p} : at'[q] = at[q] /\ loc'[q] = loc[q]
  BY <1>1
<1>4. RowsOwed'
  <2> SUFFICES ASSUME NEW c \in Contents, blobs'[c] = 0
               PROVE  \E q \in Threads : Falls(at'[q], loc'[q], c)
    BY DEF RowsOwed, Falls
  <2>1. CASE Falls(step, l, c)
    BY <1>1, <2>1 DEF Falls, DeletingSteps
  <2>2. CASE blobs[c] = 0 /\ ~Falls(at[p], loc[p], c)
    <3>1. PICK q \in Threads : Falls(at[q], loc[q], c)
      BY <2>2 DEF CleanInv, RowsOwed
    <3> QED
      BY <1>3, <2>2, <3>1
  <2> QED
    BY <2>1, <2>2 DEF OwesRows
<1>5. FilesOwed'
  <2> SUFFICES ASSUME NEW c \in Contents, blobs'[c] = NoRow, disk'[c] # "absent"
               PROVE  \E q \in Threads : Left(at'[q], loc'[q], c)
    BY DEF FilesOwed, Left
  <2>1. CASE Left(step, l, c)
    BY <1>1, <2>1 DEF Left
  <2>2. CASE blobs[c] = NoRow /\ disk[c] # "absent" /\ ~Left(at[p], loc[p], c)
    <3>1. PICK q \in Threads : Left(at[q], loc[q], c)
      BY <2>2 DEF CleanInv, FilesOwed
    <3> QED
      BY <1>3, <2>2, <3>1
  <2> QED
    BY <2>1, <2>2 DEF OwesFiles
<1> QED
  BY <1>2, <1>4, <1>5 DEF CleanInv

\* A transaction takes no row away and leaves none without a reference, but for the orphans it
\* reports.
Reported(orphans) ==
  \A c \in Contents : /\ blobs'[c] = NoRow => blobs[c] = NoRow
                      /\ blobs'[c] = 0 => blobs[c] = 0 \/ c \in orphans

\* The steps after which nothing is owed.
Owing == DeletingSteps \cup {"commit", "wipe"}

\* The common case: a thread that owes nothing, and orphans nothing.
LEMMA CleanFreeMove ==
  ASSUME Typed, CleanInv, NEW p \in Threads, at[p] \notin Owing, NEW step, NEW l,
         Goto(p, step, l), step \notin RangeSteps, l.then # "gate", PutsItsBody(step, l),
         Reported({}), disk' = disk
  PROVE  CleanInv'
<1>1. OwesRows(p, step, l)
  BY DEF OwesRows, Reported, Falls, Owing
<1>2. OwesFiles(p, step, l)
  BY DEF OwesFiles, Reported, Left, Owing, DeletingSteps
<1> QED
  BY <1>1, <1>2, CleanMove

\* A thread that orphans something deletes it next.
LEMMA CleanDeleteThen ==
  ASSUME Typed, CleanInv, NEW p \in Threads, at[p] \notin Owing,
         NEW orphans, NEW step, NEW l \in Locals,
         DeleteThen(p, orphans, step, l), step \notin RangeSteps \cup {"write", "commit"}, l.then # "gate",
         Reported(orphans), disk' = disk
  PROVE  CleanInv'
<1>1. CASE orphans = {}
  BY <1>1, CleanFreeMove DEF DeleteThen, PutsItsBody
<1>2. CASE orphans # {}
  <2> DEFINE d == [l EXCEPT !.todo = orphans, !.then = step]
  <2>1. d.todo = orphans /\ d.then = step
    BY DEF Locals
  <2>2. Goto(p, "delete", d)
    BY <1>2 DEF DeleteThen
  <2> HIDE DEF d
  <2>3. OwesRows(p, "delete", d)
    BY <2>1 DEF OwesRows, Reported, Falls, Owing, DeletingSteps
  <2>4. OwesFiles(p, "delete", d)
    BY DEF OwesFiles, Reported, Left, Owing, DeletingSteps
  <2> QED
    BY <2>1, <2>2, <2>3, <2>4, CleanMove DEF PutsItsBody, RangeSteps
<1> QED
  BY <1>1, <1>2

\* Giving up references orphans what it says it does.
LEMMA ReleaseReported ==
  ASSUME IndexType, NEW ks \in SUBSET Keys, ReleaseAll(ks)
  PROVE  Reported(Orphans(ks))
<1> SUFFICES ASSUME NEW c \in Contents
             PROVE  /\ blobs'[c] = NoRow => blobs[c] = NoRow
                    /\ blobs'[c] = 0 => blobs[c] = 0 \/ c \in Orphans(ks)
  BY DEF Reported
<1> DEFINE n == Cardinality(Naming(ks, c))
<1>1. blobs'[c] = Release(blobs[c], n) /\ blobs[c] \in Int /\ blobs[c] >= NoRow
  BY DEF ReleaseAll, IndexType
<1>2. n \in Nat /\ (Naming(ks, c) = {} => n = 0)
  BY NamingCount, FS_EmptySet
<1>3. c \in Orphans(ks) <=> Naming(ks, c) # {} /\ blobs[c] # NoRow /\ Release(blobs[c], n) = 0
  BY DEF Orphans
<1> HIDE DEF n
<1> QED
  BY <1>1, <1>2, <1>3 DEF Release, NoRow

\* What each transaction orphans.
LEMMA TransactionsReport ==
  ASSUME IndexType
  PROVE  /\ UNCHANGED index => \A orphans : Reported(orphans)
         /\ \A k, r : RefreshEntry(k, r) => Reported({})
         /\ \A k \in Keys : RemoveEntry(k) => Reported(Orphans({k}))
         /\ \A m, u : Invalidate(m, u) => Reported(Orphans(Listed(m, u)))
         /\ \A k \in Keys : \A r : DropBroken(k, r) => Reported(Orphans({k}))
         /\ \A k : RecordAccess(k) => Reported({})
         /\ \A c, h : GrantEligibility(c, h) => Reported({})
         /\ \A cs : IndexSri(cs) \/ PruneSri(cs) => Reported({})
<1>1. \A m, u : Listed(m, u) \in SUBSET Keys
  BY DEF Listed, Primary
<1>2. blobs' = blobs => \A orphans : Reported(orphans)
  BY DEF Reported
<1>3. \A ks \in SUBSET Keys : ReleaseAll(ks) => Reported(Orphans(ks))
  BY ReleaseReported
<1>4. /\ \A k \in Keys : RemoveEntry(k) => Reported(Orphans({k}))
      /\ \A k \in Keys : \A r : DropBroken(k, r) => Reported(Orphans({k}))
  <2>1. \A k \in Keys : {k} \in SUBSET Keys
    OBVIOUS
  <2> QED
    BY <1>3, <2>1 DEF RemoveEntry, DropBroken
<1>5. \A m, u : Invalidate(m, u) => Reported(Orphans(Listed(m, u)))
  BY <1>1, <1>3 DEF Invalidate
<1>6. /\ UNCHANGED index => blobs' = blobs
      /\ \A k, r : RefreshEntry(k, r) => blobs' = blobs
      /\ \A k : RecordAccess(k) => blobs' = blobs
      /\ \A c, h : GrantEligibility(c, h) => blobs' = blobs
      /\ \A cs : IndexSri(cs) \/ PruneSri(cs) => blobs' = blobs
  BY DEF index, RefreshEntry, RecordAccess, GrantEligibility, IndexSri, PruneSri
<1> QED
  BY <1>2, <1>4, <1>5, <1>6

\* Steps that are neither owing nor a store's.
Plain == Steps \ (RangeSteps \cup Owing \cup {"write"})

\* Which steps they are.
LEMMA PlainNames ==
  /\ {"idle", "index", "head", "refresh", "read", "confirm", "drop", "touch", "await", "discard",
      "remove", "prune", "pruning", "serve", "invalidateHead", "totals", "snapshot", "evict",
      "grant"} \subseteq Plain
  /\ \A step \in Plain : /\ step \notin RangeSteps \cup {"write", "commit"}
                         /\ step \notin Owing
                         /\ \A l : PutsItsBody(step, l)
  /\ Blank \in Locals /\ Blank.then = "idle"
BY BlankType, FreeNames DEF Plain, Steps, RangeSteps, Owing, DeletingSteps, PutsItsBody

\* Starting a call that stores nothing leaves nothing behind.
LEMMA CleanCalls ==
  ASSUME Typed, CleanInv, NEW p \in Threads,
         \/ Lookup(p) \/ InvalidateUrl(p) \/ DiscardRepresentation(p)
         \/ CollectGarbage(p) \/ GrantPeer(p) \/ AskedByPeer(p),
         \A c \in Contents : disk[c] # "corrupt"
  PROVE  CleanInv'
<1> USE PlainNames
<1>t. IndexType
  BY DEF Typed
<1>i. at[p] = "idle" /\ at[p] \notin Owing
  BY DEF Lookup, InvalidateUrl, DiscardRepresentation, CollectGarbage, GrantPeer, AskedByPeer
<1>2. CASE Lookup(p)
  <2>1. PICK k \in variants, step \in {"read", "touch"} :
          Goto(p, step, [Blank EXCEPT !.key = k, !.rec = entries[k], !.then = "drop"])
    BY <1>2 DEF Lookup
  <2>2. [Blank EXCEPT !.key = k, !.rec = entries[k], !.then = "drop"].then # "gate"
    BY DEF Locals
  <2> QED
    BY <1>t, <1>i, <1>2, <2>1, <2>2, CleanFreeMove, TransactionsReport DEF Lookup
<1>3. CASE InvalidateUrl(p)
  <2>1. PICK k \in Keys, step \in {"invalidateHead", "idle"} :
          /\ Invalidate(k[1], k[2])
          /\ DeleteThen(p, Orphans(Listed(k[1], k[2])), step, [Blank EXCEPT !.key = k])
    BY <1>3 DEF InvalidateUrl
  <2> DEFINE m == [Blank EXCEPT !.key = k]
             gone == Orphans(Listed(k[1], k[2]))
  <2>2. m \in Locals /\ m.then # "gate"
    BY DEF Locals
  <2>3. Reported(gone)
    BY <1>t, <2>1, TransactionsReport
  <2>4. DeleteThen(p, gone, step, m) /\ disk' = disk
    BY <1>3, <2>1 DEF InvalidateUrl
  <2> HIDE DEF m, gone
  <2>5. step \notin RangeSteps \cup {"write", "commit"}
    BY <2>1
  <2> QED
    BY <1>i, <2>2, <2>3, <2>4, <2>5, CleanDeleteThen
<1>4. CASE DiscardRepresentation(p)
  <2>1. PICK k \in Keys : Goto(p, "discard", [Blank EXCEPT !.key = k, !.rec = entries[k]])
    BY <1>4 DEF DiscardRepresentation
  <2>2. [Blank EXCEPT !.key = k, !.rec = entries[k]].then # "gate"
    BY DEF Locals
  <2> QED
    BY <1>t, <1>i, <1>4, <2>1, <2>2, CleanFreeMove, TransactionsReport DEF DiscardRepresentation
<1>5. CASE CollectGarbage(p)
  BY <1>t, <1>i, <1>5, CleanDeleteThen, TransactionsReport DEF CollectGarbage
<1>6. CASE GrantPeer(p) \/ AskedByPeer(p)
  <2>1. PICK c \in Contents, step \in {"grant", "serve"} : Goto(p, step, [Blank EXCEPT !.hand = c])
    BY <1>6 DEF AskedByPeer, GrantPeer
  <2>2. [Blank EXCEPT !.hand = c].then # "gate"
    BY DEF Locals
  <2> QED
    BY <1>t, <1>i, <1>6, <2>1, <2>2, CleanFreeMove, TransactionsReport DEF AskedByPeer, GrantPeer
<1> QED
  BY <1>2, <1>3, <1>4, <1>5, <1>6

\* Nor do the steps that put and delete no file.
LEMMA CleanRuns ==
  ASSUME Typed, GateInv, CleanInv, NEW p \in Threads,
         \/ Index(p) \/ Head(p) \/ Read(p) \/ Drop(p) \/ Touch(p)
         \/ NotModified(p) \/ Answered(p) \/ Refresh(p) \/ Confirm(p)
         \/ Remove(p) \/ InvalidateHead(p) \/ Discard(p) \/ Prune(p) \/ Pruning(p)
         \/ ServePeer(p) \/ Totals(p) \/ Snapshot(p) \/ Evict(p) \/ Grant(p)
  PROVE  CleanInv'
<1> USE PlainNames, LocalsOf
<1>t. IndexType
  BY DEF Typed
<1>f. /\ loc[p].then # "gate"
      /\ loc[p].then \notin RangeSteps \cup {"write", "commit"}
      /\ PutsItsBody(loc[p].then, loc[p])
  BY DEF CleanInv, StoresWhole, GateInv, ThenFree, Free, Held, SharingSteps, RangeSteps, PutsItsBody
<1>i. at[p] \notin Owing
  BY DEF Index, Head, Read, Drop, Touch, NotModified, Answered, Refresh, Confirm, Remove,
         InvalidateHead, Discard, Prune, Pruning, ServePeer, Totals, Snapshot, Evict, Grant,
         Owing, DeletingSteps
<1>idle. Goto(p, "idle", Blank) /\ Reported({}) /\ disk' = disk => CleanInv'
  BY <1>i, CleanFreeMove
<1>sound. loc[p].rec \in Entry => \A c \in loc[p].rec.body : disk[c] # "corrupt"
  BY DEF GateInv, NothingRots, Entry
<1>1. CASE Index(p)
  BY <1>t, <1>f, <1>i, <1>1, CleanFreeMove, TransactionsReport DEF Index
<1>2. CASE Head(p)
  <2>1. CASE Goto(p, "totals", loc[p])
    BY <1>t, <1>f, <1>i, <1>2, <2>1, CleanFreeMove, TransactionsReport DEF Head
  <2>2. CASE ~Goto(p, "totals", loc[p])
    <3>1. PICK g \in StoredGets(loc[p].key), step \in {"refresh", "remove"} :
            Goto(p, step, [loc[p] EXCEPT !.key = g, !.rec = entries[g], !.then = "totals"])
      BY <1>2, <2>2 DEF Head
    <3> DEFINE m == [loc[p] EXCEPT !.key = g, !.rec = entries[g], !.then = "totals"]
    <3>2. m.then # "gate" /\ Goto(p, step, m)
      BY <3>1 DEF Locals
    <3>3. UNCHANGED index /\ disk' = disk
      BY <1>2 DEF Head
    <3>4. Reported({})
      BY <1>t, <3>3, TransactionsReport
    <3> HIDE DEF m
    <3>5. step \notin RangeSteps /\ PutsItsBody(step, m)
      BY <3>1
    <3> QED
      BY <1>i, <3>2, <3>3, <3>4, <3>5, CleanFreeMove
  <2> QED
    BY <2>1, <2>2
<1>3. CASE Read(p)
  <2>1. loc[p].rec \in Entry
    BY <1>3 DEF Read, WithRecord
  <2>2. PICK step \in {"touch", "await", "drop"} : Goto(p, step, loc[p])
    BY <1>3, <1>sound, <2>1 DEF Read, ReadNext
  <2> QED
    BY <1>t, <1>f, <1>i, <1>3, <2>2, CleanFreeMove, TransactionsReport DEF Read
<1>4. CASE Drop(p)
  <2>1. CASE Unchanged(loc[p].key, loc[p].rec)
    <3>1. Reported(Orphans({loc[p].key}))
      BY <1>t, <1>4, <2>1, TransactionsReport DEF Drop
    <3> QED
      BY <1>f, <1>i, <1>4, <2>1, <3>1, CleanDeleteThen DEF Drop
  <2>2. CASE ~Unchanged(loc[p].key, loc[p].rec)
    BY <1>t, <1>idle, <1>4, <2>2, TransactionsReport DEF Drop
  <2> QED
    BY <2>1, <2>2
<1>5. CASE Touch(p)
  BY <1>t, <1>idle, <1>5, TransactionsReport DEF Touch
<1>6. CASE NotModified(p)
  <2> DEFINE l == [loc[p] EXCEPT !.rec = [entries[loc[p].key] EXCEPT !.tag = loc[p].rec.tag],
                                 !.then = "confirm"]
  <2>1. l.then # "gate"
    BY DEF Locals
  <2>2. Goto(p, "idle", Blank) \/ Goto(p, "refresh", l)
    BY <1>6 DEF NotModified
  <2> QED
    BY <1>t, <1>i, <1>idle, <1>6, <2>1, <2>2, CleanFreeMove, TransactionsReport DEF NotModified
<1>7. CASE Answered(p)
  BY <1>t, <1>idle, <1>7, TransactionsReport DEF Answered
<1>8. CASE Refresh(p)
  BY <1>t, <1>f, <1>i, <1>8, CleanFreeMove, TransactionsReport DEF Refresh
<1>9. CASE Confirm(p)
  <2> DEFINE d == [loc[p] EXCEPT !.then = "drop"]
  <2>1. d.then # "gate"
    BY DEF Locals
  <2>2. loc[p].rec \in Entry
    BY <1>9 DEF Confirm, WithRecord
  <2>3. Goto(p, "drop", d) \/ Goto(p, "idle", Blank)
    BY <1>9, <1>sound, <2>2 DEF Confirm
  <2> QED
    BY <1>t, <1>i, <1>idle, <1>9, <2>1, <2>3, CleanFreeMove, TransactionsReport DEF Confirm
<1>10. CASE Remove(p)
  <2>1. Reported(Orphans({loc[p].key}))
    BY <1>t, <1>10, TransactionsReport DEF Remove
  <2> QED
    BY <1>f, <1>i, <1>10, <2>1, CleanDeleteThen DEF Remove
<1>11. CASE InvalidateHead(p)
  <2>1. Reported(Orphans(Listed("HEAD", loc[p].key[2])))
    BY <1>t, <1>11, TransactionsReport DEF InvalidateHead
  <2> QED
    BY <1>f, <1>i, <1>11, <2>1, CleanDeleteThen DEF InvalidateHead
<1>12. CASE Discard(p)
  <2>1. CASE Unchanged(loc[p].key, loc[p].rec)
    <3>1. Reported(Orphans({loc[p].key}))
      BY <1>t, <1>12, <2>1, TransactionsReport DEF Discard
    <3> QED
      BY <1>f, <1>i, <1>12, <2>1, <3>1, CleanDeleteThen DEF Discard
  <2>2. CASE ~Unchanged(loc[p].key, loc[p].rec)
    BY <1>t, <1>idle, <1>12, <2>2, TransactionsReport DEF Discard
  <2> QED
    BY <2>1, <2>2
<1>13. CASE Prune(p)
  <2>1. [loc[p] EXCEPT !.todo = StaleSri].then # "gate"
    BY <1>f DEF Locals
  <2> QED
    BY <1>t, <1>i, <1>13, <2>1, CleanFreeMove, TransactionsReport DEF Prune
<1>14. CASE Pruning(p)
  BY <1>t, <1>idle, <1>14, TransactionsReport DEF Pruning
<1>15. CASE ServePeer(p)
  <2>1. Goto(p, "idle", loc[p])
    BY <1>15 DEF ServePeer, GateInv, NothingRots
  <2> QED
    BY <1>t, <1>f, <1>i, <1>15, <2>1, CleanFreeMove, TransactionsReport DEF ServePeer
<1>16. CASE Totals(p)
  <2>1. [Blank EXCEPT !.size = Cardinality(Counted)].then # "gate"
    BY DEF Locals
  <2> QED
    BY <1>t, <1>i, <1>16, <2>1, CleanFreeMove, TransactionsReport DEF Totals
<1>17. CASE Snapshot(p)
  <2>1. [loc[p] EXCEPT !.victims = {k \in Keys : entries[k] # NoEntry}].then # "gate"
    BY <1>f DEF Locals
  <2> QED
    BY <1>t, <1>i, <1>17, <2>1, CleanFreeMove, TransactionsReport DEF Snapshot
<1>18. CASE Evict(p)
  <2>1. CASE loc[p].size <= Target \/ loc[p].victims = {}
    BY <1>t, <1>idle, <1>18, <2>1, TransactionsReport DEF Evict
  <2>2. CASE ~(loc[p].size <= Target \/ loc[p].victims = {})
    <3>1. PICK k \in loc[p].victims :
            /\ RemoveEntry(k)
            /\ \/ Orphans({k}) = {} /\ Goto(p, "evict", [loc[p] EXCEPT !.victims = @ \ {k}])
               \/ Goto(p, "charge", [loc[p] EXCEPT !.victims = @ \ {k}, !.todo = Orphans({k})])
      BY <1>18, <2>2 DEF Evict
    <3> DEFINE rest == [loc[p] EXCEPT !.victims = @ \ {k}]
               d == [loc[p] EXCEPT !.victims = @ \ {k}, !.todo = Orphans({k})]
    <3>2. rest.then # "gate" /\ d.then # "gate" /\ d.todo = Orphans({k})
      BY <1>f DEF Locals
    <3>3. Reported(Orphans({k})) /\ disk' = disk
      BY <1>t, <1>18, <3>1, TransactionsReport DEF Evict
    <3>4. CASE Orphans({k}) = {} /\ Goto(p, "evict", rest)
      BY <1>i, <3>2, <3>3, <3>4, CleanFreeMove
    <3>5. CASE Goto(p, "charge", d)
      <4> HIDE DEF d
      <4>1. OwesRows(p, "charge", d)
        BY <1>i, <3>2, <3>3 DEF OwesRows, Reported, Falls, Owing, DeletingSteps
      <4>2. OwesFiles(p, "charge", d)
        BY <1>i, <3>3 DEF OwesFiles, Reported, Left, Owing, DeletingSteps
      <4>3. "charge" \notin RangeSteps /\ PutsItsBody("charge", d)
        BY DEF RangeSteps, PutsItsBody
      <4> QED
        BY <3>2, <3>5, <4>1, <4>2, <4>3, CleanMove
    <3> QED
      BY <3>1, <3>4, <3>5
  <2> QED
    BY <2>1, <2>2
<1>19. CASE Grant(p)
  <2>1. Reported({})
    BY <1>t, <1>19, TransactionsReport DEF Grant
  <2> QED
    BY <1>idle, <1>19, <2>1 DEF Grant
<1> QED
  BY <1>1, <1>2, <1>3, <1>4, <1>5, <1>6, <1>7, <1>8, <1>9, <1>10, <1>11, <1>12, <1>13,
     <1>14, <1>15, <1>16, <1>17, <1>18, <1>19

\* put_entry gives rows to the files of its store, and reports what it replaced.  With exact
\* counts no content that the record named before is without a row.
LEMMA CleanCommit ==
  ASSUME Typed, GateInv, RefcountsExact, CleanInv, NEW p \in Threads, Commit(p)
  PROVE  CleanInv'
<1> USE PlainNames, LocalsOf
<1> DEFINE l == loc[p]
<1>t. IndexType
  BY DEF Typed
<1>i. at[p] = "commit" /\ l.put = {l.hand} /\ l.rec.body = {l.hand} /\ l.rec \in Entry
  BY DEF Commit, CleanInv, StoresWhole, PutsItsBody, WithRecord
<1>f. l.then # "gate" /\ l.then \notin RangeSteps \cup {"write", "commit"}
  BY DEF CleanInv, StoresWhole, GateInv, ThenFree, Free, Held, SharingSteps, RangeSteps
<1>b. \A c \in Contents : blobs[c] \in Int /\ blobs[c] >= NoRow
  BY <1>t DEF IndexType
<1>1. ~MissingBlob(l.key, l.rec, l.put)
  BY <1>i DEF MissingBlob, Acquired
<1> DEFINE orphans == PutOrphans(l.key, l.rec)
<1>2. PutEntry(l.key, l.rec) /\ DeleteThen(p, orphans, l.then, l) /\ disk' = disk
  BY <1>1 DEF Commit
<1>3. \A c \in Contents : blobs'[c] = 0 => c \in orphans \/ blobs[c] = 0
  BY <1>2, <1>b DEF PutEntry, PutOrphans, Replaced, Release, Acquire, NoRow
<1>4. \A c \in Contents : blobs'[c] = NoRow => blobs[c] = NoRow /\ c \notin l.put
  <2> SUFFICES ASSUME NEW c \in Contents, blobs'[c] = NoRow
               PROVE  blobs[c] = NoRow /\ c \notin l.put
    OBVIOUS
  <2>1. blobs[c] = NoRow /\ c \notin Acquired(l.key, l.rec)
    BY <1>2, <1>b DEF PutEntry, Replaced, Acquired, Release, Acquire, NoRow
  <2>2. c \notin Body(entries[l.key])
    BY <2>1 DEF RefcountsExact, Naming
  <2> QED
    BY <1>i, <2>1, <2>2 DEF Acquired
<1> DEFINE d == [l EXCEPT !.todo = orphans, !.then = l.then]
<1>5. d.todo = orphans /\ d.then = l.then
  BY DEF Locals
<1>6. \/ orphans = {} /\ Goto(p, l.then, l)
      \/ Goto(p, "delete", d)
  BY <1>2 DEF DeleteThen
<1> HIDE DEF d, orphans, l
<1>7. CASE orphans = {} /\ Goto(p, l.then, l)
  <2>1. OwesRows(p, l.then, l)
    BY <1>i, <1>3, <1>7 DEF OwesRows, Falls, DeletingSteps
  <2>2. OwesFiles(p, l.then, l)
    BY <1>i, <1>2, <1>4 DEF OwesFiles, Left, l
  <2> QED
    BY <1>f, <1>7, <2>1, <2>2, CleanMove DEF PutsItsBody
<1>8. CASE Goto(p, "delete", d)
  <2>1. OwesRows(p, "delete", d)
    BY <1>i, <1>3, <1>5 DEF OwesRows, Falls, DeletingSteps
  <2>2. OwesFiles(p, "delete", d)
    BY <1>i, <1>2, <1>4 DEF OwesFiles, Left, l
  <2> QED
    BY <1>f, <1>5, <1>8, <2>1, <2>2, CleanMove DEF PutsItsBody, RangeSteps
<1> QED
  BY <1>6, <1>7, <1>8

\* A store writes the file that it gives a row to next, and one that fails wrote nothing.
LEMMA CleanStores ==
  ASSUME Typed, CleanInv, NEW p \in Threads, Store(p) \/ WriteFile(p) \/ WriteFails(p)
  PROVE  CleanInv'
<1> USE PlainNames, LocalsOf
<1>t. IndexType /\ disk \in [Contents -> {"absent", "whole", "corrupt"}]
  BY DEF Typed, DiskOK
<1>0. loc[p].then # "gate" /\ at[p] \notin RangeSteps /\ PutsItsBody(at[p], loc[p])
  BY DEF CleanInv, StoresWhole
<1>1. CASE Store(p)
  <2>1. PICK k \in Keys, t \in Bodies :
          Goto(p, IF disk[Payload(k, t)] = "absent" THEN "write" ELSE "commit",
               [Blank EXCEPT !.key = k, !.rec = WholeRecord(k, t, 0), !.put = {Payload(k, t)},
                             !.hand = Payload(k, t), !.then = "index"])
    BY <1>1 DEF Store
  <2> DEFINE c == Payload(k, t)
             l == [Blank EXCEPT !.key = k, !.rec = WholeRecord(k, t, 0), !.put = {c},
                                !.hand = c, !.then = "index"]
             step == IF disk[c] = "absent" THEN "write" ELSE "commit"
  <2>2. l.then = "index" /\ l.put = {c} /\ l.hand = c /\ l.rec = WholeRecord(k, t, 0)
    BY DEF Locals
  <2>3. l.rec.body = {l.hand}
    BY <2>2 DEF WholeRecord
  <2>4. Goto(p, step, l) /\ UNCHANGED index /\ disk' = disk /\ at[p] = "idle" /\ step \in {"write", "commit"}
    BY <1>1, <2>1 DEF Store
  <2> HIDE DEF l, step
  <2>5. Reported({})
    BY <1>t, <2>4, TransactionsReport
  <2> QED
    BY <2>2, <2>3, <2>4, <2>5, CleanFreeMove DEF PutsItsBody, RangeSteps, Owing, DeletingSteps
<1>2. CASE WriteFile(p)
  <2>1. /\ at[p] = "write" /\ Goto(p, "commit", loc[p]) /\ UNCHANGED index
        /\ disk' = [disk EXCEPT ![loc[p].hand] = "whole"]
    BY <1>0, <1>2 DEF WriteFile, WritingNext, RangeSteps
  <2>2. loc[p].put = {loc[p].hand} /\ loc[p].rec.body = {loc[p].hand}
    BY <1>0, <2>1 DEF PutsItsBody
  <2>3. OwesRows(p, "commit", loc[p])
    BY <2>1 DEF OwesRows, index, Falls, DeletingSteps
  <2>4. OwesFiles(p, "commit", loc[p])
    BY <1>t, <2>1, <2>2 DEF OwesFiles, index, Left
  <2> QED
    BY <1>0, <2>1, <2>2, <2>3, <2>4, CleanMove DEF PutsItsBody, RangeSteps
<1>3. CASE WriteFails(p)
  <2>1. at[p] = "write" /\ Goto(p, "idle", Blank) /\ UNCHANGED index /\ disk' = disk
    BY <1>0, <1>3 DEF WriteFails, WritingNext, RangeSteps
  <2>2. Reported({})
    BY <1>t, <2>1, TransactionsReport
  <2> QED
    BY <2>1, <2>2, CleanFreeMove DEF Owing, DeletingSteps
<1> QED
  BY <1>1, <1>2, <1>3

\* A deletion takes what it was told of row by row and file by file, and a clear every file.
LEMMA CleanDeletes ==
  ASSUME Typed, GateInv, CleanInv, NEW p \in Threads,
         Delete(p) \/ ForgetRow(p) \/ Unlink(p) \/ Clear(p) \/ Wipe(p) \/ Charge(p)
  PROVE  CleanInv'
<1> USE PlainNames, LocalsOf
<1>t. IndexType /\ disk \in [Contents -> {"absent", "whole", "corrupt"}]
  BY DEF Typed, DiskOK
<1>f. /\ loc[p].then # "gate" /\ loc[p].then \notin RangeSteps \cup {"write", "commit"}
      /\ loc[p].then \notin {"unlink", "wipe"}
  BY DEF CleanInv, StoresWhole, GateInv, ThenFree, Free, Held, SharingSteps, ExcludingSteps, RangeSteps
<1>on. /\ {"delete", "forget", "unlink", "wipe"} \cap RangeSteps = {}
       /\ \A l : \A step \in {"delete", "forget", "unlink", "wipe"} : PutsItsBody(step, l)
  BY DEF RangeSteps, PutsItsBody
<1>1. CASE Delete(p) \/ Charge(p)
  <2> DEFINE freed == Cardinality({c \in loc[p].todo : blobs[c] # NoRow})
             m == [loc[p] EXCEPT !.size = IF freed > @ THEN 0 ELSE @ - freed, !.then = "evict"]
  <2>1. m.todo = loc[p].todo /\ m.then = "evict"
    BY DEF Locals
  <2>2. /\ Goto(p, "forget", loc[p]) \/ Goto(p, "delete", m)
        /\ at[p] \in {"delete", "charge"} /\ UNCHANGED <<index, disk>>
    BY <1>1 DEF Delete, Charge
  <2> HIDE DEF m
  <2>3. \A step \in {"forget", "delete"} : \A l : l.todo = loc[p].todo =>
          OwesRows(p, step, l) /\ OwesFiles(p, step, l)
    BY <2>2 DEF OwesRows, OwesFiles, index, Falls, Left, DeletingSteps
  <2> QED
    BY <1>f, <1>on, <2>1, <2>2, <2>3, CleanMove
<1>next. ASSUME NEW l, NextCandidate(p, l), l.then = loc[p].then, at[p] \in {"forget", "unlink"},
                blobs' = blobs, \A c \in Contents : blobs[c] = 0 /\ c \in loc[p].todo => c \in l.todo,
                \A c \in Contents : disk'[c] # "absent" => disk[c] # "absent" /\ ~Left(at[p], loc[p], c)
         PROVE  CleanInv'
  <2>1. CASE l.todo = {}
    <3>1. Goto(p, l.then, l)
      BY <1>next, <2>1 DEF NextCandidate
    <3>2. OwesRows(p, l.then, l) /\ OwesFiles(p, l.then, l)
      BY <1>next, <2>1 DEF OwesRows, OwesFiles, Falls
    <3> QED
      BY <1>f, <1>next, <3>1, <3>2, CleanMove DEF PutsItsBody
  <2>2. CASE l.todo # {}
    <3>1. Goto(p, "forget", l)
      BY <1>next, <2>2 DEF NextCandidate
    <3>2. OwesRows(p, "forget", l) /\ OwesFiles(p, "forget", l)
      BY <1>next, <2>2 DEF OwesRows, OwesFiles, Falls, DeletingSteps
    <3> QED
      BY <1>f, <1>on, <1>next, <3>1, <3>2, CleanMove
  <2> QED
    BY <2>1, <2>2
<1>2. CASE ForgetRow(p)
  <2>1. PICK c \in loc[p].todo :
          LET l == [loc[p] EXCEPT !.todo = @ \ {c}, !.gone = c]
          IN IF Unreferenced(c)
             THEN Forget(c) /\ Goto(p, "unlink", l) /\ GateKept
             ELSE UNCHANGED index /\ NextCandidate(p, l)
    BY <1>2 DEF ForgetRow
  <2> DEFINE l == [loc[p] EXCEPT !.todo = @ \ {c}, !.gone = c]
  <2>2. l.then = loc[p].then /\ l.gone = c /\ c \in Contents /\ l.todo = loc[p].todo \ {c}
    BY DEF Locals
  <2>3. at[p] = "forget" /\ disk' = disk
    BY <1>2 DEF ForgetRow
  <2>4. CASE Unreferenced(c)
    <3>1. Forget(c) /\ Goto(p, "unlink", l)
      BY <2>1, <2>4
    <3>2. /\ blobs'[c] = NoRow
          /\ \A d \in Contents \ {c} : blobs'[d] = blobs[d]
      BY <1>t, <2>2, <3>1 DEF Forget, IndexType
    <3> HIDE DEF l
    <3>3. OwesRows(p, "unlink", l)
      BY <2>2, <2>3, <3>2 DEF OwesRows, Falls, DeletingSteps, NoRow
    <3>4. OwesFiles(p, "unlink", l)
      BY <2>2, <2>3, <3>2 DEF OwesFiles, Left
    <3> QED
      BY <1>f, <1>on, <2>2, <3>1, <3>3, <3>4, CleanMove
  <2>5. CASE ~Unreferenced(c)
    <3>1. UNCHANGED index /\ NextCandidate(p, l)
      BY <2>1, <2>5
    <3> HIDE DEF l
    <3>2. \A d \in Contents : blobs[d] = 0 /\ d \in loc[p].todo => d \in l.todo
      BY <2>2, <2>5 DEF Unreferenced
    <3>3. \A d \in Contents : ~Left(at[p], loc[p], d)
      BY <2>3 DEF Left
    <3> QED
      BY <1>next, <2>2, <2>3, <3>1, <3>2, <3>3 DEF index
  <2> QED
    BY <2>4, <2>5
<1>3. CASE Unlink(p)
  <2> DEFINE l == [loc[p] EXCEPT !.gone = Empty]
  <2>1. l.then = loc[p].then /\ l.todo = loc[p].todo
    BY DEF Locals
  <2>2. /\ at[p] = "unlink" /\ UNCHANGED index /\ NextCandidate(p, l)
        /\ disk' = [disk EXCEPT ![loc[p].gone] = "absent"]
    BY <1>3 DEF Unlink
  <2> HIDE DEF l
  <2>3. \A c \in Contents : disk'[c] # "absent" => disk[c] # "absent" /\ ~Left(at[p], loc[p], c)
    BY <1>t, <2>2 DEF Left
  <2> QED
    BY <1>next, <2>1, <2>2, <2>3 DEF index
<1>4. CASE Clear(p)
  <2>1. Goto(p, "wipe", Blank) /\ \A c \in Contents : blobs'[c] = NoRow
    BY <1>4 DEF Clear, ClearIndex
  <2>2. OwesRows(p, "wipe", Blank) /\ OwesFiles(p, "wipe", Blank)
    BY <2>1 DEF OwesRows, OwesFiles, Left, NoRow
  <2> QED
    BY <1>on, <2>1, <2>2, CleanMove
<1>5. CASE Wipe(p)
  <2>1. /\ at[p] = "wipe" /\ Goto(p, "idle", Blank) /\ UNCHANGED index
        /\ \A c \in Contents : disk'[c] = "absent"
    BY <1>5 DEF Wipe
  <2>2. OwesRows(p, "idle", Blank) /\ OwesFiles(p, "idle", Blank)
    BY <2>1 DEF OwesRows, OwesFiles, index, Falls, DeletingSteps
  <2> QED
    BY <2>1, <2>2, CleanMove
<1> QED
  BY <1>1, <1>2, <1>3, <1>4, <1>5

\* Every step but those of a range does, where counts are exact and no file rots.
LEMMA CleanNext ==
  ASSUME Corruptible = {}, "partial" \notin Ops
  PROVE  Typed /\ GateInv /\ RefcountsExact /\ CleanInv /\ [Next]_vars => CleanInv'
<1> SUFFICES ASSUME Typed, GateInv, RefcountsExact, CleanInv, [Next]_vars PROVE CleanInv'
  OBVIOUS
<1>s. \A c \in Contents : disk[c] # "corrupt"
  BY DEF GateInv, NothingRots
<1>1. CASE Rot
  BY <1>1 DEF Rot
<1>2. ASSUME NEW p \in Threads, Calls(p) PROVE CleanInv'
  <2>1. ~StorePartial(p)
    BY DEF StorePartial
  <2> QED
    BY <1>2, <1>s, <2>1, CleanCalls, CleanStores, CleanDeletes DEF Calls
<1>3. ASSUME NEW p \in Threads, Waits(p) PROVE CleanInv'
  <2>1. ~PutSlice(p)
    BY DEF PutSlice, CleanInv, StoresWhole, RangeSteps
  <2> QED
    BY <1>3, <2>1, CleanDeletes DEF Waits
<1>4. ASSUME NEW p \in Threads, Runs(p) PROVE CleanInv'
  <2>1. ~Condemn(p)
    BY DEF Condemn, GateInv, NothingRots
  <2>2. ~Join(p) /\ ~Digest(p)
    BY DEF Join, Digest, CleanInv, StoresWhole, RangeSteps
  <2> QED
    BY <1>4, <2>1, <2>2, CleanRuns, CleanStores, CleanCommit, CleanDeletes DEF Runs
<1>5. CASE UNCHANGED vars
  BY <1>5 DEF vars, index, threads, CleanInv, StoresWhole, PutsItsBody, RowsOwed, FilesOwed, Falls, Left
<1> QED
  BY <1>1, <1>2, <1>3, <1>4, <1>5 DEF Next

\* Between calls the store holds exactly what its entries name: whatever stores, evictions,
\* deletions and clears overlapped, every content that lost its last reference was deleted by a
\* call that was told so, and every file that was written got its row (cache.rs:426-446,
\* 1380-1385).  Where no file rots, and no range is stored: a range that fails leaves its slice.
THEOREM NothingIsLeftBehind ==
  ASSUME Corruptible = {}, "partial" \notin Ops
  PROVE  Spec /\ [][RefreshesKeepBody]_vars => []QuietIsClean
<1>1. Init => CleanInv
  <2> SUFFICES ASSUME Init PROVE CleanInv
    OBVIOUS
  <2>1. StoresWhole
    BY PlainNames DEF Init, StoresWhole, RangeSteps, PutsItsBody
  <2> QED
    BY <2>1 DEF Init, IndexInit, CleanInv, RowsOwed, FilesOwed, NoRow
<1>2. GateInv /\ CleanInv => QuietIsClean
  <2> SUFFICES ASSUME GateInv, CleanInv, AllIdle, NEW c \in Contents
               PROVE  blobs[c] # 0 /\ (blobs[c] = NoRow <=> disk[c] = "absent")
    BY DEF QuietIsClean
  <2>1. blobs[c] # 0
    BY DEF AllIdle, CleanInv, RowsOwed, Falls, DeletingSteps
  <2>2. blobs[c] = NoRow => disk[c] = "absent"
    BY DEF AllIdle, CleanInv, FilesOwed, Left
  <2>3. blobs[c] # NoRow => disk[c] = "whole"
    BY DEF GateInv, RowsHaveFiles
  <2> QED
    BY <2>1, <2>2, <2>3
<1>3. Typed /\ GateInv /\ RefcountsExact /\ CleanInv /\ [Next]_vars => CleanInv'
  BY CleanNext
<1>4. Spec => []GateInv
  BY GateAlways
<1> QED
  BY <1>1, <1>2, <1>3, <1>4, AlwaysTyped, CountsAreExact, PTL DEF Spec

(***************************************************************************)
(* What a clear leaves.                                                    *)
(***************************************************************************)

\* A refresh finds a record to overwrite: what refresh_entry leaves to its caller, and a clear
\* between the look and the refresh breaks.
RefreshesFindOne ==
  \A p \in Threads : Refresh(p) => entries[loc[p].key] # NoEntry

\* Only a commit makes a record where there is none.
RecordsShrink == \A k \in Keys : entries[k] = NoEntry => entries'[k] = NoEntry

\* What each transaction does to the records.
LEMMA TransactionsMakeNone ==
  ASSUME IndexType
  PROVE  /\ UNCHANGED index => RecordsShrink
         /\ \A k \in Keys : \A r : RefreshEntry(k, r) /\ entries[k] # NoEntry => RecordsShrink
         /\ \A k \in Keys : RemoveEntry(k) => RecordsShrink
         /\ \A m, u : Invalidate(m, u) => RecordsShrink
         /\ \A k \in Keys : \A r : DropBroken(k, r) => RecordsShrink
         /\ \A k \in Keys : RecordAccess(k) => RecordsShrink
         /\ ClearIndex => RecordsShrink
         /\ \A c \in Contents : Forget(c) => RecordsShrink
         /\ \A c, h : GrantEligibility(c, h) => RecordsShrink
         /\ \A cs : IndexSri(cs) \/ PruneSri(cs) => RecordsShrink
<1>1. \A ks : ReleaseAll(ks) => RecordsShrink
  BY DEF ReleaseAll, RecordsShrink
<1>2. \A k \in Keys : RecordAccess(k) => RecordsShrink
  BY DEF RecordAccess, RecordsShrink, IndexType
<1>3. \A k \in Keys : \A r : RefreshEntry(k, r) /\ entries[k] # NoEntry => RecordsShrink
  BY DEF RefreshEntry, RecordsShrink, IndexType
<1>4. /\ \A k \in Keys : RemoveEntry(k) => RecordsShrink
      /\ \A m, u : Invalidate(m, u) => RecordsShrink
      /\ \A k \in Keys : \A r : DropBroken(k, r) => RecordsShrink
  BY <1>1 DEF RemoveEntry, Invalidate, DropBroken
<1>5. entries' = entries => RecordsShrink
  BY DEF RecordsShrink
<1>6. /\ UNCHANGED index => RecordsShrink
      /\ ClearIndex => RecordsShrink
      /\ \A c \in Contents : Forget(c) => RecordsShrink
      /\ \A c, h : GrantEligibility(c, h) => RecordsShrink
      /\ \A cs : IndexSri(cs) \/ PruneSri(cs) => RecordsShrink
  BY <1>5 DEF index, ClearIndex, RecordsShrink, Forget, GrantEligibility, IndexSri, PruneSri
<1> QED
  BY <1>2, <1>3, <1>4, <1>6

\* Where refreshes find theirs, only put_entry adds a record.
LEMMA OnlyCommitsMakeOne ==
  ASSUME Typed, RefreshesFindOne, [Next]_vars
  PROVE  RecordsShrink \/ \E p \in Threads : Commit(p)
<1>t. IndexType
  BY DEF Typed
<1>1. CASE Rot \/ UNCHANGED vars
  BY <1>t, <1>1, TransactionsMakeNone DEF Rot, vars
<1>2. ASSUME NEW p \in Threads, Calls(p) PROVE RecordsShrink
  <2>1. CASE InvalidateUrl(p)
    BY <1>t, <2>1, TransactionsMakeNone DEF InvalidateUrl
  <2>2. CASE Clear(p)
    BY <1>t, <2>2, TransactionsMakeNone DEF Clear
  <2>3. CASE UNCHANGED index
    BY <1>t, <2>3, TransactionsMakeNone
  <2> QED
    BY <1>2, <2>1, <2>2, <2>3
    DEF Calls, Store, StorePartial, Lookup, DiscardRepresentation, CollectGarbage, GrantPeer, AskedByPeer
<1>3. ASSUME NEW p \in Threads, Waits(p) PROVE RecordsShrink
  BY <1>t, <1>3, TransactionsMakeNone DEF Waits, Delete, PutSlice
<1>4. ASSUME NEW p \in Threads, Runs(p) PROVE RecordsShrink \/ Commit(p)
  <2> USE LocalsOf
  <2>1. CASE Index(p) \/ Digest(p) \/ Pruning(p)
    BY <1>t, <2>1, TransactionsMakeNone DEF Index, Digest, Pruning
  <2>2. CASE Drop(p)
    BY <1>t, <2>2, TransactionsMakeNone DEF Drop
  <2>3. CASE Touch(p)
    BY <1>t, <2>3, TransactionsMakeNone DEF Touch
  <2>4. CASE Refresh(p)
    BY <1>t, <2>4, TransactionsMakeNone DEF Refresh, RefreshesFindOne
  <2>5. CASE Remove(p) \/ Discard(p) \/ Evict(p)
    <3>1. UNCHANGED index \/ \E k \in Keys : RemoveEntry(k)
      BY <2>5 DEF Remove, Discard, Evict
    <3> QED
      BY <1>t, <3>1, TransactionsMakeNone
  <2>6. CASE InvalidateHead(p)
    BY <1>t, <2>6, TransactionsMakeNone DEF InvalidateHead
  <2>7. CASE ForgetRow(p)
    <3>1. UNCHANGED index \/ \E c \in Contents : Forget(c)
      BY <2>7 DEF ForgetRow
    <3> QED
      BY <1>t, <3>1, TransactionsMakeNone
  <2>8. CASE Grant(p)
    BY <1>t, <2>8, TransactionsMakeNone DEF Grant
  <2>9. CASE UNCHANGED index
    BY <1>t, <2>9, TransactionsMakeNone
  <2> QED
    BY <1>4, <2>1, <2>2, <2>3, <2>4, <2>5, <2>6, <2>7, <2>8, <2>9
    DEF Runs, WriteFile, WriteFails, Head, Join, Read, Condemn, NotModified, Answered,
        Confirm, Unlink, Prune, Wipe, ServePeer, Totals, Snapshot, Charge
<1> QED
  BY <1>1, <1>2, <1>3, <1>4 DEF Next

\* While the files go, no record comes back.
Emptied == \A p \in Threads : at[p] = "wipe" => \A k \in Keys : entries[k] = NoEntry

\* Where a thread that is to wipe comes from.
LEMMA WipesAfterClear ==
  ASSUME Typed, GateInv, NEW p \in Threads, NEW q \in Threads, Calls(q) \/ Waits(q) \/ Runs(q),
         at'[p] = "wipe"
  PROVE  at[p] = "wipe" \/ (p = q /\ Clear(p))
<1> SUFFICES ASSUME at[p] # "wipe" PROVE p = q /\ Clear(p)
  OBVIOUS
<1>f. loc[q].then # "wipe" /\ {"index", "totals", "drop", "refresh", "remove"} \cap {"wipe"} = {}
  BY DEF GateInv, ThenFree, Free, Held, ExcludingSteps
<1>1. ASSUME NEW step, NEW l, Goto(q, step, l), step # "wipe" PROVE FALSE
  BY <1>1 DEF Goto, Typed, ThreadsOK
<1>2. ASSUME NEW orphans, NEW step, NEW l, DeleteThen(q, orphans, step, l), step # "wipe" PROVE FALSE
  BY <1>1, <1>2 DEF DeleteThen
<1>3. ASSUME NEW l, NextCandidate(q, l), l.then # "wipe" PROVE FALSE
  BY <1>1, <1>3 DEF NextCandidate
<1>4. CASE Calls(q)
  <2>1. CASE Store(q) \/ StorePartial(q) \/ Lookup(q) \/ DiscardRepresentation(q) \/ GrantPeer(q) \/ AskedByPeer(q)
    BY <1>1, <2>1 DEF Store, StorePartial, Lookup, DiscardRepresentation, GrantPeer, AskedByPeer
  <2>2. CASE InvalidateUrl(q) \/ CollectGarbage(q)
    BY <1>2, <2>2 DEF InvalidateUrl, CollectGarbage
  <2>3. CASE Clear(q)
    <3>1. p = q
      BY <2>3 DEF Clear, Goto, Typed, ThreadsOK
    <3> QED
      BY <2>3, <3>1
  <2> QED
    BY <1>4, <2>1, <2>2, <2>3 DEF Calls
<1>5. CASE Waits(q)
  BY <1>1, <1>5 DEF Waits, Delete, PutSlice
<1>6. CASE Runs(q)
  <2>1. CASE WriteFile(q) \/ WriteFails(q) \/ Index(q) \/ Head(q) \/ Digest(q)
    BY <1>1, <2>1 DEF WriteFile, WritingNext, WriteFails, Index, Head, Digest
  <2>2. CASE Join(q)
    BY <1>1, <2>2 DEF Join
  <2>3. CASE Commit(q)
    BY <1>1, <1>2, <1>f, <2>3 DEF Commit
  <2>4. CASE Read(q) \/ Condemn(q) \/ Touch(q) \/ NotModified(q) \/ Answered(q) \/ Refresh(q) \/ Confirm(q)
    BY <1>1, <1>f, <2>4 DEF Read, ReadNext, Condemn, Touch, NotModified, Answered, Refresh, Confirm
  <2>5. CASE Drop(q) \/ Remove(q) \/ InvalidateHead(q) \/ Discard(q)
    BY <1>1, <1>2, <1>f, <2>5 DEF Drop, Remove, InvalidateHead, Discard
  <2>6. CASE ForgetRow(q)
    <3>1. PICK c \in loc[q].todo :
            \/ Goto(q, "unlink", [loc[q] EXCEPT !.todo = @ \ {c}, !.gone = c])
            \/ NextCandidate(q, [loc[q] EXCEPT !.todo = @ \ {c}, !.gone = c])
      BY <2>6 DEF ForgetRow
    <3>2. [loc[q] EXCEPT !.todo = @ \ {c}, !.gone = c].then = loc[q].then
      BY LocalsOf DEF Locals
    <3> QED
      BY <1>1, <1>3, <1>f, <3>1, <3>2
  <2>7. CASE Unlink(q)
    <3>1. NextCandidate(q, [loc[q] EXCEPT !.gone = Empty])
      BY <2>7 DEF Unlink
    <3>2. [loc[q] EXCEPT !.gone = Empty].then = loc[q].then
      BY LocalsOf DEF Locals
    <3> QED
      BY <1>3, <1>f, <3>1, <3>2
  <2>8. CASE Prune(q) \/ Pruning(q) \/ Wipe(q) \/ Grant(q) \/ ServePeer(q)
    BY <1>1, <2>8 DEF Prune, Pruning, Wipe, Grant, ServePeer
  <2>9. CASE Totals(q) \/ Snapshot(q) \/ Evict(q) \/ Charge(q)
    BY <1>1, <2>9 DEF Totals, Snapshot, Evict, Charge
  <2> QED
    BY <1>6, <2>1, <2>2, <2>3, <2>4, <2>5, <2>6, <2>7, <2>8, <2>9 DEF Runs
<1> QED
  BY <1>4, <1>5, <1>6

\* The gate keeps commits out, so nothing adds one.
LEMMA EmptiedNext ==
  Typed /\ GateInv /\ RefreshesFindOne /\ Emptied /\ [Next]_vars => Emptied'
<1> SUFFICES ASSUME Typed, GateInv, RefreshesFindOne, Emptied, [Next]_vars,
                    NEW p \in Threads, at'[p] = "wipe"
             PROVE  \A k \in Keys : entries'[k] = NoEntry
  BY DEF Emptied
<1>1. at[p] = "wipe" \/ Clear(p)
  <2>1. CASE \E q \in Threads : Calls(q) \/ Waits(q) \/ Runs(q)
    BY <2>1, WipesAfterClear
  <2>2. CASE Rot \/ UNCHANGED vars
    BY <2>2 DEF Rot, vars, threads
  <2> QED
    BY <2>1, <2>2 DEF Next
<1>2. CASE Clear(p)
  BY <1>2 DEF Clear, ClearIndex
<1>3. CASE at[p] = "wipe"
  <2>1. ASSUME NEW q \in Threads, Commit(q) PROVE FALSE
    BY <1>3, <2>1 DEF Commit, GateInv, GateHeld, SharingSteps, ExcludingSteps
  <2> QED
    BY <1>3, <2>1, OnlyCommitsMakeOne DEF Emptied, RecordsShrink
<1> QED
  BY <1>1, <1>2, <1>3

\* When clear returns nothing of what was stored is left, whoever stored, read or deleted
\* meanwhile: the gate keeps stores out from the emptied index to the last file removed
\* (cache.rs:1425-1434).  A refresh is let in, and must not bring its record back.
THEOREM ClearLeavesNothing ==
  ASSUME Corruptible = {}
  PROVE  Spec /\ [][RefreshesFindOne]_vars => ClearErases
<1>1. Init => Emptied
  BY DEF Init, Emptied
<1>2. ASSUME Typed, GateInv, EligibleHasRow, Emptied, [Next]_vars, NEW p \in Threads,
             at[p] = "wipe", at'[p] # "wipe"
      PROVE  /\ \A k \in Keys : entries'[k] = NoEntry
             /\ \A c \in Contents : blobs'[c] = NoRow /\ eligible'[c] = {} /\ disk'[c] = "absent"
  <2>1. Wipe(p)
    <3>1. ASSUME NEW q \in Threads, q # p, Calls(q) \/ Waits(q) \/ Runs(q) PROVE FALSE
      <4>1. \E step, l : Goto(q, step, l)
        <5>1. \A orphans, step, l : DeleteThen(q, orphans, step, l) => \E s, m : Goto(q, s, m)
          BY DEF DeleteThen
        <5>2. \A l : NextCandidate(q, l) => \E s, m : Goto(q, s, m)
          BY DEF NextCandidate
        <5>3. CASE Calls(q)
          BY <5>1, <5>3 DEF Calls, Store, StorePartial, Lookup, InvalidateUrl, DiscardRepresentation,
                            CollectGarbage, Clear, GrantPeer, AskedByPeer
        <5>4. CASE Waits(q)
          BY <5>4 DEF Waits, Delete, PutSlice
        <5>5. CASE Runs(q)
          <6>1. CASE Index(q) \/ Head(q) \/ WriteFile(q) \/ WriteFails(q) \/ Digest(q) \/ Join(q)
            BY <6>1 DEF Index, Head, WriteFile, WriteFails, Digest, Join
          <6>2. CASE Commit(q) \/ Drop(q) \/ Remove(q) \/ InvalidateHead(q) \/ Discard(q)
            BY <5>1, <6>2 DEF Commit, Drop, Remove, InvalidateHead, Discard
          <6>3. CASE ForgetRow(q) \/ Unlink(q)
            BY <5>2, <6>3 DEF ForgetRow, Unlink
          <6>4. CASE Read(q) \/ Condemn(q) \/ Touch(q) \/ NotModified(q) \/ Answered(q) \/ Refresh(q) \/ Confirm(q)
            BY <6>4 DEF Read, Condemn, Touch, NotModified, Answered, Refresh, Confirm
          <6>5. CASE Prune(q) \/ Pruning(q) \/ Wipe(q) \/ Grant(q) \/ ServePeer(q) \/ Totals(q) \/ Snapshot(q)
                       \/ Evict(q) \/ Charge(q)
            BY <6>5 DEF Prune, Pruning, Wipe, Grant, ServePeer, Totals, Snapshot, Evict, Charge
          <6> QED
            BY <5>5, <6>1, <6>2, <6>3, <6>4, <6>5 DEF Runs
        <5> QED
          BY <3>1, <5>3, <5>4, <5>5
      <4> QED
        BY <1>2, <3>1, <4>1 DEF Goto, Typed, ThreadsOK
    <3>2. Calls(p) \/ Waits(p) \/ Runs(p)
      BY <1>2, <3>1 DEF Next, Rot, vars, threads
    <3> QED
      BY <1>2, <3>2
      DEF Calls, Store, StorePartial, Lookup, InvalidateUrl, DiscardRepresentation, CollectGarbage,
          Clear, GrantPeer, AskedByPeer, Waits, Delete, PutSlice,
          Runs, WriteFile, WritingNext, WriteFails, Commit, Index, Head, Join, Digest, Read, Condemn,
          Drop, Touch, NotModified, Answered, Refresh, Confirm, Remove, InvalidateHead, Discard,
          ForgetRow, Unlink, Prune, Pruning, Grant, ServePeer, Totals, Snapshot, Evict, Charge
  <2>2. entries' = entries /\ blobs' = blobs /\ eligible' = eligible /\ \A c \in Contents : disk'[c] = "absent"
    BY <2>1 DEF Wipe, index
  <2>3. \A c \in Contents : blobs[c] = NoRow
    BY <1>2 DEF GateInv, RowsGoFirst
  <2> QED
    BY <1>2, <2>2, <2>3 DEF Emptied, EligibleHasRow
<1>3. Typed /\ GateInv /\ EligibleHasRow /\ Emptied /\ [Next]_vars =>
        [\A p \in Threads : at[p] = "wipe" /\ at'[p] # "wipe" =>
           /\ \A k \in Keys : entries'[k] = NoEntry
           /\ \A c \in Contents : blobs'[c] = NoRow /\ eligible'[c] = {} /\ disk'[c] = "absent"]_vars
  BY <1>2
<1>4. Typed /\ GateInv /\ [RefreshesFindOne]_vars /\ Emptied /\ [Next]_vars => Emptied'
  <2>1. CASE UNCHANGED vars
    BY <2>1 DEF vars, index, threads, Emptied
  <2> QED
    BY <2>1, EmptiedNext
<1>5. Spec => []GateInv
  BY GateAlways
<1> QED
  BY <1>1, <1>3, <1>4, <1>5, AlwaysTyped, OnlyHeldBlobsAreOffered, PTL DEF Spec, ClearErases

(***************************************************************************)
(* What a record says of its body.                                         *)
(***************************************************************************)

\* A whole record under key k is of the representation that its headers describe.
Names(k, r) == r.whole => r.body = {Payload(k, r.tag)}

\* The steps at which a thread holds a record that it goes on to put, and those at which that
\* record is of a range.
KeepingSteps == {"write", "gate", "slice", "join", "whole", "digest", "commit", "refresh"}
PartialSteps == {"gate", "slice", "join"}

Fits(step, l) ==
  /\ step \in KeepingSteps => Names(l.key, l.rec)
  /\ step \in PartialSteps \/ l.then = "gate" => ~l.rec.whole
  /\ step \in {"slice", "join"} => l.then # "gate"

\* With one thread the origin is asked about the record that is there.
Asks(step, l) == step \in {"read", "await"} => entries[l.key] = l.rec

\* Steps at which a thread is to put no record, nor to ask about one, and those it can be told to
\* go on with.
Mute == Steps \ (KeepingSteps \cup {"read", "await"})
Later == (Mute \ {"head"}) \cup {"gate"}

OneByOne == \A p, q \in Threads : p = q
Revalidating == "revalidate" \in Ops

TagInv ==
  /\ TagNamesBody
  /\ \A p \in Threads : Fits(at[p], loc[p]) /\ loc[p].then \in Later
  /\ \A p \in Threads : OneByOne => Asks(at[p], loc[p])
  /\ \A p \in Threads : at[p] = "await" => Revalidating

\* What a step puts into the table.
PutsNamed ==
  \A k \in Keys : entries'[k] # NoEntry =>
    \/ Names(k, entries'[k])
    \/ /\ entries[k] # NoEntry
       /\ entries'[k].tag = entries[k].tag /\ entries'[k].whole = entries[k].whole
       /\ entries'[k].body = entries[k].body

\* A thread that goes on with a record that fits, and puts one that does, keeps it all.
LEMMA TagMove ==
  ASSUME Typed, TagInv, NEW p \in Threads, NEW step, NEW l,
         Goto(p, step, l), PutsNamed, Fits(step, l), l.then \in Later,
         step = "await" => Revalidating,
         OneByOne /\ step \in {"read", "await"} => entries'[l.key] = l.rec
  PROVE  TagInv'
<1>1. /\ \A q \in Threads : at'[q] = IF q = p THEN step ELSE at[q]
      /\ \A q \in Threads \ {p} : loc'[q] = loc[q]
      /\ loc'[p] = IF step = "idle" THEN Blank ELSE l
  BY DEF Goto, Typed, ThreadsOK
<1>2. TagNamesBody'
  <2> SUFFICES ASSUME NEW k \in Keys, entries'[k] # NoEntry PROVE Names(k, entries'[k])
    BY DEF TagNamesBody, Names
  <2> QED
    BY DEF TagInv, TagNamesBody, PutsNamed, Names
<1>3. \A q \in Threads : Fits(at'[q], loc'[q]) /\ loc'[q].then \in Later
  <2> SUFFICES ASSUME NEW q \in Threads PROVE Fits(at'[q], loc'[q]) /\ loc'[q].then \in Later
    OBVIOUS
  <2>1. CASE q = p /\ step = "idle"
    BY <1>1, <2>1, FreeNames DEF Fits, KeepingSteps, PartialSteps, Later, Mute, Steps
  <2>2. CASE ~(q = p /\ step = "idle")
    BY <1>1, <2>2 DEF TagInv
  <2> QED
    BY <2>1, <2>2
<1>4. \A q \in Threads : OneByOne /\ at'[q] \in {"read", "await"} => entries'[loc'[q].key] = loc'[q].rec
  <2> SUFFICES ASSUME NEW q \in Threads, OneByOne, at'[q] \in {"read", "await"}
               PROVE  entries'[loc'[q].key] = loc'[q].rec
    OBVIOUS
  <2>1. q = p /\ step \in {"read", "await"}
    BY <1>1 DEF OneByOne
  <2> QED
    BY <1>1, <2>1
<1>5. \A q \in Threads : at'[q] = "await" => Revalidating
  BY <1>1 DEF TagInv
<1> QED
  BY <1>2, <1>3, <1>4, <1>5 DEF TagInv, Fits, Asks, OneByOne, Revalidating

\* A record that only loses entries, or keeps them, says of none what it did not.
LEMMA NothingPut ==
  ASSUME IndexType
  PROVE  /\ UNCHANGED index => PutsNamed
         /\ \A ks : ReleaseAll(ks) => PutsNamed
         /\ \A k \in Keys : RecordAccess(k) => PutsNamed
         /\ ClearIndex => PutsNamed
         /\ \A c, h : Forget(c) \/ GrantEligibility(c, h) => PutsNamed
         /\ \A cs : IndexSri(cs) \/ PruneSri(cs) => PutsNamed
<1>1. entries' = entries => PutsNamed
  BY DEF PutsNamed
<1>2. \A ks : ReleaseAll(ks) => PutsNamed
  BY DEF ReleaseAll, PutsNamed
<1>3. ASSUME NEW k \in Keys, RecordAccess(k) PROVE PutsNamed
  <2>1. CASE entries[k] = NoEntry
    BY <1>1, <1>3, <2>1 DEF RecordAccess
  <2>2. CASE entries[k] # NoEntry
    <3> DEFINE used == [entries[k] EXCEPT !.hits = IF @ < MaxHits THEN @ + 1 ELSE @]
    <3>1. entries[k] \in Entry
      BY <2>2 DEF IndexType
    <3>2. used.tag = entries[k].tag /\ used.whole = entries[k].whole /\ used.body = entries[k].body
      BY <3>1 DEF Entry
    <3>3. entries' = [entries EXCEPT ![k] = used]
      BY <1>3, <2>2 DEF RecordAccess
    <3> HIDE DEF used
    <3>4. \A g \in Keys : entries'[g] = IF g = k THEN used ELSE entries[g]
      BY <3>3 DEF IndexType
    <3> QED
      BY <2>2, <3>2, <3>4 DEF PutsNamed
  <2> QED
    BY <2>1, <2>2
<1>4. /\ UNCHANGED index => entries' = entries
      /\ \A c, h : Forget(c) \/ GrantEligibility(c, h) => entries' = entries
      /\ \A cs : IndexSri(cs) \/ PruneSri(cs) => entries' = entries
  BY DEF index, Forget, GrantEligibility, IndexSri, PruneSri
<1>5. ClearIndex => PutsNamed
  BY DEF ClearIndex, PutsNamed
<1> QED
  BY <1>1, <1>2, <1>3, <1>4, <1>5

\* Nor does one that is overwritten with a record that fits.
LEMMA NamedPut ==
  ASSUME IndexType, NEW k \in Keys, NEW r, entries' = [entries EXCEPT ![k] = r], Names(k, r)
  PROVE  PutsNamed
BY DEF PutsNamed, IndexType

\* Which steps they are.
LEMMA MuteNames ==
  /\ {"idle", "index", "head", "confirm", "condemn", "drop", "touch", "discard",
      "remove", "delete", "forget", "unlink", "prune", "pruning", "wipe", "serve",
      "invalidateHead", "totals", "snapshot", "evict", "charge", "grant"} \subseteq Mute
  /\ Blank \in Locals /\ Blank.then = "idle"
BY BlankType, FreeNames DEF Mute, Steps, KeepingSteps

\* The common case: the thread goes on to a step of that kind.
LEMMA MuteMove ==
  ASSUME Typed, TagInv, NEW p \in Threads, NEW step \in Mute, NEW l,
         Goto(p, step, l), PutsNamed, l.then \in Later, l.then = "gate" => ~l.rec.whole
  PROVE  TagInv'
<1>1. Fits(step, l) /\ step \notin {"read", "await"}
  BY DEF Fits, Mute, PartialSteps, KeepingSteps
<1> QED
  BY <1>1, TagMove

\* A thread that goes where its record was meant to, or deletes first.
LEMMA MuteDeleteThen ==
  ASSUME Typed, TagInv, NEW p \in Threads, NEW orphans, NEW step \in Later, NEW l \in Locals,
         DeleteThen(p, orphans, step, l), PutsNamed, l.then \in Later,
         step = "gate" \/ l.then = "gate" => ~l.rec.whole
  PROVE  TagInv'
<1>1. CASE orphans = {} /\ step \in Mute
  BY <1>1, MuteMove DEF DeleteThen
<1>2. CASE orphans = {} /\ step = "gate"
  <2>1. Goto(p, "gate", l) /\ Fits("gate", l)
    BY <1>2 DEF DeleteThen, Fits, Names
  <2> QED
    BY <2>1, TagMove
<1>3. CASE orphans # {}
  <2> DEFINE d == [l EXCEPT !.todo = orphans, !.then = step]
  <2>1. d.then = step /\ d.rec = l.rec
    BY DEF Locals
  <2>2. Goto(p, "delete", d)
    BY <1>3 DEF DeleteThen
  <2> HIDE DEF d
  <2> QED
    BY <2>1, <2>2, MuteMove, MuteNames
<1> QED
  BY <1>1, <1>2, <1>3 DEF Later

\* Starting a call keeps records and bodies together.
LEMMA TagCalls ==
  ASSUME Typed, TagInv, NEW p \in Threads, Calls(p)
  PROVE  TagInv'
<1> USE MuteNames DEF Later
<1>t. IndexType
  BY DEF Typed
<1>same. UNCHANGED index => PutsNamed
  BY <1>t, NothingPut
<1>1. CASE Store(p)
  <2>1. PICK k \in Keys, t \in Bodies :
          Goto(p, IF disk[Payload(k, t)] = "absent" THEN "write" ELSE "commit",
               [Blank EXCEPT !.key = k, !.rec = WholeRecord(k, t, 0), !.put = {Payload(k, t)},
                             !.hand = Payload(k, t), !.then = "index"])
    BY <1>1 DEF Store
  <2> DEFINE l == [Blank EXCEPT !.key = k, !.rec = WholeRecord(k, t, 0), !.put = {Payload(k, t)},
                                !.hand = Payload(k, t), !.then = "index"]
             step == IF disk[Payload(k, t)] = "absent" THEN "write" ELSE "commit"
  <2>2. l.then = "index" /\ l.key = k /\ l.rec = WholeRecord(k, t, 0)
    BY DEF Locals
  <2>3. Goto(p, step, l) /\ step \in {"write", "commit"} /\ UNCHANGED index
    BY <1>1, <2>1 DEF Store
  <2> HIDE DEF l, step
  <2>4. Fits(step, l)
    BY <2>2, <2>3 DEF Fits, Names, WholeRecord, PartialSteps
  <2> QED
    BY <1>same, <2>2, <2>3, <2>4, TagMove
<1>2. CASE StorePartial(p)
  <2>1. PICK k \in {k \in Keys : k[1] = "GET"}, t \in Bodies : \E s \in Slices[t] :
          LET e == entries[k]
              fresh == [tag |-> t, whole |-> FALSE, body |-> {}, hits |-> 0]
              l == [Blank EXCEPT !.key = k, !.rec = fresh, !.hand = s]
          IN \/ e = NoEntry /\ Goto(p, "gate", l)
             \/ e # NoEntry /\ e.tag # t /\ Goto(p, "remove", [l EXCEPT !.then = "gate"])
             \/ e # NoEntry /\ e.tag = t /\ ~e.whole /\ Goto(p, "gate", [l EXCEPT !.rec = e])
    BY <1>2 DEF StorePartial
  <2> DEFINE fresh == [tag |-> t, whole |-> FALSE, body |-> {}, hits |-> 0]
             l(s) == [Blank EXCEPT !.key = k, !.rec = fresh, !.hand = s]
  <2>2. PICK s \in Slices[t] :
          \/ Goto(p, "gate", l(s))
          \/ Goto(p, "remove", [l(s) EXCEPT !.then = "gate"])
          \/ ~entries[k].whole /\ Goto(p, "gate", [l(s) EXCEPT !.rec = entries[k]])
    BY <2>1
  <2>3. /\ l(s).then = "idle" /\ ~l(s).rec.whole
        /\ [l(s) EXCEPT !.then = "gate"].then = "gate" /\ ~[l(s) EXCEPT !.then = "gate"].rec.whole
        /\ [l(s) EXCEPT !.rec = entries[k]].then = "idle" /\ [l(s) EXCEPT !.rec = entries[k]].rec = entries[k]
    BY DEF Locals
  <2>4. PutsNamed
    BY <1>2, <1>same DEF StorePartial
  <2>5. \A m : Goto(p, "gate", m) /\ m.then = "idle" /\ ~m.rec.whole => TagInv'
    <3>1. \A m : m.then = "idle" /\ ~m.rec.whole => Fits("gate", m)
      BY DEF Fits, Names
    <3> QED
      BY <2>4, <3>1, TagMove
  <2>6. \A m : Goto(p, "remove", m) /\ m.then = "gate" /\ ~m.rec.whole => TagInv'
    BY <2>4, MuteMove
  <2> HIDE DEF l
  <2> QED
    BY <2>2, <2>3, <2>5, <2>6
<1>3. CASE Lookup(p)
  <2>1. PICK k \in variants, step \in {"read", "touch"} :
          Goto(p, step, [Blank EXCEPT !.key = k, !.rec = entries[k], !.then = "drop"])
    BY <1>3 DEF Lookup
  <2> DEFINE l == [Blank EXCEPT !.key = k, !.rec = entries[k], !.then = "drop"]
  <2>2. l.then = "drop" /\ l.key = k /\ l.rec = entries[k]
    BY DEF Locals
  <2>3. Goto(p, step, l) /\ UNCHANGED index
    BY <1>3, <2>1 DEF Lookup
  <2> HIDE DEF l
  <2>4. Fits(step, l)
    BY <2>2 DEF Fits, KeepingSteps, PartialSteps
  <2>5. entries'[l.key] = l.rec
    BY <2>2, <2>3 DEF index
  <2> QED
    BY <1>same, <2>2, <2>3, <2>4, <2>5, TagMove
<1>4. CASE InvalidateUrl(p)
  <2>1. PICK k \in Keys, step \in {"invalidateHead", "idle"} :
          /\ Invalidate(k[1], k[2])
          /\ DeleteThen(p, Orphans(Listed(k[1], k[2])), step, [Blank EXCEPT !.key = k])
    BY <1>4 DEF InvalidateUrl
  <2>2. [Blank EXCEPT !.key = k] \in Locals /\ [Blank EXCEPT !.key = k].then = "idle"
    BY DEF Locals
  <2>3. PutsNamed
    BY <1>t, <2>1, NothingPut DEF Invalidate
  <2> QED
    BY <2>1, <2>2, <2>3, MuteDeleteThen
<1>5. CASE DiscardRepresentation(p)
  <2>1. PICK k \in Keys : Goto(p, "discard", [Blank EXCEPT !.key = k, !.rec = entries[k]])
    BY <1>5 DEF DiscardRepresentation
  <2>2. [Blank EXCEPT !.key = k, !.rec = entries[k]].then = "idle"
    BY DEF Locals
  <2> QED
    BY <1>same, <1>5, <2>1, <2>2, MuteMove DEF DiscardRepresentation
<1>6. CASE CollectGarbage(p)
  BY <1>same, <1>6, MuteDeleteThen DEF CollectGarbage
<1>7. CASE Clear(p)
  <2>1. PutsNamed
    BY <1>t, <1>7, NothingPut DEF Clear
  <2> QED
    BY <1>7, <2>1, MuteMove DEF Clear
<1>8. CASE GrantPeer(p) \/ AskedByPeer(p)
  <2>1. PICK c \in Contents, step \in {"grant", "condemn", "serve"} :
          Goto(p, step, [Blank EXCEPT !.hand = c])
    BY <1>8 DEF GrantPeer, AskedByPeer
  <2>2. [Blank EXCEPT !.hand = c].then = "idle"
    BY DEF Locals
  <2> QED
    BY <1>same, <1>8, <2>1, <2>2, MuteMove DEF GrantPeer, AskedByPeer
<1> QED
  BY <1>1, <1>2, <1>3, <1>4, <1>5, <1>6, <1>7, <1>8 DEF Calls

\* The steps of a store put the record that they hold.
LEMMA TagStores ==
  ASSUME Typed, TagInv, NEW p \in Threads,
         \/ PutSlice(p) \/ WriteFile(p) \/ WriteFails(p) \/ Commit(p) \/ Index(p) \/ Head(p)
         \/ Join(p) \/ Digest(p)
  PROVE  TagInv'
<1> USE MuteNames, LocalsOf DEF Later
<1>t. IndexType
  BY DEF Typed
<1>f. Fits(at[p], loc[p]) /\ loc[p].then \in Later
  BY DEF TagInv
<1>g. loc[p].then = "gate" => ~loc[p].rec.whole
  BY <1>f DEF Fits
<1>same. UNCHANGED index => PutsNamed
  BY <1>t, NothingPut
<1>idle. Goto(p, "idle", Blank) /\ UNCHANGED index => TagInv'
  BY <1>same, MuteMove
<1>1. CASE PutSlice(p)
  <2> DEFINE new == loc[p].hand \notin loc[p].rec.body
             l == [loc[p] EXCEPT !.put = IF new THEN {loc[p].hand} ELSE {}, !.then = "totals"]
             step == IF new /\ disk[loc[p].hand] = "absent" THEN "slice" ELSE "join"
  <2>1. Goto(p, step, l) /\ UNCHANGED index /\ at[p] = "gate" /\ step \in {"slice", "join"}
    BY <1>1 DEF PutSlice
  <2>2. l.then = "totals" /\ l.rec = loc[p].rec
    BY DEF Locals
  <2> HIDE DEF l, step
  <2>3. ~loc[p].rec.whole
    BY <1>f, <2>1 DEF Fits, PartialSteps
  <2>4. Fits(step, l)
    BY <2>2, <2>3 DEF Fits, Names
  <2> QED
    BY <1>same, <2>1, <2>2, <2>4, TagMove
<1>2. CASE WriteFile(p)
  <2>1. \/ at[p] = "write" /\ Goto(p, "commit", loc[p])
        \/ at[p] = "slice" /\ Goto(p, "join", loc[p])
        \/ at[p] = "whole" /\ Goto(p, "digest", loc[p])
    BY <1>2 DEF WriteFile, WritingNext
  <2>2. PICK step \in {"commit", "join", "digest"} : Goto(p, step, loc[p]) /\ Fits(step, loc[p])
    BY <1>f, <2>1 DEF Fits, KeepingSteps, PartialSteps
  <2>3. PutsNamed
    BY <1>2, <1>same DEF WriteFile
  <2> QED
    BY <1>f, <2>2, <2>3, TagMove
<1>3. CASE WriteFails(p)
  BY <1>idle, <1>3 DEF WriteFails
<1>4. CASE Commit(p)
  <2>1. CASE MissingBlob(loc[p].key, loc[p].rec, loc[p].put)
    BY <1>idle, <1>4, <2>1 DEF Commit
  <2>2. CASE ~MissingBlob(loc[p].key, loc[p].rec, loc[p].put)
    <3>1. /\ PutEntry(loc[p].key, loc[p].rec)
          /\ DeleteThen(p, PutOrphans(loc[p].key, loc[p].rec), loc[p].then, loc[p])
          /\ at[p] = "commit"
      BY <1>4, <2>2 DEF Commit
    <3>2. Names(loc[p].key, loc[p].rec)
      BY <1>f, <3>1 DEF Fits, KeepingSteps
    <3>3. entries' = [entries EXCEPT ![loc[p].key] = loc[p].rec]
      BY <3>1 DEF PutEntry
    <3>4. PutsNamed
      BY <1>t, <3>2, <3>3, NamedPut
    <3> QED
      BY <1>f, <1>g, <3>1, <3>4, MuteDeleteThen
  <2> QED
    BY <2>1, <2>2
<1>5. CASE Index(p)
  <2>1. PutsNamed
    BY <1>t, <1>5, NothingPut DEF Index
  <2> QED
    BY <1>f, <1>g, <1>5, <2>1, MuteMove DEF Index
<1>6. CASE Head(p)
  <2>1. CASE Goto(p, "totals", loc[p])
    BY <1>f, <1>g, <1>same, <1>6, <2>1, MuteMove DEF Head
  <2>2. CASE ~Goto(p, "totals", loc[p])
    <3>1. PICK g \in StoredGets(loc[p].key), step \in {"refresh", "remove"} :
            Goto(p, step, [loc[p] EXCEPT !.key = g, !.rec = entries[g], !.then = "totals"])
      BY <1>6, <2>2 DEF Head
    <3> DEFINE l == [loc[p] EXCEPT !.key = g, !.rec = entries[g], !.then = "totals"]
    <3>2. l.then = "totals" /\ l.rec = entries[g] /\ l.key = g
      BY DEF Locals
    <3>3. g \in Keys /\ entries[g] # NoEntry
      BY <3>1 DEF StoredGets, Listed, Primary
    <3> HIDE DEF l
    <3>4. Fits(step, l)
      BY <3>2, <3>3 DEF Fits, Names, TagInv, TagNamesBody, PartialSteps
    <3> QED
      BY <1>same, <1>6, <3>1, <3>2, <3>4, TagMove DEF Head, l
  <2> QED
    BY <2>1, <2>2
<1>7. CASE Join(p)
  <2> DEFINE l == loc[p]
             t == l.rec.tag
             held == l.rec.body \cup {l.hand}
             part == [l EXCEPT !.rec.body = held]
             full == [l EXCEPT !.rec = WholeRecord(l.key, t, l.rec.hits), !.put = @ \cup {t}, !.hand = t]
  <2>1. at[p] = "join" /\ l.rec \in Entry /\ UNCHANGED index
    BY <1>7 DEF Join, WithRecord
  <2>2. ~l.rec.whole
    BY <1>f, <2>1 DEF Fits, PartialSteps
  <2>3. \/ Goto(p, "commit", part)
        \/ Goto(p, "whole", full) \/ Goto(p, "digest", full)
        \/ Goto(p, "idle", Blank)
        \/ \E s \in held : Goto(p, "condemn", [l EXCEPT !.hand = s, !.then = "idle"])
    BY <1>7 DEF Join
  <2>4. part.then = l.then /\ part.key = l.key /\ part.rec = [l.rec EXCEPT !.body = held]
    BY DEF Locals
  <2>5. ~part.rec.whole
    BY <2>1, <2>2, <2>4 DEF Entry
  <2>6. full.then = l.then /\ full.key = l.key /\ full.rec = WholeRecord(l.key, t, l.rec.hits)
    BY DEF Locals
  <2>7. \A s : [l EXCEPT !.hand = s, !.then = "idle"].then = "idle"
    BY DEF Locals
  <2>8. l.then # "gate"
    BY <1>f, <2>1 DEF Fits
  <2> HIDE DEF part, full
  <2>9. Fits("commit", part)
    BY <2>4, <2>5 DEF Fits, Names
  <2>10. Fits("whole", full) /\ Fits("digest", full)
    BY <2>6, <2>8 DEF Fits, Names, WholeRecord, PartialSteps
  <2>11. CASE Goto(p, "commit", part)
    BY <1>f, <1>same, <2>1, <2>4, <2>9, <2>11, TagMove
  <2>12. CASE Goto(p, "whole", full) \/ Goto(p, "digest", full)
    BY <1>f, <1>same, <2>1, <2>6, <2>10, <2>12, TagMove
  <2>13. CASE \E s \in held : Goto(p, "condemn", [l EXCEPT !.hand = s, !.then = "idle"])
    BY <1>same, <2>1, <2>7, <2>13, MuteMove
  <2> QED
    BY <1>idle, <2>1, <2>3, <2>11, <2>12, <2>13
<1>8. CASE Digest(p)
  <2>1. PutsNamed
    BY <1>t, <1>8, NothingPut DEF Digest
  <2>2. Fits("commit", loc[p])
    BY <1>f, <1>8 DEF Digest, Fits, KeepingSteps, PartialSteps
  <2> QED
    BY <1>f, <1>8, <2>1, <2>2, TagMove DEF Digest
<1> QED
  BY <1>1, <1>2, <1>3, <1>4, <1>5, <1>6, <1>7, <1>8

\* Reading a body, and hearing of it from its origin: a 304 is folded onto the record that it is
\* about, where nobody else can have put another one there.
LEMMA TagReads ==
  ASSUME Typed, TagInv, OneByOne \/ ~Revalidating, NEW p \in Threads,
         \/ Read(p) \/ Condemn(p) \/ Drop(p) \/ Touch(p) \/ NotModified(p) \/ Answered(p)
         \/ Refresh(p) \/ Confirm(p)
  PROVE  TagInv'
<1> USE MuteNames, LocalsOf DEF Later
<1>t. IndexType
  BY DEF Typed
<1>f. Fits(at[p], loc[p]) /\ loc[p].then \in Later
  BY DEF TagInv
<1>g. loc[p].then = "gate" => ~loc[p].rec.whole
  BY <1>f DEF Fits
<1>same. UNCHANGED index => PutsNamed
  BY <1>t, NothingPut
<1>idle. Goto(p, "idle", Blank) /\ PutsNamed => TagInv'
  BY MuteMove
<1>on. ASSUME Goto(p, loc[p].then, loc[p]), PutsNamed PROVE TagInv'
  <2>1. CASE loc[p].then = "gate"
    <3>1. Fits("gate", loc[p])
      BY <1>g, <2>1 DEF Fits, Names
    <3> QED
      BY <1>f, <1>on, <2>1, <3>1, TagMove
  <2>2. CASE loc[p].then \in Mute
    BY <1>f, <1>g, <1>on, <2>2, MuteMove
  <2> QED
    BY <1>f, <2>1, <2>2
<1>1. CASE Read(p)
  <2>1. /\ at[p] = "read" /\ UNCHANGED index
        /\ \/ \E step \in {"touch", "drop"} : Goto(p, step, loc[p])
           \/ Revalidating /\ Goto(p, "await", loc[p])
           \/ \E c \in loc[p].rec.body : Goto(p, "condemn", [loc[p] EXCEPT !.hand = c])
    BY <1>1 DEF Read, ReadNext, Revalidating
  <2>2. \A c : /\ [loc[p] EXCEPT !.hand = c].then = loc[p].then
               /\ [loc[p] EXCEPT !.hand = c].rec = loc[p].rec
    BY DEF Locals
  <2>3. OneByOne => entries'[loc[p].key] = loc[p].rec
    BY <2>1 DEF TagInv, Asks, index
  <2>4. CASE Revalidating /\ Goto(p, "await", loc[p])
    <3>1. Fits("await", loc[p])
      BY <1>g DEF Fits, KeepingSteps, PartialSteps
    <3> QED
      BY <1>f, <1>same, <2>1, <2>3, <2>4, <3>1, TagMove
  <2>5. CASE \E step \in {"touch", "drop"} : Goto(p, step, loc[p])
    BY <1>f, <1>g, <1>same, <2>1, <2>5, MuteMove
  <2>6. CASE \E c \in loc[p].rec.body : Goto(p, "condemn", [loc[p] EXCEPT !.hand = c])
    <3>1. PICK c \in loc[p].rec.body : Goto(p, "condemn", [loc[p] EXCEPT !.hand = c])
      BY <2>6
    <3> QED
      BY <1>f, <1>g, <1>same, <2>1, <2>2, <3>1, MuteMove
  <2> QED
    BY <2>1, <2>4, <2>5, <2>6
<1>2. CASE Condemn(p)
  BY <1>on, <1>same, <1>2 DEF Condemn
<1>3. CASE Drop(p)
  <2>1. PutsNamed
    BY <1>t, <1>3, NothingPut DEF Drop, DropBroken
  <2>2. CASE Unchanged(loc[p].key, loc[p].rec)
    BY <1>f, <1>g, <1>3, <2>1, <2>2, MuteDeleteThen DEF Drop
  <2>3. CASE ~Unchanged(loc[p].key, loc[p].rec)
    BY <1>idle, <1>3, <2>1, <2>3 DEF Drop
  <2> QED
    BY <2>2, <2>3
<1>4. CASE Touch(p)
  <2>1. PutsNamed
    BY <1>t, <1>4, NothingPut DEF Touch
  <2> QED
    BY <1>idle, <1>4, <2>1 DEF Touch
<1>5. CASE NotModified(p)
  <2> DEFINE stored == entries[loc[p].key]
             l == [loc[p] EXCEPT !.rec = [stored EXCEPT !.tag = loc[p].rec.tag], !.then = "confirm"]
  <2>1. /\ at[p] = "await" /\ UNCHANGED index
        /\ (stored = NoEntry /\ Goto(p, "idle", Blank)) \/ (stored # NoEntry /\ Goto(p, "refresh", l))
    BY <1>5 DEF NotModified
  <2>2. stored = loc[p].rec
    BY <2>1 DEF TagInv, Asks
  <2>3. CASE stored # NoEntry /\ Goto(p, "refresh", l)
    <3>1. stored \in Entry /\ Names(loc[p].key, stored)
      BY <1>t, <2>3 DEF IndexType, TagInv, TagNamesBody, Names
    <3>2. [stored EXCEPT !.tag = loc[p].rec.tag] = stored
      BY <2>2, <3>1 DEF Entry
    <3>3. l.then = "confirm" /\ l.key = loc[p].key /\ l.rec = [stored EXCEPT !.tag = loc[p].rec.tag]
      BY DEF Locals
    <3> HIDE DEF l
    <3>4. Fits("refresh", l)
      BY <3>1, <3>2, <3>3 DEF Fits, PartialSteps
    <3> QED
      BY <1>same, <2>1, <2>3, <3>3, <3>4, TagMove
  <2> QED
    BY <1>idle, <1>same, <2>1, <2>3
<1>6. CASE Answered(p)
  BY <1>idle, <1>same, <1>6 DEF Answered
<1>7. CASE Refresh(p)
  <2>1. /\ at[p] = "refresh" /\ Goto(p, loc[p].then, loc[p])
        /\ entries' = [entries EXCEPT ![loc[p].key] = loc[p].rec]
    BY <1>7 DEF Refresh, RefreshEntry
  <2>2. Names(loc[p].key, loc[p].rec)
    BY <1>f, <2>1 DEF Fits, KeepingSteps
  <2>3. PutsNamed
    BY <1>t, <2>1, <2>2, NamedPut
  <2> QED
    BY <1>on, <2>1, <2>3
<1>8. CASE Confirm(p)
  <2> DEFINE d == [loc[p] EXCEPT !.then = "drop"]
  <2>1. /\ UNCHANGED index
        /\ \/ Goto(p, "drop", d) \/ Goto(p, "idle", Blank)
           \/ \E c \in loc[p].rec.body : Goto(p, "condemn", [d EXCEPT !.hand = c])
    BY <1>8 DEF Confirm
  <2>2. /\ d.then = "drop"
        /\ \A c : [d EXCEPT !.hand = c].then = "drop"
    BY DEF Locals
  <2> HIDE DEF d
  <2>3. CASE Goto(p, "drop", d)
    BY <1>same, <2>1, <2>2, <2>3, MuteMove
  <2>4. CASE \E c \in loc[p].rec.body : Goto(p, "condemn", [d EXCEPT !.hand = c])
    BY <1>same, <2>1, <2>2, <2>4, MuteMove
  <2> QED
    BY <1>idle, <1>same, <2>1, <2>3, <2>4
<1> QED
  BY <1>1, <1>2, <1>3, <1>4, <1>5, <1>6, <1>7, <1>8

\* Removing, deleting and evicting put no record.
LEMMA TagRemovals ==
  ASSUME Typed, TagInv, NEW p \in Threads,
         \/ Remove(p) \/ InvalidateHead(p) \/ Discard(p) \/ Delete(p) \/ ForgetRow(p) \/ Unlink(p)
         \/ Prune(p) \/ Pruning(p) \/ Wipe(p) \/ Grant(p) \/ ServePeer(p)
         \/ Totals(p) \/ Snapshot(p) \/ Evict(p) \/ Charge(p)
  PROVE  TagInv'
<1> USE MuteNames, LocalsOf DEF Later
<1>t. IndexType
  BY DEF Typed
<1>f. Fits(at[p], loc[p]) /\ loc[p].then \in Later
  BY DEF TagInv
<1>g. loc[p].then = "gate" => ~loc[p].rec.whole
  BY <1>f DEF Fits
<1>same. UNCHANGED index => PutsNamed
  BY <1>t, NothingPut
<1>idle. Goto(p, "idle", Blank) /\ PutsNamed => TagInv'
  BY MuteMove
<1>kept. \A step \in Mute : \A l :
           Goto(p, step, l) /\ PutsNamed /\ l.then = loc[p].then /\ l.rec = loc[p].rec => TagInv'
  BY <1>f, <1>g, MuteMove
<1>1. CASE Remove(p)
  <2>1. PutsNamed
    BY <1>t, <1>1, NothingPut DEF Remove, RemoveEntry
  <2> QED
    BY <1>f, <1>g, <1>1, <2>1, MuteDeleteThen DEF Remove
<1>2. CASE InvalidateHead(p)
  <2>1. PutsNamed
    BY <1>t, <1>2, NothingPut DEF InvalidateHead, Invalidate
  <2> QED
    BY <1>f, <1>g, <1>2, <2>1, MuteDeleteThen DEF InvalidateHead
<1>3. CASE Discard(p)
  <2>1. PutsNamed
    BY <1>t, <1>3, NothingPut DEF Discard, RemoveEntry
  <2>2. CASE Unchanged(loc[p].key, loc[p].rec)
    BY <1>f, <1>g, <1>3, <2>1, <2>2, MuteDeleteThen DEF Discard
  <2>3. CASE ~Unchanged(loc[p].key, loc[p].rec)
    BY <1>idle, <1>3, <2>1, <2>3 DEF Discard
  <2> QED
    BY <2>2, <2>3
<1>4. CASE Delete(p)
  BY <1>kept, <1>same, <1>4 DEF Delete
<1>next. ASSUME NEW l, NextCandidate(p, l), l.then = loc[p].then, l.rec = loc[p].rec, PutsNamed
         PROVE  TagInv'
  <2>1. CASE l.todo # {}
    BY <1>kept, <1>next, <2>1 DEF NextCandidate
  <2>2. CASE l.todo = {} /\ l.then \in Mute
    BY <1>kept, <1>next, <2>2 DEF NextCandidate
  <2>3. CASE l.todo = {} /\ l.then = "gate"
    <3>1. Goto(p, "gate", l)
      BY <1>next, <2>3 DEF NextCandidate
    <3>2. Fits("gate", l)
      BY <1>g, <1>next, <2>3 DEF Fits, Names
    <3> QED
      BY <1>f, <1>next, <3>1, <3>2, TagMove
  <2> QED
    BY <1>f, <1>next, <2>1, <2>2, <2>3
<1>5. CASE ForgetRow(p)
  <2>1. PICK c \in loc[p].todo :
          LET l == [loc[p] EXCEPT !.todo = @ \ {c}, !.gone = c]
          IN IF Unreferenced(c)
             THEN Forget(c) /\ Goto(p, "unlink", l) /\ GateKept
             ELSE UNCHANGED index /\ NextCandidate(p, l)
    BY <1>5 DEF ForgetRow
  <2> DEFINE l == [loc[p] EXCEPT !.todo = @ \ {c}, !.gone = c]
  <2>2. l.then = loc[p].then /\ l.rec = loc[p].rec
    BY DEF Locals
  <2>3. PutsNamed
    BY <1>t, <2>1, NothingPut
  <2>4. Goto(p, "unlink", l) \/ NextCandidate(p, l)
    BY <2>1
  <2> HIDE DEF l
  <2> QED
    BY <1>kept, <1>next, <2>2, <2>3, <2>4
<1>6. CASE Unlink(p)
  <2> DEFINE l == [loc[p] EXCEPT !.gone = Empty]
  <2>1. l.then = loc[p].then /\ l.rec = loc[p].rec
    BY DEF Locals
  <2>2. NextCandidate(p, l) /\ UNCHANGED index
    BY <1>6 DEF Unlink
  <2> HIDE DEF l
  <2> QED
    BY <1>next, <1>same, <2>1, <2>2
<1>7. CASE Prune(p)
  <2> DEFINE l == [loc[p] EXCEPT !.todo = StaleSri]
  <2>1. l.then = loc[p].then /\ l.rec = loc[p].rec
    BY DEF Locals
  <2>2. (Goto(p, "idle", l) \/ Goto(p, "pruning", l)) /\ UNCHANGED index
    BY <1>7 DEF Prune
  <2> HIDE DEF l
  <2> QED
    BY <1>kept, <1>same, <2>1, <2>2
<1>8. CASE Pruning(p) \/ Wipe(p) \/ Grant(p)
  <2>1. PutsNamed
    BY <1>t, <1>8, NothingPut DEF Pruning, Wipe, Grant
  <2> QED
    BY <1>idle, <1>8, <2>1 DEF Pruning, Wipe, Grant
<1>9. CASE ServePeer(p)
  BY <1>kept, <1>same, <1>9 DEF ServePeer
<1>10. CASE Totals(p)
  <2>1. [Blank EXCEPT !.size = Cardinality(Counted)].then = "idle"
    BY DEF Locals
  <2> QED
    BY <1>same, <1>10, <2>1, MuteMove DEF Totals
<1>11. CASE Snapshot(p)
  <2> DEFINE l == [loc[p] EXCEPT !.victims = {k \in Keys : entries[k] # NoEntry}]
  <2>1. l.then = loc[p].then /\ l.rec = loc[p].rec
    BY DEF Locals
  <2>2. Goto(p, "evict", l) /\ UNCHANGED index
    BY <1>11 DEF Snapshot
  <2> HIDE DEF l
  <2> QED
    BY <1>kept, <1>same, <2>1, <2>2
<1>12. CASE Evict(p)
  <2>1. CASE loc[p].size <= Target \/ loc[p].victims = {}
    BY <1>idle, <1>same, <1>12, <2>1 DEF Evict
  <2>2. CASE ~(loc[p].size <= Target \/ loc[p].victims = {})
    <3>1. PICK k \in loc[p].victims :
            /\ RemoveEntry(k)
            /\ \/ Goto(p, "evict", [loc[p] EXCEPT !.victims = @ \ {k}])
               \/ Goto(p, "charge", [loc[p] EXCEPT !.victims = @ \ {k}, !.todo = Orphans({k})])
      BY <1>12, <2>2 DEF Evict
    <3> DEFINE rest == [loc[p] EXCEPT !.victims = @ \ {k}]
               d == [loc[p] EXCEPT !.victims = @ \ {k}, !.todo = Orphans({k})]
    <3>2. /\ rest.then = loc[p].then /\ rest.rec = loc[p].rec
          /\ d.then = loc[p].then /\ d.rec = loc[p].rec
      BY DEF Locals
    <3>3. PutsNamed
      BY <1>t, <3>1, NothingPut DEF RemoveEntry
    <3>4. Goto(p, "evict", rest) \/ Goto(p, "charge", d)
      BY <3>1
    <3> HIDE DEF rest, d
    <3> QED
      BY <1>kept, <3>2, <3>3, <3>4
  <2> QED
    BY <2>1, <2>2
<1>13. CASE Charge(p)
  <2> DEFINE freed == Cardinality({c \in loc[p].todo : blobs[c] # NoRow})
             m == [loc[p] EXCEPT !.size = IF freed > @ THEN 0 ELSE @ - freed, !.then = "evict"]
  <2>1. m.then = "evict"
    BY DEF Locals
  <2>2. Goto(p, "delete", m) /\ UNCHANGED index
    BY <1>13 DEF Charge
  <2> HIDE DEF m
  <2> QED
    BY <1>same, <2>1, <2>2, MuteMove
<1> QED
  BY <1>1, <1>2, <1>3, <1>4, <1>5, <1>6, <1>7, <1>8, <1>9, <1>10, <1>11, <1>12, <1>13

\* It is there from the start, and so always.
LEMMA TagAlways ==
  ASSUME OneByOne \/ "revalidate" \notin Ops
  PROVE  Spec => []TagInv
<1>1. Init => TagInv
  <2> SUFFICES ASSUME Init PROVE TagInv
    OBVIOUS
  <2>1. TagNamesBody
    BY DEF Init, IndexInit, TagNamesBody
  <2>2. \A p \in Threads : at[p] = "idle" /\ loc[p].then = "idle"
    BY MuteNames DEF Init
  <2> QED
    BY <2>1, <2>2, MuteNames DEF TagInv, Fits, Asks, KeepingSteps, PartialSteps, Later
<1>2. Typed /\ TagInv /\ [Next]_vars => TagInv'
  <2> SUFFICES ASSUME Typed, TagInv, [Next]_vars PROVE TagInv'
    OBVIOUS
  <2>0. OneByOne \/ ~Revalidating
    BY DEF Revalidating
  <2>1. CASE Rot \/ UNCHANGED vars
    <3>1. /\ entries' = entries /\ at' = at /\ loc' = loc
      BY <2>1 DEF Rot, vars, index, threads
    <3>2. /\ \A p : Fits(at[p], loc[p])' = Fits(at[p], loc[p])
          /\ \A p : Asks(at[p], loc[p])' = Asks(at[p], loc[p])
      BY <3>1 DEF Fits, Asks
    <3> QED
      BY <3>1, <3>2 DEF TagInv, TagNamesBody
  <2>2. ASSUME NEW p \in Threads, Calls(p) \/ Waits(p) \/ Runs(p) PROVE TagInv'
    BY <2>0, <2>2, TagCalls, TagStores, TagReads, TagRemovals DEF Waits, Runs
  <2> QED
    BY <2>1, <2>2 DEF Next
<1> QED
  BY <1>1, <1>2, AlwaysTyped, PTL DEF Spec

\* The headers a whole record is served and revalidated under are those of the body that it is
\* stored with, whatever HEADs, ranges, rotten files and removals come between (index.rs:484).
\* Only a 304 can break it, and only with another thread: record_not_modified folds what it says
\* onto the record that the key has by then.
THEOREM TagsNameBodies ==
  ASSUME OneByOne \/ "revalidate" \notin Ops
  PROVE  Spec => []TagNamesBody
<1>1. TagInv => TagNamesBody
  BY DEF TagInv
<1>2. Spec => []TagInv
  BY TagAlways
<1> QED
  BY <1>1, <1>2, PTL

(***************************************************************************)
(* Without HEADs and revalidation nothing is refreshed, and what holds as  *)
(* long as refreshes do no harm holds.                                     *)
(***************************************************************************)

NoRefresh == \A p \in Threads : at[p] \notin {"head", "refresh"}

\* A refresh comes of a stored HEAD or of a 304.
LEMMA NoRefreshNext ==
  ASSUME Typed, TagInv, NoRefresh, "revalidate" \notin Ops, "HEAD" \notin Methods, [Next]_vars
  PROVE  NoRefresh'
<1> SUFFICES ASSUME NEW p \in Threads, Calls(p) \/ Waits(p) \/ Runs(p) PROVE NoRefresh'
  BY DEF Next, Rot, vars, threads, NoRefresh
<1> DEFINE Other == Steps \ {"head", "refresh"}
<1>o. {"idle", "write", "gate", "slice", "join", "whole", "digest", "commit", "index", "read",
       "confirm", "condemn", "drop", "touch", "await", "discard", "remove", "delete", "forget",
       "unlink", "prune", "pruning", "wipe", "grant", "serve", "invalidateHead", "totals",
       "snapshot", "evict", "charge"} \subseteq Other
  BY DEF Steps
<1>f. /\ loc[p].then \in Other /\ at[p] \notin {"head", "refresh", "await"}
      /\ loc[p].key[1] # "HEAD"
  <2>1. loc[p].key \in Keys
    BY LocalsOf
  <2> QED
    BY <2>1 DEF TagInv, Later, Mute, KeepingSteps, NoRefresh, Revalidating, Keys, Steps
<1> HIDE DEF Other
<1>1. ASSUME NEW step \in Other, NEW l, Goto(p, step, l) PROVE NoRefresh'
  BY <1>1 DEF Goto, Typed, ThreadsOK, NoRefresh, Other
<1>2. ASSUME NEW orphans, NEW step \in Other, NEW l, DeleteThen(p, orphans, step, l) PROVE NoRefresh'
  BY <1>1, <1>2, <1>o DEF DeleteThen
<1>3. ASSUME NEW l, NextCandidate(p, l), l.then \in Other PROVE NoRefresh'
  BY <1>1, <1>3, <1>o DEF NextCandidate
<1>4. CASE Calls(p)
  <2>1. CASE Store(p) \/ StorePartial(p) \/ Lookup(p) \/ DiscardRepresentation(p) \/ Clear(p) \/ GrantPeer(p) \/ AskedByPeer(p)
    BY <1>1, <1>o, <2>1 DEF Store, StorePartial, Lookup, DiscardRepresentation, Clear, GrantPeer, AskedByPeer
  <2>2. CASE InvalidateUrl(p) \/ CollectGarbage(p)
    BY <1>2, <1>o, <2>2 DEF InvalidateUrl, CollectGarbage
  <2> QED
    BY <1>4, <2>1, <2>2 DEF Calls
<1>5. CASE Waits(p)
  BY <1>1, <1>o, <1>5 DEF Waits, Delete, PutSlice
<1>6. CASE Runs(p)
  <2>1. CASE WriteFile(p) \/ WriteFails(p) \/ Index(p) \/ Head(p) \/ Digest(p)
    BY <1>1, <1>f, <1>o, <2>1 DEF WriteFile, WritingNext, WriteFails, Index, Head, Digest
  <2>2. CASE Join(p)
    BY <1>1, <1>o, <2>2 DEF Join
  <2>3. CASE Commit(p)
    BY <1>1, <1>2, <1>f, <1>o, <2>3 DEF Commit
  <2>4. CASE Read(p) \/ Condemn(p) \/ Touch(p) \/ NotModified(p) \/ Answered(p) \/ Refresh(p) \/ Confirm(p)
    BY <1>1, <1>f, <1>o, <2>4 DEF Read, ReadNext, Condemn, Touch, NotModified, Answered, Refresh, Confirm
  <2>5. CASE Drop(p) \/ Remove(p) \/ InvalidateHead(p) \/ Discard(p)
    BY <1>1, <1>2, <1>f, <1>o, <2>5 DEF Drop, Remove, InvalidateHead, Discard
  <2>6. CASE ForgetRow(p)
    <3>1. PICK c \in loc[p].todo :
            \/ Goto(p, "unlink", [loc[p] EXCEPT !.todo = @ \ {c}, !.gone = c])
            \/ NextCandidate(p, [loc[p] EXCEPT !.todo = @ \ {c}, !.gone = c])
      BY <2>6 DEF ForgetRow
    <3>2. [loc[p] EXCEPT !.todo = @ \ {c}, !.gone = c].then = loc[p].then
      BY LocalsOf DEF Locals
    <3> QED
      BY <1>1, <1>3, <1>f, <1>o, <3>1, <3>2
  <2>7. CASE Unlink(p)
    <3>1. NextCandidate(p, [loc[p] EXCEPT !.gone = Empty])
      BY <2>7 DEF Unlink
    <3>2. [loc[p] EXCEPT !.gone = Empty].then = loc[p].then
      BY LocalsOf DEF Locals
    <3> QED
      BY <1>3, <1>f, <3>1, <3>2
  <2>8. CASE Prune(p) \/ Pruning(p) \/ Wipe(p) \/ Grant(p) \/ ServePeer(p)
    BY <1>1, <1>o, <2>8 DEF Prune, Pruning, Wipe, Grant, ServePeer
  <2>9. CASE Totals(p) \/ Snapshot(p) \/ Evict(p) \/ Charge(p)
    BY <1>1, <1>o, <2>9 DEF Totals, Snapshot, Evict, Charge
  <2> QED
    BY <1>6, <2>1, <2>2, <2>3, <2>4, <2>5, <2>6, <2>7, <2>8, <2>9 DEF Runs
<1> QED
  BY <1>4, <1>5, <1>6

\* So, where neither is used, none is made.
LEMMA NothingRefreshes ==
  ASSUME "revalidate" \notin Ops, "HEAD" \notin Methods
  PROVE  Spec => []NoRefresh
<1>1. Init => NoRefresh
  BY DEF Init, NoRefresh
<1>2. Typed /\ TagInv /\ NoRefresh /\ [Next]_vars => NoRefresh'
  BY NoRefreshNext
<1>3. Spec => []TagInv
  BY TagAlways
<1> QED
  BY <1>1, <1>2, <1>3, AlwaysTyped, PTL DEF Spec

\* A browser that stores GETs and never revalidates needs no leave: whatever overlaps, counts
\* are exact, nothing is left behind between calls, and a clear erases what there was.
THEOREM WithoutRefreshes ==
  ASSUME Corruptible = {}, "partial" \notin Ops, "revalidate" \notin Ops, "HEAD" \notin Methods
  PROVE  Spec => []RefcountsExact /\ []QuietIsClean /\ ClearErases
<1>1. NoRefresh => RefreshesKeepBody /\ RefreshesFindOne
  BY DEF NoRefresh, RefreshesKeepBody, RefreshesFindOne, Refresh
<1>2. Spec => []NoRefresh
  BY NothingRefreshes
<1>3. Spec /\ [][RefreshesKeepBody]_vars => []RefcountsExact
  BY CountsAreExact
<1>4. Spec /\ [][RefreshesKeepBody]_vars => []QuietIsClean
  BY NothingIsLeftBehind
<1>5. Spec /\ [][RefreshesFindOne]_vars => ClearErases
  BY ClearLeavesNothing
<1>6. Spec => [][RefreshesKeepBody]_vars /\ [][RefreshesFindOne]_vars
  BY <1>1, <1>2, PTL
<1> QED
  BY <1>3, <1>4, <1>5, <1>6
=============================================================================
