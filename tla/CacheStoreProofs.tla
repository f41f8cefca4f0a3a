---------------------------- MODULE CacheStoreProofs ----------------------------
(***************************************************************************)
(* What holds of the cache for any number of threads, keys and contents:   *)
(* type correctness, that only blobs with a record are offered to peers,   *)
(* and that reference counts are exact.                                    *)
(***************************************************************************)
EXTENDS CacheStore, FiniteSetTheorems, TLAPS

(***************************************************************************)
(* The index transactions keep the tables' types.                          *)
(***************************************************************************)

\* Giving up references neither creates a row nor takes one below zero.
LEMMA ReleaseType ==
  ASSUME NEW count \in Int, count >= NoRow, NEW n \in Nat
  PROVE  /\ Release(count, n) \in Int
         /\ Release(count, n) >= NoRow
         /\ Release(count, n) = NoRow <=> count = NoRow
BY DEF Release, NoRow

\* How many of some keys name a content is a number.
LEMMA NamingCount ==
  ASSUME NEW ks \in SUBSET Keys, NEW c
  PROVE  Cardinality(Naming(ks, c)) \in Nat
<1>1. Naming(ks, c) \subseteq Keys
  BY DEF Naming
<1>2. IsFiniteSet(Naming(ks, c))
  BY <1>1, IndexAssumption, FS_Subset
<1> QED
  BY <1>2, FS_CardinalityType

\* The contents a record refers to are contents.
LEMMA BodyType ==
  ASSUME IndexType, NEW k \in Keys
  PROVE  Body(entries[k]) \in SUBSET Contents
BY DEF IndexType, Body, Entry

\* The put_entry transaction keeps the tables well typed.
LEMMA PutEntryType ==
  ASSUME IndexType, NEW k \in Keys, NEW r \in Entry, PutEntry(k, r)
  PROVE  IndexType'
<1>1. \A c \in Contents : /\ Release(blobs[c], 1) \in Int /\ Release(blobs[c], 1) >= NoRow
                          /\ Acquire(blobs[c]) \in Int /\ Acquire(blobs[c]) >= NoRow
  BY ReleaseType DEF IndexType, Acquire, NoRow
<1>2. \A c \in Contents : blobs'[c] \in Int /\ blobs'[c] >= NoRow
  BY <1>1 DEF PutEntry, IndexType
<1>3. blobs' \in [Contents -> Int]
  BY <1>1 DEF PutEntry, IndexType
<1>4. entries' \in [Keys -> Entry \cup {NoEntry}] /\ variants' \in SUBSET Keys
  BY DEF PutEntry, IndexType
<1> QED
  BY <1>2, <1>3, <1>4 DEF PutEntry, IndexType

\* The refresh_entry transaction keeps the tables well typed.
LEMMA RefreshEntryType ==
  ASSUME IndexType, NEW k \in Keys, NEW r \in Entry, RefreshEntry(k, r)
  PROVE  IndexType'
BY DEF IndexType, RefreshEntry

\* Releasing the references of any records keeps counts and records well typed.
LEMMA ReleaseAllType ==
  ASSUME IndexType, NEW ks \in SUBSET Keys, ReleaseAll(ks)
  PROVE  /\ entries' \in [Keys -> Entry \cup {NoEntry}]
         /\ blobs' \in [Contents -> Int]
         /\ \A c \in Contents : blobs'[c] >= NoRow
         /\ \A c \in Contents : blobs'[c] = NoRow <=> blobs[c] = NoRow
<1>1. \A c \in Contents :
        LET left == Release(blobs[c], Cardinality(Naming(ks, c)))
        IN left \in Int /\ left >= NoRow /\ (left = NoRow <=> blobs[c] = NoRow)
  BY NamingCount, ReleaseType DEF IndexType
<1> QED
  BY <1>1 DEF ReleaseAll, IndexType

\* The remove_entry transaction keeps the tables well typed.
LEMMA RemoveEntryType ==
  ASSUME IndexType, NEW k \in Keys, RemoveEntry(k)
  PROVE  IndexType'
BY ReleaseAllType DEF RemoveEntry, IndexType

\* The invalidate transaction keeps the tables well typed.
LEMMA InvalidateType ==
  ASSUME IndexType, NEW m, NEW u, Invalidate(m, u)
  PROVE  IndexType'
<1>1. Listed(m, u) \in SUBSET Keys
  BY DEF Listed, IndexType
<1> QED
  BY <1>1, ReleaseAllType DEF Invalidate, IndexType

\* The drop_broken_entry transaction keeps the tables well typed.
LEMMA DropBrokenType ==
  ASSUME IndexType, NEW k \in Keys, NEW r \in Entry, DropBroken(k, r)
  PROVE  IndexType'
BY ReleaseAllType DEF DropBroken, IndexType

\* Stamping a use keeps the tables well typed: hits stay within their bound.
LEMMA RecordAccessType ==
  ASSUME IndexType, NEW k \in Keys, RecordAccess(k)
  PROVE  IndexType'
<1>1. CASE entries[k] = NoEntry
  BY <1>1 DEF RecordAccess, IndexType
<1>2. CASE entries[k] # NoEntry
  <2> DEFINE used == [entries[k] EXCEPT !.hits = IF @ < MaxHits THEN @ + 1 ELSE @]
  <2>1. entries[k] \in Entry
    BY <1>2 DEF IndexType
  <2>2. used \in Entry
    BY <2>1, IndexAssumption DEF Entry
  <2>3. entries' = [entries EXCEPT ![k] = used]
    BY <1>2 DEF RecordAccess
  <2> QED
    BY <2>2, <2>3 DEF RecordAccess, IndexType
<1> QED
  BY <1>1, <1>2

\* The transactions on single rows, and clear, keep the tables well typed.
LEMMA OtherTransactionsType ==
  ASSUME IndexType
  PROVE  /\ ClearIndex => IndexType'
         /\ \A c \in Contents : Forget(c) => IndexType'
         /\ \A c \in Contents, h \in Hashes : GrantEligibility(c, h) => IndexType'
         /\ \A cs \in SUBSET Contents : IndexSri(cs) => IndexType'
         /\ \A cs \in SUBSET Contents : PruneSri(cs) => IndexType'
         /\ UNCHANGED index => IndexType'
<1>1. ClearIndex => IndexType'
  BY DEF ClearIndex, IndexType, NoRow
<1>2. \A c \in Contents : Forget(c) => IndexType'
  BY DEF Forget, IndexType, NoRow
<1>3. \A c \in Contents, h \in Hashes : GrantEligibility(c, h) => IndexType'
  BY DEF GrantEligibility, IndexType
<1>4. \A cs \in SUBSET Contents : (IndexSri(cs) \/ PruneSri(cs)) => IndexType'
  BY DEF IndexSri, PruneSri, IndexType
<1>5. UNCHANGED index => IndexType'
  BY DEF index, IndexType
<1> QED
  BY <1>1, <1>2, <1>3, <1>4, <1>5

(***************************************************************************)
(* Type correctness.  A thread at a step that works on a record holds one. *)
(***************************************************************************)

WithRecord == {"write", "gate", "slice", "join", "whole", "digest", "commit",
               "read", "confirm", "drop", "await", "refresh", "discard"}

HoldsRecord ==
  \A p \in Threads :
    at[p] \in WithRecord \/ loc[p].then \in WithRecord => loc[p].rec \in Entry

ThreadsOK ==
  /\ at \in [Threads -> Steps]
  /\ loc \in [Threads -> Locals]
  /\ HoldsRecord

GateOK == sharing \in SUBSET Threads /\ excluding \in SUBSET Threads
DiskOK == disk \in [Contents -> {"absent", "whole", "corrupt"}]

Typed == IndexType /\ DiskOK /\ GateOK /\ ThreadsOK

\* What an idle thread holds is well typed.
LEMMA BlankType ==
  /\ Blank \in Locals
  /\ Blank.then \notin WithRecord
<1>1. (CHOOSE k \in Keys : TRUE) \in Keys
  BY IndexAssumption
<1> QED
  BY <1>1, StoreAssumption DEF Blank, Locals, Steps, WithRecord

\* The steps a call returns to.
LEMMA StepNames ==
  {"idle", "totals", "evict"} \subseteq Steps /\ {"idle", "totals", "evict"} \cap WithRecord = {}
BY DEF Steps, WithRecord

\* A thread that goes on with sound locals leaves every thread's locals sound.
LEMMA GotoType ==
  ASSUME ThreadsOK, NEW p \in Threads, NEW step \in Steps, NEW l \in Locals,
         step \in WithRecord \/ l.then \in WithRecord => l.rec \in Entry,
         Goto(p, step, l)
  PROVE  ThreadsOK'
<1> DEFINE m == IF step = "idle" THEN Blank ELSE l
<1>1. m \in Locals /\ (step \in WithRecord \/ m.then \in WithRecord => m.rec \in Entry)
  BY BlankType DEF WithRecord
<1>2. at' = [at EXCEPT ![p] = step] /\ loc' = [loc EXCEPT ![p] = m]
  BY DEF Goto
<1>3. at' \in [Threads -> Steps] /\ loc' \in [Threads -> Locals]
  BY <1>1, <1>2 DEF ThreadsOK
<1>4. HoldsRecord'
  <2>1. SUFFICES ASSUME NEW q \in Threads,
                        at'[q] \in WithRecord \/ loc'[q].then \in WithRecord
                 PROVE  loc'[q].rec \in Entry
    BY DEF HoldsRecord
  <2>2. CASE q = p
    BY <1>1, <1>2, <2>1, <2>2 DEF ThreadsOK
  <2>3. CASE q # p
    BY <1>2, <2>1, <2>3 DEF ThreadsOK, HoldsRecord
  <2> QED
    BY <2>2, <2>3
<1> QED
  BY <1>3, <1>4 DEF ThreadsOK

\* The same for a thread that deletes what was orphaned first.
LEMMA DeleteThenType ==
  ASSUME ThreadsOK, NEW p \in Threads, NEW orphans \in SUBSET Contents,
         NEW step \in Steps, NEW l \in Locals,
         step \in WithRecord \/ l.then \in WithRecord => l.rec \in Entry,
         DeleteThen(p, orphans, step, l)
  PROVE  ThreadsOK'
<1>1. CASE orphans = {}
  BY <1>1, GotoType DEF DeleteThen
<1>2. CASE orphans # {}
  <2> DEFINE m == [l EXCEPT !.todo = orphans, !.then = step]
  <2>1. m \in Locals /\ m.then = step /\ m.rec = l.rec
    BY DEF Locals
  <2>2. "delete" \in Steps /\ "delete" \notin WithRecord
    BY DEF Steps, WithRecord
  <2>3. Goto(p, "delete", m)
    BY <1>2 DEF DeleteThen
  <2> QED
    BY <2>1, <2>2, <2>3, GotoType
<1> QED
  BY <1>1, <1>2

\* What a removal orphans are contents.
LEMMA OrphansType ==
  ASSUME IndexType
  PROVE  /\ \A ks : Orphans(ks) \in SUBSET Contents
         /\ \A k \in Keys : \A r : PutOrphans(k, r) \in SUBSET Contents
BY BodyType DEF Orphans, PutOrphans, Replaced

\* Taking and giving back the gate keeps its holders threads.
LEMMA GateType ==
  ASSUME GateOK, NEW p \in Threads
  PROVE  /\ Share(p) => GateOK'
         /\ Unshare(p) => GateOK'
         /\ Exclude(p) => GateOK'
         /\ GateKept => GateOK'
BY DEF GateOK, Share, Unshare, Exclude, GateKept

\* The record a whole response is stored as.
LEMMA WholeRecordType ==
  ASSUME NEW k \in Keys, NEW t \in Bodies, NEW n \in 0 .. MaxHits
  PROVE  Payload(k, t) \in Contents /\ WholeRecord(k, t, n) \in Entry
BY IndexAssumption, StoreAssumption DEF Payload, WholeRecord, Entry

\* What TypedCalls, TypedWaits and TypedRuns all start from.
LEMMA LocalsOf ==
  ASSUME Typed, NEW p \in Threads
  PROVE  /\ loc[p] \in Locals
         /\ loc[p].key \in Keys /\ loc[p].hand \in Contents /\ loc[p].gone \in Contents
         /\ loc[p].put \in SUBSET Contents /\ loc[p].todo \in SUBSET Contents
         /\ loc[p].then \in Steps /\ loc[p].size \in Nat /\ loc[p].victims \in SUBSET Keys
         /\ at[p] \in WithRecord \/ loc[p].then \in WithRecord => loc[p].rec \in Entry
BY DEF Typed, ThreadsOK, HoldsRecord, Locals

\* Starting a call keeps the state well typed.
LEMMA TypedCalls ==
  ASSUME Typed, NEW p \in Threads, Calls(p)
  PROVE  Typed'
<1> USE BlankType DEF Typed
<1>idx. UNCHANGED index => IndexType'
  BY OtherTransactionsType
<1>1. CASE Store(p)
  <2>1. PICK k \in Keys, t \in Bodies :
          Goto(p, IF disk[Payload(k, t)] = "absent" THEN "write" ELSE "commit",
               [Blank EXCEPT !.key = k, !.rec = WholeRecord(k, t, 0), !.put = {Payload(k, t)},
                             !.hand = Payload(k, t), !.then = "index"])
    BY <1>1 DEF Store
  <2> DEFINE l == [Blank EXCEPT !.key = k, !.rec = WholeRecord(k, t, 0),
                                !.put = {Payload(k, t)}, !.hand = Payload(k, t),
                                !.then = "index"]
  <2>2. Payload(k, t) \in Contents /\ WholeRecord(k, t, 0) \in Entry
    BY WholeRecordType, IndexAssumption
  <2>3. l \in Locals /\ l.rec \in Entry
    BY <2>2 DEF Locals, Steps
  <2>4. ThreadsOK'
    BY <2>1, <2>3, GotoType DEF Steps
  <2> QED
    BY <1>1, <1>idx, <2>4, GateType DEF Store, DiskOK
<1>2. CASE StorePartial(p)
  <2>1. PICK k \in {k \in Keys : k[1] = "GET"}, t \in Bodies : \E s \in Slices[t] :
          LET e == entries[k]
              fresh == [tag |-> t, whole |-> FALSE, body |-> {}, hits |-> 0]
              l == [Blank EXCEPT !.key = k, !.rec = fresh, !.hand = s]
          IN \/ e = NoEntry /\ Goto(p, "gate", l)
             \/ e # NoEntry /\ e.tag # t /\ Goto(p, "remove", [l EXCEPT !.then = "gate"])
             \/ e # NoEntry /\ e.tag = t /\ ~e.whole /\ Goto(p, "gate", [l EXCEPT !.rec = e])
    BY <1>2 DEF StorePartial
  <2> DEFINE fresh == [tag |-> t, whole |-> FALSE, body |-> {}, hits |-> 0]
             l(s) == [Blank EXCEPT !.key = k, !.rec = fresh, !.hand = s]
  <2>2. PICK s \in Slices[t] :
          \/ Goto(p, "gate", l(s))
          \/ Goto(p, "remove", [l(s) EXCEPT !.then = "gate"])
          \/ entries[k] # NoEntry /\ Goto(p, "gate", [l(s) EXCEPT !.rec = entries[k]])
    BY <2>1
  <2>3. fresh \in Entry /\ s \in Contents /\ k \in Keys
    BY <2>2, StoreAssumption, IndexAssumption DEF Entry
  <2>4. /\ l(s) \in Locals /\ l(s).rec \in Entry
        /\ [l(s) EXCEPT !.then = "gate"] \in Locals /\ [l(s) EXCEPT !.then = "gate"].rec \in Entry
    BY <2>3 DEF Locals, Steps
  <2>5. entries[k] # NoEntry => /\ [l(s) EXCEPT !.rec = entries[k]] \in Locals
                                /\ [l(s) EXCEPT !.rec = entries[k]].rec \in Entry
    BY <2>3, <2>4 DEF Locals, IndexType
  <2>6. ThreadsOK'
    BY <2>2, <2>4, <2>5, GotoType DEF Steps
  <2> QED
    BY <1>2, <1>idx, <2>6, GateType DEF StorePartial, DiskOK
<1>3. CASE Lookup(p)
  <2>1. PICK k \in variants, step \in {"read", "touch"} :
          /\ entries[k] # NoEntry
          /\ Goto(p, step, [Blank EXCEPT !.key = k, !.rec = entries[k], !.then = "drop"])
    BY <1>3 DEF Lookup
  <2> DEFINE l == [Blank EXCEPT !.key = k, !.rec = entries[k], !.then = "drop"]
  <2>2. l \in Locals /\ l.rec \in Entry
    BY <2>1 DEF Locals, Steps, IndexType
  <2>3. ThreadsOK'
    BY <2>1, <2>2, GotoType DEF Steps
  <2> QED
    BY <1>3, <1>idx, <2>3, GateType DEF Lookup, DiskOK
<1>4. CASE InvalidateUrl(p)
  <2>1. PICK k \in Keys, step \in {"invalidateHead", "idle"} :
          /\ Invalidate(k[1], k[2])
          /\ DeleteThen(p, Orphans(Listed(k[1], k[2])), step, [Blank EXCEPT !.key = k])
    BY <1>4 DEF InvalidateUrl
  <2>2. [Blank EXCEPT !.key = k] \in Locals /\ [Blank EXCEPT !.key = k].then \notin WithRecord
    BY DEF Locals
  <2>3. step \in Steps /\ step \notin WithRecord
    BY DEF Steps, WithRecord
  <2>4. ThreadsOK'
    BY <2>1, <2>2, <2>3, OrphansType, DeleteThenType
  <2> QED
    BY <1>4, <2>1, <2>4, InvalidateType, GateType DEF InvalidateUrl, DiskOK
<1>5. CASE DiscardRepresentation(p)
  <2>1. PICK k \in Keys :
          /\ entries[k] # NoEntry
          /\ Goto(p, "discard", [Blank EXCEPT !.key = k, !.rec = entries[k]])
    BY <1>5 DEF DiscardRepresentation
  <2> DEFINE l == [Blank EXCEPT !.key = k, !.rec = entries[k]]
  <2>2. l \in Locals /\ l.rec \in Entry
    BY <2>1 DEF Locals, IndexType
  <2>3. ThreadsOK'
    BY <2>1, <2>2, GotoType DEF Steps
  <2> QED
    BY <1>5, <1>idx, <2>3, GateType DEF DiscardRepresentation, DiskOK
<1>6. CASE CollectGarbage(p)
  <2>1. OrphanedBlobs \in SUBSET Contents
    BY DEF OrphanedBlobs
  <2>2. ThreadsOK'
    BY <1>6, <2>1, DeleteThenType DEF CollectGarbage, Steps, WithRecord
  <2> QED
    BY <1>6, <1>idx, <2>2, GateType DEF CollectGarbage, DiskOK
<1>7. CASE Clear(p)
  <2>1. ThreadsOK'
    BY <1>7, GotoType DEF Clear, Steps, WithRecord
  <2> QED
    BY <1>7, <2>1, OtherTransactionsType, GateType DEF Clear, DiskOK
<1>8. CASE GrantPeer(p) \/ AskedByPeer(p)
  <2>1. PICK c \in Contents, step \in {"grant", "condemn", "serve"} :
          Goto(p, step, [Blank EXCEPT !.hand = c])
    BY <1>8 DEF GrantPeer, AskedByPeer
  <2>2. [Blank EXCEPT !.hand = c] \in Locals /\ [Blank EXCEPT !.hand = c].then \notin WithRecord
    BY DEF Locals
  <2>3. ThreadsOK'
    BY <2>1, <2>2, GotoType DEF Steps, WithRecord
  <2> QED
    BY <1>8, <1>idx, <2>3, GateType DEF GrantPeer, AskedByPeer, DiskOK
<1> QED
  BY <1>1, <1>2, <1>3, <1>4, <1>5, <1>6, <1>7, <1>8 DEF Calls

\* Passing the gate keeps the state well typed.
LEMMA TypedWaits ==
  ASSUME Typed, NEW p \in Threads, Waits(p)
  PROVE  Typed'
<1> USE LocalsOf DEF Typed
<1>idx. UNCHANGED index => IndexType'
  BY OtherTransactionsType
<1>1. CASE Delete(p)
  <2>1. loc[p].then \in WithRecord => loc[p].rec \in Entry
    OBVIOUS
  <2>2. ThreadsOK'
    BY <1>1, <2>1, GotoType DEF Delete, Steps, WithRecord
  <2> QED
    BY <1>1, <1>idx, <2>2, GateType DEF Delete, DiskOK
<1>2. CASE PutSlice(p)
  <2> DEFINE new == loc[p].hand \notin loc[p].rec.body
             l == [loc[p] EXCEPT !.put = IF new THEN {loc[p].hand} ELSE {}, !.then = "totals"]
  <2>1. PICK step \in {"slice", "join"} : Goto(p, step, l)
    BY <1>2 DEF PutSlice
  <2>2. loc[p].rec \in Entry
    BY <1>2 DEF PutSlice, WithRecord
  <2>3. l \in Locals /\ l.rec \in Entry
    BY <2>2, StepNames DEF Locals
  <2>4. step \in Steps
    BY DEF Steps
  <2>5. ThreadsOK'
    BY <2>1, <2>3, <2>4, GotoType
  <2> QED
    BY <1>2, <1>idx, <2>5, GateType DEF PutSlice, DiskOK
<1> QED
  BY <1>1, <1>2 DEF Waits

\* The steps of a store keep the state well typed.
LEMMA TypedPuts ==
  ASSUME Typed, NEW p \in Threads,
         WriteFile(p) \/ WriteFails(p) \/ Commit(p) \/ Index(p) \/ Head(p) \/ Join(p) \/ Digest(p)
  PROVE  Typed'
<1> USE LocalsOf DEF Typed
<1>idx. UNCHANGED index => IndexType'
  BY OtherTransactionsType
<1>idle. Goto(p, "idle", Blank) => ThreadsOK'
  BY BlankType, GotoType DEF Steps, WithRecord
<1>1. CASE WriteFile(p)
  <2>1. PICK step \in {"commit", "join", "digest"} : Goto(p, step, loc[p])
    BY <1>1 DEF WriteFile, WritingNext
  <2>2. at[p] \in WithRecord
    BY <1>1 DEF WriteFile, WritingNext, WithRecord
  <2>3. step \in Steps
    BY DEF Steps
  <2>4. ThreadsOK'
    BY <2>1, <2>2, <2>3, GotoType
  <2> QED
    BY <1>1, <1>idx, <2>4, GateType DEF WriteFile, DiskOK
<1>2. CASE WriteFails(p)
  BY <1>2, <1>idx, <1>idle, GateType DEF WriteFails, DiskOK
<1>3. CASE Commit(p)
  <2>1. loc[p].rec \in Entry
    BY <1>3 DEF Commit, WithRecord
  <2>2. CASE MissingBlob(loc[p].key, loc[p].rec, loc[p].put)
    BY <1>3, <1>idx, <1>idle, <2>2, GateType DEF Commit, DiskOK
  <2>3. CASE ~MissingBlob(loc[p].key, loc[p].rec, loc[p].put)
    <3>1. /\ PutEntry(loc[p].key, loc[p].rec)
          /\ DeleteThen(p, PutOrphans(loc[p].key, loc[p].rec), loc[p].then, loc[p])
      BY <1>3, <2>3 DEF Commit
    <3>2. ThreadsOK'
      BY <2>1, <3>1, OrphansType, DeleteThenType
    <3>3. IndexType'
      BY <2>1, <3>1, PutEntryType
    <3> QED
      BY <1>3, <3>2, <3>3, GateType DEF Commit, DiskOK
  <2> QED
    BY <2>2, <2>3
<1>4. CASE Index(p)
  <2>1. ThreadsOK'
    BY <1>4, GotoType DEF Index, Steps, WithRecord
  <2>2. IndexType'
    BY <1>4, OtherTransactionsType DEF Index
  <2> QED
    BY <1>4, <2>1, <2>2, GateType DEF Index, DiskOK
<1>5. CASE Head(p)
  <2>1. CASE Goto(p, "totals", loc[p])
    <3>1. ThreadsOK'
      BY <2>1, GotoType DEF Steps, WithRecord
    <3> QED
      BY <1>5, <1>idx, <3>1, GateType DEF Head, DiskOK
  <2>2. CASE ~Goto(p, "totals", loc[p])
    <3>1. PICK g \in StoredGets(loc[p].key), step \in {"refresh", "remove"} :
            Goto(p, step, [loc[p] EXCEPT !.key = g, !.rec = entries[g], !.then = "totals"])
      BY <1>5, <2>2 DEF Head
    <3> DEFINE l == [loc[p] EXCEPT !.key = g, !.rec = entries[g], !.then = "totals"]
    <3>2. g \in Keys /\ entries[g] \in Entry
      BY DEF StoredGets, Listed, IndexType
    <3>3. l \in Locals /\ l.rec \in Entry
      BY <3>2, StepNames DEF Locals
    <3>4. step \in Steps
      BY DEF Steps
    <3>5. ThreadsOK'
      BY <3>1, <3>3, <3>4, GotoType
    <3> QED
      BY <1>5, <1>idx, <3>5, GateType DEF Head, DiskOK
  <2> QED
    BY <2>1, <2>2
<1>6. CASE Join(p)
  <2> DEFINE l == loc[p]
             t == l.rec.tag
             held == l.rec.body \cup {l.hand}
             part == [l EXCEPT !.rec.body = held]
             full == [l EXCEPT !.rec = WholeRecord(l.key, t, l.rec.hits),
                               !.put = @ \cup {t}, !.hand = t]
  <2>1. l.rec \in Entry
    BY <1>6 DEF Join, WithRecord
  <2>2. held \in SUBSET Contents /\ t \in Bodies /\ l.rec.hits \in 0 .. MaxHits
    BY <2>1 DEF Entry
  <2>3. [l.rec EXCEPT !.body = held] \in Entry
    BY <2>1, <2>2 DEF Entry
  <2>4. part \in Locals /\ part.rec \in Entry
    BY <2>3 DEF Locals
  <2>5. WholeRecord(l.key, t, l.rec.hits) \in Entry
    BY <2>2, WholeRecordType
  <2>6. full \in Locals /\ full.rec \in Entry
    BY <2>2, <2>5, IndexAssumption DEF Locals
  <2>7. CASE Goto(p, "commit", part) /\ GateKept
    BY <1>6, <1>idx, <2>4, <2>7, GotoType, GateType DEF Join, DiskOK, Steps
  <2>8. CASE (Goto(p, "whole", full) \/ Goto(p, "digest", full)) /\ GateKept
    BY <1>6, <1>idx, <2>6, <2>8, GotoType, GateType DEF Join, DiskOK, Steps
  <2>9. CASE Goto(p, "idle", Blank) /\ Unshare(p)
    BY <1>6, <1>idx, <1>idle, <2>9, GateType DEF Join, DiskOK
  <2>10. CASE /\ \E s \in held : Goto(p, "condemn", [l EXCEPT !.hand = s, !.then = "idle"])
              /\ GateKept
    <3>1. PICK s \in held : Goto(p, "condemn", [l EXCEPT !.hand = s, !.then = "idle"])
      BY <2>10
    <3>2. /\ [l EXCEPT !.hand = s, !.then = "idle"] \in Locals
          /\ [l EXCEPT !.hand = s, !.then = "idle"].rec \in Entry
      BY <2>1, <2>2, StoreAssumption, StepNames DEF Locals
    <3>3. ThreadsOK'
      BY <3>1, <3>2, GotoType DEF Steps
    <3> QED
      BY <1>6, <1>idx, <2>10, <3>3, GateType DEF Join, DiskOK
  <2> QED
    BY <1>6, <2>7, <2>8, <2>9, <2>10 DEF Join
<1>7. CASE Digest(p)
  <2>1. at[p] \in WithRecord
    BY <1>7 DEF Digest, WithRecord
  <2>2. ThreadsOK'
    BY <1>7, <2>1, GotoType DEF Digest, Steps
  <2>3. IndexType'
    BY <1>7, OtherTransactionsType DEF Digest
  <2> QED
    BY <1>7, <2>2, <2>3, GateType DEF Digest, DiskOK
<1> QED
  BY <1>1, <1>2, <1>3, <1>4, <1>5, <1>6, <1>7

\* The steps of a lookup, a revalidation and a peer's request keep it well typed.
LEMMA TypedReads ==
  ASSUME Typed, NEW p \in Threads,
         \/ Read(p) \/ Condemn(p) \/ Drop(p) \/ Touch(p)
         \/ NotModified(p) \/ Answered(p) \/ Refresh(p) \/ Confirm(p)
  PROVE  Typed'
<1> USE LocalsOf DEF Typed
<1>idx. UNCHANGED index => IndexType'
  BY OtherTransactionsType
<1>idle. Goto(p, "idle", Blank) => ThreadsOK'
  BY BlankType, GotoType DEF Steps, WithRecord
<1>1. CASE Read(p)
  <2>1. loc[p].rec \in Entry
    BY <1>1 DEF Read, WithRecord
  <2>2. PICK c \in loc[p].rec.body :
          \/ \E step \in {"touch", "await", "drop"} : Goto(p, step, loc[p])
          \/ Goto(p, "condemn", [loc[p] EXCEPT !.hand = c])
    BY <1>1 DEF Read, ReadNext
  <2>3. c \in Contents
    BY <2>1 DEF Entry
  <2>4. [loc[p] EXCEPT !.hand = c] \in Locals /\ [loc[p] EXCEPT !.hand = c].rec \in Entry
    BY <2>1, <2>3 DEF Locals
  <2>5. {"touch", "await", "drop", "condemn"} \subseteq Steps
    BY DEF Steps
  <2>6. ThreadsOK'
    BY <2>1, <2>2, <2>4, <2>5, GotoType
  <2> QED
    BY <1>1, <1>idx, <2>6, GateType DEF Read, DiskOK
<1>2. CASE Condemn(p)
  <2>1. ThreadsOK'
    BY <1>2, GotoType DEF Condemn
  <2> QED
    BY <1>2, <1>idx, <2>1, GateType DEF Condemn, DiskOK
<1>3. CASE Drop(p)
  <2>1. loc[p].rec \in Entry
    BY <1>3 DEF Drop, WithRecord
  <2>2. CASE Unchanged(loc[p].key, loc[p].rec)
    <3>1. ThreadsOK'
      BY <1>3, <2>1, <2>2, OrphansType, DeleteThenType DEF Drop, Steps
    <3> QED
      BY <1>3, <2>1, <2>2, <3>1, DropBrokenType, GateType DEF Drop, DiskOK
  <2>3. CASE ~Unchanged(loc[p].key, loc[p].rec)
    BY <1>3, <1>idx, <1>idle, <2>3, GateType DEF Drop, DiskOK
  <2> QED
    BY <2>2, <2>3
<1>4. CASE Touch(p)
  BY <1>4, <1>idle, RecordAccessType, GateType DEF Touch, DiskOK
<1>5. CASE NotModified(p)
  <2> DEFINE stored == entries[loc[p].key]
             l == [loc[p] EXCEPT !.rec = [stored EXCEPT !.tag = loc[p].rec.tag],
                                 !.then = "confirm"]
  <2>1. CASE stored = NoEntry
    BY <1>5, <1>idx, <1>idle, <2>1, GateType DEF NotModified, DiskOK
  <2>2. CASE stored # NoEntry
    <3>1. loc[p].rec \in Entry
      BY <1>5 DEF NotModified, WithRecord
    <3>2. stored \in Entry
      BY <2>2 DEF IndexType
    <3>3. [stored EXCEPT !.tag = loc[p].rec.tag] \in Entry
      BY <3>1, <3>2 DEF Entry
    <3>4. l \in Locals /\ l.rec \in Entry
      BY ZenonT(30), <3>3 DEF Locals, Steps
    <3>5. Goto(p, "refresh", l)
      BY <1>5, <2>2 DEF NotModified
    <3>6. ThreadsOK'
      BY <3>4, <3>5, GotoType DEF Steps
    <3> QED
      BY <1>5, <1>idx, <3>6, GateType DEF NotModified, DiskOK
  <2> QED
    BY <2>1, <2>2
<1>6. CASE Answered(p)
  BY <1>6, <1>idx, <1>idle, GateType DEF Answered, DiskOK
<1>7. CASE Refresh(p)
  <2>1. loc[p].rec \in Entry
    BY <1>7 DEF Refresh, WithRecord
  <2>2. ThreadsOK'
    BY <1>7, <2>1, GotoType DEF Refresh
  <2>3. IndexType'
    BY <1>7, <2>1, RefreshEntryType DEF Refresh
  <2> QED
    BY <1>7, <2>2, <2>3, GateType DEF Refresh, DiskOK
<1>8. CASE Confirm(p)
  <2> DEFINE d == [loc[p] EXCEPT !.then = "drop"]
  <2>1. loc[p].rec \in Entry
    BY <1>8 DEF Confirm, WithRecord
  <2>2. d \in Locals /\ d.rec \in Entry
    BY <2>1 DEF Locals, Steps
  <2>3. \/ Goto(p, "drop", d) \/ Goto(p, "idle", Blank)
        \/ \E c \in loc[p].rec.body : Goto(p, "condemn", [d EXCEPT !.hand = c])
    BY <1>8 DEF Confirm
  <2>4. \A c \in loc[p].rec.body :
          [d EXCEPT !.hand = c] \in Locals /\ [d EXCEPT !.hand = c].rec \in Entry
    BY <2>1, <2>2 DEF Locals, Entry
  <2>5. "drop" \in Steps /\ "condemn" \in Steps
    BY DEF Steps
  <2>6. ThreadsOK'
    BY <1>idle, <2>2, <2>3, <2>4, <2>5, GotoType
  <2> QED
    BY <1>8, <1>idx, <2>6, GateType DEF Confirm, DiskOK
<1> QED
  BY <1>1, <1>2, <1>3, <1>4, <1>5, <1>6, <1>7, <1>8

\* The steps of removals, deletions, collections and clears keep it well typed.
LEMMA TypedRemovals ==
  ASSUME Typed, NEW p \in Threads,
         \/ Remove(p) \/ InvalidateHead(p) \/ Discard(p) \/ ForgetRow(p) \/ Unlink(p)
         \/ Prune(p) \/ Pruning(p) \/ Wipe(p) \/ Grant(p) \/ ServePeer(p)
  PROVE  Typed'
<1> USE LocalsOf DEF Typed
<1>idx. UNCHANGED index => IndexType'
  BY OtherTransactionsType
<1>idle. \A l : Goto(p, "idle", l) => ThreadsOK'
  <2>1. \A l : Goto(p, "idle", l) => Goto(p, "idle", Blank)
    BY DEF Goto
  <2> QED
    BY <2>1, BlankType, GotoType DEF Steps, WithRecord
<1>1. CASE Remove(p)
  <2>1. ThreadsOK'
    BY <1>1, OrphansType, DeleteThenType DEF Remove
  <2> QED
    BY <1>1, <2>1, RemoveEntryType, GateType DEF Remove, DiskOK
<1>2. CASE InvalidateHead(p)
  <2>1. loc[p].then \in WithRecord => loc[p].rec \in Entry
    OBVIOUS
  <2>2. ThreadsOK'
    <3>1. "idle" \in Steps /\ "idle" \notin WithRecord
      BY DEF Steps, WithRecord
    <3>2. \E ks : DeleteThen(p, Orphans(ks), "idle", loc[p])
      BY <1>2 DEF InvalidateHead
    <3> QED
      BY <2>1, <3>1, <3>2, OrphansType, DeleteThenType
  <2> QED
    BY <1>2, <2>2, InvalidateType, GateType DEF InvalidateHead, DiskOK
<1>3. CASE Discard(p)
  <2>1. loc[p].rec \in Entry
    BY <1>3 DEF Discard, WithRecord
  <2>2. CASE Unchanged(loc[p].key, loc[p].rec)
    <3>1. ThreadsOK'
      BY <1>3, <2>1, <2>2, OrphansType, DeleteThenType DEF Discard, Steps
    <3> QED
      BY <1>3, <2>2, <3>1, RemoveEntryType, GateType DEF Discard, DiskOK
  <2>3. CASE ~Unchanged(loc[p].key, loc[p].rec)
    BY <1>3, <1>idx, <1>idle, <2>3, GateType DEF Discard, DiskOK
  <2> QED
    BY <2>2, <2>3
<1>next. ASSUME NEW l \in Locals, NextCandidate(p, l),
                l.then \in WithRecord => l.rec \in Entry
         PROVE  ThreadsOK' /\ GateOK'
  <2>1. ThreadsOK'
    <3>1. Goto(p, l.then, l) \/ Goto(p, "forget", l)
      BY <1>next DEF NextCandidate
    <3>2. "forget" \in Steps /\ "forget" \notin WithRecord /\ l.then \in Steps
      BY DEF Steps, WithRecord, Locals
    <3> QED
      BY <1>next, <3>1, <3>2, GotoType
  <2> QED
    BY <1>next, <2>1, GateType DEF NextCandidate, GateOK
<1>4. CASE ForgetRow(p)
  <2>1. PICK c \in loc[p].todo :
          LET l == [loc[p] EXCEPT !.todo = @ \ {c}, !.gone = c]
          IN IF Unreferenced(c)
             THEN Forget(c) /\ Goto(p, "unlink", l) /\ GateKept
             ELSE UNCHANGED index /\ NextCandidate(p, l)
    BY <1>4 DEF ForgetRow
  <2> DEFINE l == [loc[p] EXCEPT !.todo = @ \ {c}, !.gone = c]
  <2>2. c \in Contents
    OBVIOUS
  <2>3. l \in Locals /\ (l.then \in WithRecord => l.rec \in Entry)
    BY <2>2 DEF Locals
  <2>4. CASE Unreferenced(c)
    <3>1. Forget(c) /\ Goto(p, "unlink", l) /\ GateKept
      BY <2>1, <2>4
    <3>2. "unlink" \in Steps /\ "unlink" \notin WithRecord
      BY DEF Steps, WithRecord
    <3> HIDE DEF l
    <3>3. ThreadsOK'
      BY <2>3, <3>1, <3>2, GotoType
    <3> QED
      BY <1>4, <2>2, <3>1, <3>3, OtherTransactionsType, GateType DEF ForgetRow, DiskOK
  <2>5. CASE ~Unreferenced(c)
    BY <1>4, <1>idx, <1>next, <2>1, <2>3, <2>5 DEF ForgetRow, DiskOK
  <2> QED
    BY <2>4, <2>5
<1>5. CASE Unlink(p)
  <2> DEFINE l == [loc[p] EXCEPT !.gone = Empty]
  <2>1. l \in Locals /\ (l.then \in WithRecord => l.rec \in Entry)
    BY StoreAssumption DEF Locals
  <2> QED
    BY <1>5, <1>idx, <1>next, <2>1 DEF Unlink, DiskOK
<1>6. CASE Prune(p)
  <2> DEFINE l == [loc[p] EXCEPT !.todo = StaleSri]
  <2>1. l \in Locals /\ (l.then \in WithRecord => l.rec \in Entry)
    BY DEF Locals, StaleSri, IndexType
  <2>2. ThreadsOK'
    <3>1. PICK step \in {"idle", "pruning"} : Goto(p, step, l)
      BY <1>6 DEF Prune
    <3>2. step \in Steps /\ step \notin WithRecord
      BY DEF Steps, WithRecord
    <3> QED
      BY <2>1, <3>1, <3>2, GotoType
  <2> QED
    BY <1>6, <1>idx, <2>2, GateType DEF Prune, DiskOK
<1>7. CASE Pruning(p)
  BY <1>7, <1>idle, OtherTransactionsType, GateType DEF Pruning, DiskOK
<1>8. CASE Wipe(p)
  <2>1. GateOK'
    BY <1>8 DEF Wipe, GateOK
  <2> QED
    BY <1>8, <1>idx, <1>idle, <2>1 DEF Wipe, DiskOK
<1>9. CASE Grant(p)
  BY <1>9, <1>idle, OtherTransactionsType, GateType DEF Grant, DiskOK
<1>10. CASE ServePeer(p)
  <2>1. Goto(p, "condemn", loc[p]) => ThreadsOK'
    BY GotoType DEF Steps, WithRecord
  <2> QED
    BY <1>10, <1>idx, <1>idle, <2>1, GateType DEF ServePeer, DiskOK
<1> QED
  BY <1>1, <1>2, <1>3, <1>4, <1>5, <1>6, <1>7, <1>8, <1>9, <1>10

\* The number of blobs the budget counts is a natural number.
LEMMA CountedType ==
  ASSUME NEW cs \in SUBSET Contents
  PROVE  Cardinality(cs) \in Nat
BY IndexAssumption, FS_Subset, FS_CardinalityType

\* The steps of an eviction keep the state well typed.
LEMMA TypedEvictions ==
  ASSUME Typed, NEW p \in Threads,
         Totals(p) \/ Snapshot(p) \/ Evict(p) \/ Charge(p)
  PROVE  Typed'
<1> USE LocalsOf DEF Typed
<1>idx. UNCHANGED index => IndexType'
  BY OtherTransactionsType
<1>idle. Goto(p, "idle", Blank) => ThreadsOK'
  BY BlankType, GotoType DEF Steps, WithRecord
<1>1. CASE Totals(p)
  <2> DEFINE l == [Blank EXCEPT !.size = Cardinality(Counted)]
  <2>1. Cardinality(Counted) \in Nat
    BY CountedType DEF Counted
  <2>2. l \in Locals /\ l.then \notin WithRecord
    BY <2>1, BlankType DEF Locals
  <2>3. PICK step \in {"idle", "snapshot"} : Goto(p, step, l)
    BY <1>1 DEF Totals
  <2>4. step \in Steps /\ step \notin WithRecord
    BY DEF Steps, WithRecord
  <2>5. ThreadsOK'
    BY <2>2, <2>3, <2>4, GotoType
  <2> QED
    BY <1>1, <1>idx, <2>5, GateType DEF Totals, DiskOK
<1>2. CASE Snapshot(p)
  <2> DEFINE l == [loc[p] EXCEPT !.victims = {k \in Keys : entries[k] # NoEntry}]
  <2>1. l \in Locals /\ (l.then \in WithRecord => l.rec \in Entry)
    BY DEF Locals
  <2>2. ThreadsOK'
    <3>1. "evict" \in Steps /\ "evict" \notin WithRecord
      BY DEF Steps, WithRecord
    <3> QED
      BY <1>2, <2>1, <3>1, GotoType DEF Snapshot
  <2> QED
    BY <1>2, <1>idx, <2>2, GateType DEF Snapshot, DiskOK
<1>3. CASE Evict(p)
  <2>1. CASE loc[p].size <= Target \/ loc[p].victims = {}
    BY <1>3, <1>idx, <1>idle, <2>1, GateType DEF Evict, DiskOK
  <2>2. CASE ~(loc[p].size <= Target \/ loc[p].victims = {})
    <3>1. PICK k \in loc[p].victims :
            /\ RemoveEntry(k)
            /\ \/ Goto(p, "evict", [loc[p] EXCEPT !.victims = @ \ {k}])
               \/ Goto(p, "charge", [loc[p] EXCEPT !.victims = @ \ {k}, !.todo = Orphans({k})])
      BY <1>3, <2>2 DEF Evict
    <3> DEFINE rest == [loc[p] EXCEPT !.victims = @ \ {k}]
               charge == [loc[p] EXCEPT !.victims = @ \ {k}, !.todo = Orphans({k})]
    <3>2. Orphans({k}) \in SUBSET Contents
      BY OrphansType
    <3>3. /\ rest \in Locals /\ (rest.then \in WithRecord => rest.rec \in Entry)
          /\ charge \in Locals /\ (charge.then \in WithRecord => charge.rec \in Entry)
      BY <3>2 DEF Locals
    <3>4. {"evict", "charge"} \subseteq Steps \ WithRecord
      BY DEF Steps, WithRecord
    <3>5. ThreadsOK'
      BY <3>1, <3>3, <3>4, GotoType
    <3> QED
      BY <1>3, <3>1, <3>5, RemoveEntryType, GateType DEF Evict, DiskOK
  <2> QED
    BY <2>1, <2>2
<1>4. CASE Charge(p)
  <2> DEFINE freed == Cardinality({c \in loc[p].todo : blobs[c] # NoRow})
             l == [loc[p] EXCEPT !.size = IF freed > @ THEN 0 ELSE @ - freed, !.then = "evict"]
  <2>1. freed \in Nat
    BY CountedType
  <2>2. (IF freed > loc[p].size THEN 0 ELSE loc[p].size - freed) \in Nat
    BY <2>1
  <2>3. l \in Locals /\ l.then \notin WithRecord
    BY <2>2, StepNames DEF Locals
  <2>4. ThreadsOK'
    <3>1. "delete" \in Steps /\ "delete" \notin WithRecord
      BY DEF Steps, WithRecord
    <3>2. Goto(p, "delete", l)
      BY <1>4 DEF Charge
    <3> QED
      BY <2>3, <3>1, <3>2, GotoType
  <2> QED
    BY <1>4, <1>idx, <2>4, GateType DEF Charge, DiskOK
<1> QED
  BY <1>1, <1>2, <1>3, <1>4

\* The empty cache is well typed.
LEMMA TypedInit == Init => Typed
<1> SUFFICES ASSUME Init PROVE Typed
  OBVIOUS
<1>1. IndexType
  BY DEF Init, IndexInit, IndexType, NoRow
<1>2. ThreadsOK
  BY BlankType DEF Init, ThreadsOK, HoldsRecord, Steps, WithRecord
<1> QED
  BY <1>1, <1>2 DEF Init, Typed, DiskOK, GateOK

\* Every step keeps the state well typed, with the locals each step relies on.
LEMMA TypedNext == Typed /\ [Next]_vars => Typed'
<1> SUFFICES ASSUME Typed, [Next]_vars PROVE Typed'
  OBVIOUS
<1>1. CASE Rot
  BY <1>1, OtherTransactionsType
  DEF Rot, Typed, threads, DiskOK, GateOK, ThreadsOK, HoldsRecord
<1>2. ASSUME NEW p \in Threads, Calls(p) PROVE Typed'
  BY <1>2, TypedCalls
<1>3. ASSUME NEW p \in Threads, Waits(p) PROVE Typed'
  BY <1>3, TypedWaits
<1>4. ASSUME NEW p \in Threads, Runs(p) PROVE Typed'
  BY <1>4, TypedPuts, TypedReads, TypedRemovals, TypedEvictions DEF Runs
<1>5. CASE UNCHANGED vars
  BY <1>5, OtherTransactionsType
  DEF vars, Typed, threads, DiskOK, GateOK, ThreadsOK, HoldsRecord
<1> QED
  BY <1>1, <1>2, <1>3, <1>4, <1>5 DEF Next

\* Tables, files, locks and every thread's locals keep their types: no count
\* falls below zero, and no record is worked on by a thread that holds none.
THEOREM TypeCorrect == Spec => []TypeOK
<1>1. Typed => TypeOK
  BY DEF Typed, TypeOK, DiskOK, GateOK, ThreadsOK
<1> QED
  BY <1>1, TypedInit, TypedNext, PTL DEF Spec

\* The strengthened typing, which the other proofs start from: a thread at a step
\* that uses its record holds one (cache.rs, every call's locals).
THEOREM AlwaysTyped == Spec => []Typed
BY TypedInit, TypedNext, PTL DEF Spec

(***************************************************************************)
(* Every step is at most one transaction on the index, so what the tables  *)
(* promise each other is shown of the transactions alone.                  *)
(***************************************************************************)

Transaction ==
  \/ UNCHANGED index
  \/ \E k \in Keys, r \in Entry : PutEntry(k, r)
  \/ \E p \in Threads : Refresh(p)
  \/ \E k \in Keys : RemoveEntry(k)
  \/ \E m, u : Invalidate(m, u)
  \/ \E k \in Keys, r \in Entry : DropBroken(k, r)
  \/ \E k \in Keys : RecordAccess(k)
  \/ ClearIndex
  \/ \E c \in Contents : Unreferenced(c) /\ Forget(c)
  \/ \E c \in Contents, h \in Hashes : GrantEligibility(c, h)
  \/ \E cs \in SUBSET Contents : IndexSri(cs) \/ PruneSri(cs)

\* Every step of a thread is one transaction of the index, or leaves it alone: the
\* factoring that lets a property of the tables be proved transaction by transaction.
LEMMA StepIsTransaction == Typed /\ [Next]_vars => Transaction
<1> SUFFICES ASSUME Typed, [Next]_vars PROVE Transaction
  OBVIOUS
<1>1. CASE Rot \/ UNCHANGED vars
  BY <1>1 DEF Rot, vars, Transaction
<1>2. ASSUME NEW p \in Threads, Calls(p) PROVE Transaction
  <2>1. CASE InvalidateUrl(p)
    BY <2>1 DEF InvalidateUrl, Transaction
  <2>2. CASE Clear(p)
    BY <2>2 DEF Clear, Transaction
  <2> QED
    BY <1>2, <2>1, <2>2
    DEF Calls, Store, StorePartial, Lookup, DiscardRepresentation, CollectGarbage,
        GrantPeer, AskedByPeer, Transaction
<1>3. ASSUME NEW p \in Threads, Waits(p) PROVE Transaction
  BY <1>3 DEF Waits, Delete, PutSlice, Transaction
<1>4. ASSUME NEW p \in Threads, Runs(p) PROVE Transaction
  <2> USE LocalsOf
  <2>1. CASE Commit(p)
    <3>1. loc[p].rec \in Entry
      BY <2>1 DEF Commit, WithRecord
    <3> QED
      BY <2>1, <3>1 DEF Commit, Transaction
  <2>2. CASE Index(p) \/ Digest(p)
    <3>1. \E cs \in SUBSET Contents : IndexSri(cs)
      BY <2>2 DEF Index, Digest
    <3> QED
      BY <3>1 DEF Transaction
  <2>3. CASE Drop(p)
    <3>1. loc[p].rec \in Entry
      BY <2>3 DEF Drop, WithRecord
    <3> QED
      BY <2>3, <3>1 DEF Drop, Transaction
  <2>4. CASE Touch(p)
    BY <2>4 DEF Touch, Transaction
  <2>5. CASE Refresh(p)
    BY <2>5 DEF Transaction
  <2>6. CASE Remove(p) \/ Discard(p) \/ Evict(p)
    <3>1. UNCHANGED index \/ \E k \in Keys : RemoveEntry(k)
      BY <2>6 DEF Remove, Discard, Evict
    <3> QED
      BY <3>1 DEF Transaction
  <2>7. CASE InvalidateHead(p)
    BY <2>7 DEF InvalidateHead, Transaction
  <2>8. CASE ForgetRow(p)
    <3>1. UNCHANGED index \/ \E c \in Contents : Unreferenced(c) /\ Forget(c)
      BY <2>8 DEF ForgetRow
    <3> QED
      BY <3>1 DEF Transaction
  <2>9. CASE Pruning(p)
    BY <2>9 DEF Pruning, Transaction
  <2>10. CASE Grant(p)
    BY <2>10 DEF Grant, Transaction
  <2>11. CASE UNCHANGED index
    BY <2>11 DEF Transaction
  <2> QED
    BY <1>4, <2>1, <2>2, <2>3, <2>4, <2>5, <2>6, <2>7, <2>8, <2>9, <2>10, <2>11
    DEF Runs, WriteFile, WriteFails, Head, Join, Read, Condemn, NotModified, Answered,
        Confirm, Unlink, Prune, Wipe, ServePeer, Totals, Snapshot, Charge
<1> QED
  BY <1>1, <1>2, <1>3, <1>4 DEF Next

(***************************************************************************)
(* Only a blob with a record is offered to peers.                          *)
(***************************************************************************)

\* Every transaction keeps peer rows to contents that have a row.
LEMMA EligibleHasRowNext ==
  Typed /\ EligibleHasRow /\ [Next]_vars => EligibleHasRow'
<1> SUFFICES ASSUME Typed, EligibleHasRow, Transaction PROVE EligibleHasRow'
  BY StepIsTransaction
<1>t. IndexType
  BY DEF Typed
<1>r. \A c \in Contents, n \in Nat : Release(blobs[c], n) = NoRow <=> blobs[c] = NoRow
  BY <1>t, ReleaseType DEF IndexType
<1>removed. ASSUME NEW ks \in SUBSET Keys, ReleaseAll(ks)
            PROVE  \A c \in Contents : blobs'[c] = NoRow <=> blobs[c] = NoRow
  BY <1>t, <1>removed, ReleaseAllType
<1>1. CASE \E k \in Keys, r \in Entry : PutEntry(k, r)
  <2>1. PICK k \in Keys, r \in Entry : PutEntry(k, r)
    BY <1>1
  <2>2. \A c \in Contents : blobs[c] # NoRow => blobs'[c] # NoRow
    BY <1>t, <1>r, <2>1 DEF PutEntry, Acquire, IndexType, NoRow
  <2> QED
    BY <2>1, <2>2 DEF PutEntry, EligibleHasRow
<1>2. CASE \E p \in Threads : Refresh(p)
  BY <1>2 DEF Refresh, RefreshEntry, EligibleHasRow
<1>3. CASE \E k \in Keys : RemoveEntry(k)
  BY <1>3, <1>removed DEF RemoveEntry, EligibleHasRow
<1>4. CASE \E m, u : Invalidate(m, u)
  <2>1. \A m, u : Listed(m, u) \in SUBSET Keys
    BY <1>t DEF Listed, IndexType
  <2> QED
    BY <1>4, <1>removed, <2>1 DEF Invalidate, EligibleHasRow
<1>5. CASE \E k \in Keys, r \in Entry : DropBroken(k, r)
  BY <1>5, <1>removed DEF DropBroken, EligibleHasRow
<1>6. CASE \E k \in Keys : RecordAccess(k)
  BY <1>6 DEF RecordAccess, EligibleHasRow
<1>7. CASE ClearIndex
  BY <1>7 DEF ClearIndex, EligibleHasRow
<1>8. CASE \E c \in Contents : Unreferenced(c) /\ Forget(c)
  BY <1>t, <1>8 DEF Forget, EligibleHasRow, IndexType
<1>9. CASE \E c \in Contents, h \in Hashes : GrantEligibility(c, h)
  BY <1>t, <1>9 DEF GrantEligibility, EligibleHasRow, IndexType, NoRow
<1>10. CASE UNCHANGED index \/ \E cs \in SUBSET Contents : IndexSri(cs) \/ PruneSri(cs)
  BY <1>10 DEF index, IndexSri, PruneSri, EligibleHasRow
<1> QED
  BY <1>1, <1>2, <1>3, <1>4, <1>5, <1>6, <1>7, <1>8, <1>9, <1>10 DEF Transaction

\* Nothing is offered to peers that has no blob record, and that eviction could
\* not also take away (index.rs:840-842): whatever calls overlap, whatever file
\* rots, and although a hash is granted long after the body was read.
THEOREM OnlyHeldBlobsAreOffered == Spec => []EligibleHasRow
<1>1. Init => EligibleHasRow
  BY DEF Init, IndexInit, EligibleHasRow
<1> QED
  BY <1>1, TypedInit, TypedNext, EligibleHasRowNext, PTL DEF Spec

(***************************************************************************)
(* Reference counts.  A refresh that lands on another body than the one it *)
(* was made from is the only step of the cache that makes a count drift:   *)
(* in every run without such a step the counts are exact, for any number   *)
(* of threads, keys, contents and overlapping calls.                       *)
(***************************************************************************)

\* A refresh finds the body it was made from: what refresh_entry, which is told
\* nothing of the record it overwrites, leaves to its caller.
RefreshesKeepBody ==
  \A p \in Threads :
    Refresh(p) => Body(entries[loc[p].key]) = loc[p].rec.body

\* Finitely many records refer to a content, so they can be counted.
LEMMA NamingFinite ==
  ASSUME NEW ks \in SUBSET Keys, NEW c
  PROVE  IsFiniteSet(Naming(ks, c)) /\ Cardinality(Naming(ks, c)) \in Nat
<1>1. Naming(ks, c) \subseteq Keys
  BY DEF Naming
<1> QED
  BY <1>1, NamingCount, IndexAssumption, FS_Subset

\* The references of all keys, less those of some of them.
LEMMA NamingRest ==
  ASSUME NEW ks \in SUBSET Keys, NEW c
  PROVE  /\ Cardinality(Naming(Keys, c) \ Naming(ks, c))
              = Cardinality(Naming(Keys, c)) - Cardinality(Naming(ks, c))
         /\ Cardinality(Naming(ks, c)) <= Cardinality(Naming(Keys, c))
<1>1. Naming(Keys, c) \cap Naming(ks, c) = Naming(ks, c) /\ Naming(ks, c) \subseteq Naming(Keys, c)
  BY DEF Naming
<1>2. IsFiniteSet(Naming(Keys, c))
  BY NamingFinite
<1>3. Cardinality(Naming(Keys, c) \ Naming(ks, c))
        = Cardinality(Naming(Keys, c)) - Cardinality(Naming(Keys, c) \cap Naming(ks, c))
  BY <1>2, FS_Difference
<1>4. Cardinality(Naming(ks, c)) <= Cardinality(Naming(Keys, c))
  BY <1>1, <1>2, FS_Subset
<1> QED
  BY <1>1, <1>3, <1>4

\* Where the bodies named by the records stay the same, so do the counts' proofs.
LEMMA SameReferences ==
  ASSUME RefcountsExact, blobs' = blobs,
         \A k \in Keys : Body(entries'[k]) = Body(entries[k])
  PROVE  RefcountsExact'
<1>1. \A c \in Contents : Naming(Keys, c)' = Naming(Keys, c)
  BY DEF Naming, Body
<1> QED
  BY <1>1 DEF RefcountsExact

\* put_entry (index.rs:404-482) keeps the counts exact: it releases what the
\* replaced record held and acquires what it did not.
LEMMA PutEntryCounts ==
  ASSUME IndexType, RefcountsExact, NEW k \in Keys, NEW r \in Entry, PutEntry(k, r)
  PROVE  RefcountsExact'
<1> SUFFICES ASSUME NEW c \in Contents
             PROVE  (IF blobs[c] = NoRow THEN Naming(Keys, c) = {}
                     ELSE blobs[c] = Cardinality(Naming(Keys, c)))'
  BY DEF RefcountsExact
<1> DEFINE N == Naming(Keys, c)
<1>1. /\ entries' = [entries EXCEPT ![k] = r]
      /\ blobs'[c] = IF c \in Replaced(k, r) THEN Release(blobs[c], 1)
                     ELSE IF c \in Acquired(k, r) THEN Acquire(blobs[c]) ELSE blobs[c]
  BY DEF PutEntry
<1>2. r # NoEntry
  BY IndexAssumption
<1>3. \A q \in Keys : Body(entries[q])' = IF q = k THEN r.body ELSE Body(entries[q])
  BY <1>1, <1>2 DEF Body, IndexType
<1>4. IsFiniteSet(N) /\ Cardinality(N) \in Nat /\ blobs[c] \in Int
  BY NamingFinite DEF IndexType
<1>5. IF blobs[c] = NoRow THEN N = {} ELSE blobs[c] = Cardinality(N)
  BY DEF RefcountsExact
<1>6. CASE c \in Replaced(k, r)
  <2>1. k \in N /\ N' = N \ {k}
    BY <1>3, <1>6 DEF Naming, Replaced
  <2>2. Cardinality(N') = Cardinality(N) - 1 /\ Cardinality(N') \in Nat
    BY <1>4, <2>1, FS_RemoveElement, FS_CardinalityType
  <2>3. blobs'[c] = Cardinality(N')
    BY <1>1, <1>4, <1>5, <1>6, <2>1, <2>2 DEF Release, NoRow
  <2> QED
    BY <2>2, <2>3 DEF NoRow
<1>7. CASE c \in Acquired(k, r)
  <2>1. k \notin N /\ N' = N \cup {k}
    BY <1>3, <1>7 DEF Naming, Acquired
  <2>2. Cardinality(N') = Cardinality(N) + 1
    BY <1>4, <2>1, FS_AddElement
  <2>3. blobs'[c] = Acquire(blobs[c])
    BY <1>1, <1>7 DEF Acquired, Replaced
  <2>4. blobs'[c] = Cardinality(N')
    BY <1>4, <1>5, <2>2, <2>3, FS_EmptySet DEF Acquire, NoRow
  <2> QED
    BY <1>4, <2>2, <2>4 DEF NoRow
<1>8. CASE c \notin Replaced(k, r) /\ c \notin Acquired(k, r)
  <2>1. N' = N
    BY <1>3, <1>8 DEF Naming, Replaced, Acquired
  <2> QED
    BY <1>1, <1>5, <1>8, <2>1
<1> QED
  BY <1>6, <1>7, <1>8

\* Removing records (remove_entry_in, index.rs:1006) keeps the counts exact.
LEMMA ReleaseAllCounts ==
  ASSUME IndexType, RefcountsExact, NEW ks \in SUBSET Keys, ReleaseAll(ks)
  PROVE  RefcountsExact'
<1> SUFFICES ASSUME NEW c \in Contents
             PROVE  (IF blobs[c] = NoRow THEN Naming(Keys, c) = {}
                     ELSE blobs[c] = Cardinality(Naming(Keys, c)))'
  BY DEF RefcountsExact
<1> DEFINE N == Naming(Keys, c)
           G == Naming(ks, c)
<1>1. \A q \in Keys : Body(entries[q])' = IF q \in ks THEN {} ELSE Body(entries[q])
  BY DEF ReleaseAll, Body
<1>2. N' = N \ G
  BY <1>1 DEF Naming
<1>3. blobs'[c] = Release(blobs[c], Cardinality(G))
  BY DEF ReleaseAll
<1>4. /\ Cardinality(N) \in Nat /\ Cardinality(G) \in Nat /\ Cardinality(G) <= Cardinality(N)
      /\ Cardinality(N') = Cardinality(N) - Cardinality(G)
  BY <1>2, NamingFinite, NamingRest
<1>5. IF blobs[c] = NoRow THEN N = {} ELSE blobs[c] = Cardinality(N)
  BY DEF RefcountsExact
<1>6. CASE blobs[c] = NoRow
  BY <1>2, <1>3, <1>5, <1>6 DEF Release
<1>7. CASE blobs[c] # NoRow
  BY <1>3, <1>4, <1>5, <1>7 DEF Release, NoRow
<1> QED
  BY <1>6, <1>7

\* Each transaction keeps the counts exact, but for a refresh on another body.
LEMMA CountsNext ==
  Typed /\ RefcountsExact /\ [Next]_vars /\ [RefreshesKeepBody]_vars => RefcountsExact'
<1> SUFFICES ASSUME Typed, RefcountsExact, Transaction, [RefreshesKeepBody]_vars
             PROVE  RefcountsExact'
  BY StepIsTransaction
<1>t. IndexType
  BY DEF Typed
<1>1. CASE \E k \in Keys, r \in Entry : PutEntry(k, r)
  BY <1>t, <1>1, PutEntryCounts
<1>2. CASE \E p \in Threads : Refresh(p)
  <2>1. PICK p \in Threads : Refresh(p)
    BY <1>2
  <2> DEFINE k == loc[p].key
             r == loc[p].rec
  <2>2. k \in Keys /\ r \in Entry /\ RefreshEntry(k, r)
    BY <2>1, LocalsOf DEF Refresh, WithRecord
  <2>3. CASE RefreshesKeepBody
    <3>1. Body(entries[k]) = r.body
      BY <2>1, <2>3 DEF RefreshesKeepBody
    <3>2. \A q \in Keys : Body(entries'[q]) = Body(entries[q])
      BY <1>t, <2>2, <3>1, IndexAssumption DEF RefreshEntry, Body, IndexType
    <3> QED
      BY <2>2, <3>2, SameReferences DEF RefreshEntry
  <2>4. CASE UNCHANGED vars
    BY <2>4, SameReferences DEF vars, index
  <2> QED
    BY <2>3, <2>4
<1>3. CASE \E k \in Keys : RemoveEntry(k)
  BY <1>t, <1>3, ReleaseAllCounts DEF RemoveEntry
<1>4. CASE \E m, u : Invalidate(m, u)
  <2>1. \A m, u : Listed(m, u) \in SUBSET Keys
    BY <1>t DEF Listed, IndexType
  <2> QED
    BY <1>t, <1>4, <2>1, ReleaseAllCounts DEF Invalidate
<1>5. CASE \E k \in Keys, r \in Entry : DropBroken(k, r)
  BY <1>t, <1>5, ReleaseAllCounts DEF DropBroken
<1>6. CASE \E k \in Keys : RecordAccess(k)
  <2>1. PICK k \in Keys : RecordAccess(k)
    BY <1>6
  <2>2. CASE entries[k] = NoEntry
    BY <2>1, <2>2, SameReferences DEF RecordAccess
  <2>3. CASE entries[k] # NoEntry
    <3> DEFINE used == [entries[k] EXCEPT !.hits = IF @ < MaxHits THEN @ + 1 ELSE @]
    <3>1. entries[k] \in Entry
      BY <1>t, <2>3 DEF IndexType
    <3>2. used \in Entry /\ used.body = entries[k].body
      BY <3>1, IndexAssumption DEF Entry
    <3>3. entries' = [entries EXCEPT ![k] = used] /\ blobs' = blobs
      BY <2>1, <2>3 DEF RecordAccess
    <3>4. \A q \in Keys : Body(entries'[q]) = Body(entries[q])
      BY <1>t, <2>3, <3>2, <3>3, IndexAssumption DEF Body, IndexType
    <3> QED
      BY <3>3, <3>4, SameReferences
  <2> QED
    BY <2>2, <2>3
<1>7. CASE ClearIndex
  BY <1>7 DEF ClearIndex, RefcountsExact, Naming, Body
<1>8. CASE \E c \in Contents : Unreferenced(c) /\ Forget(c)
  <2>1. PICK c \in Contents : Unreferenced(c) /\ Forget(c)
    BY <1>8
  <2>2. IsFiniteSet(Naming(Keys, c))
    BY NamingFinite
  <2>3. Naming(Keys, c) = {}
    BY <2>1, <2>2, FS_EmptySet DEF Unreferenced, RefcountsExact, NoRow
  <2>4. \A d \in Contents : Naming(Keys, d)' = Naming(Keys, d)
    BY <2>1 DEF Forget, Naming, Body
  <2> QED
    BY <1>t, <2>1, <2>3, <2>4 DEF Forget, RefcountsExact, IndexType
<1>9. CASE \/ UNCHANGED index
           \/ \E c \in Contents, h \in Hashes : GrantEligibility(c, h)
           \/ \E cs \in SUBSET Contents : IndexSri(cs) \/ PruneSri(cs)
  <2>1. entries' = entries /\ blobs' = blobs
    BY <1>9 DEF index, GrantEligibility, IndexSri, PruneSri
  <2> QED
    BY <2>1, SameReferences
<1> QED
  BY <1>1, <1>2, <1>3, <1>4, <1>5, <1>6, <1>7, <1>8, <1>9 DEF Transaction

\* Reference counts cannot drift (index.rs:397-398), as long as no refresh lands
\* on another body than it was made from.  That it may is what the violation run
\* of RefcountsExact shows; this says nothing else makes them drift.
THEOREM CountsAreExact ==
  Spec /\ [][RefreshesKeepBody]_vars => []RefcountsExact
<1>1. Init => RefcountsExact
  BY DEF Init, IndexInit, RefcountsExact, Naming, Body
<1> QED
  BY <1>1, TypedInit, TypedNext, CountsNext, PTL DEF Spec

=============================================================================
