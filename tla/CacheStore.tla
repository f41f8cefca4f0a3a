------------------------------ MODULE CacheStore ------------------------------
(***************************************************************************)
(* The cache (crates/syndeo-cache/src/cache.rs) over its index and its     *)
(* blob store (blob.rs), used by several threads at once.                  *)
(*                                                                         *)
(* Every operation of the cache is a sequence of index transactions and    *)
(* file operations, and threads interleave between any two of them.  A     *)
(* thread is at a step; its locals are what the Rust call holds on its     *)
(* stack there.  Two things order the threads: a transaction is atomic,    *)
(* and the blob gate, a read-write lock that stores hold shared and        *)
(* deletions exclusively.                                                  *)
(*                                                                         *)
(* Abstracted: what makes a response storable or fresh (module Freshness   *)
(* of the plan), so which answer a lookup gives is a choice; the order of  *)
(* eviction; sizes, every blob counting one; and where the slices of a     *)
(* body lie, a 206 bringing one whole slice of it.                         *)
(***************************************************************************)
EXTENDS CacheIndex

CONSTANTS
  Threads,      \* threads calling the cache
  Ops,          \* the operations they call
  Empty,        \* the content address of no bytes, the body of a HEAD
  Slices,       \* for each body, the contents its ranges arrive as
  Corruptible,  \* contents whose file may rot on disk
  Unwritable,   \* contents whose file may fail to be written
  MaxRefs,      \* bound: counts beyond it are drift that is not followed
  Capacity,     \* the budget, in blobs
  Target        \* what eviction brings it down to

AllOps == {"store", "partial", "lookup", "revalidate", "invalidate", "discard",
           "collect", "clear", "grant", "serve"}

ASSUME StoreAssumption ==
  /\ Ops \subseteq AllOps
  /\ Empty \in Contents
  /\ Slices \in [Bodies -> SUBSET Contents]
  /\ Corruptible \subseteq Contents /\ Unwritable \subseteq Contents
  /\ MaxRefs \in Nat
  /\ Capacity \in Nat /\ Target \in Nat /\ Target <= Capacity

VARIABLES
  disk,       \* the file of each content: absent, whole, or corrupt
  sharing,    \* threads holding the blob gate shared
  excluding,  \* threads holding it exclusively
  at,         \* the step each thread is at
  loc         \* the locals of each thread

threads == <<sharing, excluding, at, loc>>
vars == <<index, disk, threads>>

Steps == {"idle", "write", "gate", "slice", "join", "whole", "digest", "commit",
          "index", "head", "refresh", "read", "confirm", "condemn", "drop", "touch",
          "await", "discard", "remove", "delete", "forget", "unlink", "prune",
          "pruning", "wipe", "grant", "serve", "invalidateHead", "totals",
          "snapshot", "evict", "charge"}

\* What a call holds on its stack: the key and record it works on, the contents
\* it has put, the one in hand, those it is to delete, the one whose row is gone,
\* what it does after that, and what eviction has left to free and to choose from.
Locals == [key : Keys, rec : Entry \cup {NoEntry}, put : SUBSET Contents,
           hand : Contents, todo : SUBSET Contents, gone : Contents, then : Steps,
           size : Nat, victims : SUBSET Keys]

Blank == [key |-> CHOOSE k \in Keys : TRUE, rec |-> NoEntry, put |-> {},
          hand |-> Empty, todo |-> {}, gone |-> Empty, then |-> "idle",
          size |-> 0, victims |-> {}]

TypeOK ==
  /\ IndexType
  /\ disk \in [Contents -> {"absent", "whole", "corrupt"}]
  /\ sharing \in SUBSET Threads
  /\ excluding \in SUBSET Threads
  /\ at \in [Threads -> Steps]
  /\ loc \in [Threads -> Locals]

Init ==
  /\ IndexInit
  /\ disk = [c \in Contents |-> "absent"]
  /\ sharing = {} /\ excluding = {}
  /\ at = [p \in Threads |-> "idle"]
  /\ loc = [p \in Threads |-> Blank]

-----------------------------------------------------------------------------
(* Moving a thread on.                                                      *)

Goto(p, step, l) ==
  /\ at' = [at EXCEPT ![p] = step]
  /\ loc' = [loc EXCEPT ![p] = IF step = "idle" THEN Blank ELSE l]

\* Mutant: a deletion does not wait for the stores under way.
CanExcludeAnyway == excluding = {}

\* The gate: shared by stores, exclusive for deletions.
CanShare == excluding = {}
CanExclude == sharing = {} /\ excluding = {}
Share(p) == sharing' = sharing \cup {p} /\ UNCHANGED excluding
Unshare(p) == sharing' = sharing \ {p} /\ UNCHANGED excluding
Exclude(p) == excluding' = {p} /\ UNCHANGED sharing
GateKept == UNCHANGED <<sharing, excluding>>

\* Delete the files of the contents an index transaction orphaned, then go on.
DeleteThen(p, orphans, step, l) ==
  IF orphans = {} THEN Goto(p, step, l)
  ELSE Goto(p, "delete", [l EXCEPT !.todo = orphans, !.then = step])

\* What an answer under key k with representation t is stored as.
Payload(k, t) == IF k[1] = "HEAD" THEN Empty ELSE t
WholeRecord(k, t, hits) == [tag |-> t, whole |-> TRUE, body |-> {Payload(k, t)}, hits |-> hits]

-----------------------------------------------------------------------------
(* Storing a whole response: store_with_provenance and finish_streamed.     *)

\* Take the gate and look whether the bytes are on disk already.
Store(p) ==
  /\ "store" \in Ops /\ at[p] = "idle" /\ CanShare /\ Share(p)
  /\ \E k \in Keys, t \in Bodies :
       LET c == Payload(k, t)
       IN Goto(p, IF disk[c] = "absent" THEN "write" ELSE "commit",
               [Blank EXCEPT !.key = k, !.rec = WholeRecord(k, t, 0), !.put = {c},
                             !.hand = c, !.then = "index"])
  /\ UNCHANGED <<index, disk>>

\* The file in hand is renamed into place, whole, whatever is there by now.
WritingNext == [step \in {"write", "slice", "whole"} |->
                  CASE step = "write" -> "commit" [] step = "slice" -> "join"
                    [] step = "whole" -> "digest"]

WriteFile(p) ==
  /\ at[p] \in DOMAIN WritingNext
  /\ disk' = [disk EXCEPT ![loc[p].hand] = "whole"]
  /\ Goto(p, WritingNext[at[p]], loc[p])
  /\ UNCHANGED index /\ GateKept

\* A write that fails removes its temporary file, and the store ends in an error.
WriteFails(p) ==
  /\ at[p] \in DOMAIN WritingNext /\ loc[p].hand \in Unwritable
  /\ Goto(p, "idle", Blank) /\ Unshare(p)
  /\ UNCHANGED <<index, disk>>

\* put_entry, then the gate is given back and what it orphaned is deleted.
Commit(p) ==
  LET l == loc[p]
  IN /\ at[p] = "commit" /\ Unshare(p)
     /\ IF MissingBlob(l.key, l.rec, l.put)
        THEN Goto(p, "idle", Blank) /\ UNCHANGED index
        ELSE /\ PutEntry(l.key, l.rec)
             /\ DeleteThen(p, PutOrphans(l.key, l.rec), l.then, l)
     /\ UNCHANGED disk

\* The body's integrity digests, and for a HEAD what it says of the stored GET.
Index(p) ==
  /\ at[p] = "index" /\ IndexSri(loc[p].put)
  /\ Goto(p, IF loc[p].key[1] = "HEAD" THEN "head" ELSE "totals", loc[p])
  /\ UNCHANGED disk /\ GateKept

\* reconcile_head: the stored GET of the same URL, if one matches, is refreshed
\* when the HEAD describes the same representation and removed when it does not.
StoredGets(k) == {g \in Listed("GET", k[2]) : entries[g] # NoEntry}

\* Refreshes can make counts drift without end (RefcountsExact); one starts only
\* while no count is past the bound.
Bounded == \A c \in Contents : blobs[c] <= MaxRefs

\* Mutant: the HEAD's headers are folded in without asking which representation
\* they describe.
HeadUncompared(p) ==
  /\ at[p] = "head"
  /\ \/ Goto(p, "totals", loc[p])
     \/ Bounded /\ \E g \in StoredGets(loc[p].key) :
          Goto(p, "refresh", [loc[p] EXCEPT !.key = g, !.then = "totals",
                                !.rec = [entries[g] EXCEPT !.tag = loc[p].rec.tag]])
  /\ UNCHANGED <<index, disk>> /\ GateKept

Head(p) ==
  /\ at[p] = "head"
  /\ \/ Goto(p, "totals", loc[p])
     \/ Bounded /\ \E g \in StoredGets(loc[p].key) :
          LET same == entries[g].tag = loc[p].rec.tag
          IN Goto(p, IF same THEN "refresh" ELSE "remove",
                  [loc[p] EXCEPT !.key = g, !.rec = entries[g], !.then = "totals"])
  /\ UNCHANGED <<index, disk>> /\ GateKept

-----------------------------------------------------------------------------
(* Storing a range: store_partial.                                          *)

\* What is stored is read before the gate is taken.  Another representation is
\* removed first; a whole body already stored ends the call.
StorePartial(p) ==
  /\ "partial" \in Ops /\ at[p] = "idle"
  /\ \E k \in {k \in Keys : k[1] = "GET"}, t \in Bodies : \E s \in Slices[t] :
       LET e == entries[k]
           fresh == [tag |-> t, whole |-> FALSE, body |-> {}, hits |-> 0]
           l == [Blank EXCEPT !.key = k, !.rec = fresh, !.hand = s]
       IN \/ e = NoEntry /\ Goto(p, "gate", l)
          \/ e # NoEntry /\ e.tag # t /\ Goto(p, "remove", [l EXCEPT !.then = "gate"])
          \/ e # NoEntry /\ e.tag = t /\ ~e.whole /\ Goto(p, "gate", [l EXCEPT !.rec = e])
  /\ UNCHANGED <<index, disk>> /\ GateKept

\* Only a slice that is not held yet is put.
PutSlice(p) ==
  LET l == loc[p]
      new == l.hand \notin l.rec.body
  IN /\ at[p] = "gate" /\ CanShare /\ Share(p)
     /\ Goto(p, IF new /\ disk[l.hand] = "absent" THEN "slice" ELSE "join",
             [l EXCEPT !.put = IF new THEN {l.hand} ELSE {}, !.then = "totals"])
     /\ UNCHANGED <<index, disk>>

\* Once the runs meet, the slices are read back and the whole body is put; a
\* slice that cannot be read ends the call in an error.
Join(p) ==
  LET l == loc[p]
      held == l.rec.body \cup {l.hand}
      t == l.rec.tag
  IN /\ at[p] = "join"
     /\ UNCHANGED <<index, disk>>
     /\ \/ /\ held # Slices[t]
           /\ Goto(p, "commit", [l EXCEPT !.rec.body = held]) /\ GateKept
        \/ /\ held = Slices[t] /\ \A s \in held : disk[s] = "whole"
           /\ Goto(p, IF disk[t] = "absent" THEN "whole" ELSE "digest",
                   [l EXCEPT !.rec = WholeRecord(l.key, t, l.rec.hits),
                             !.put = @ \cup {t}, !.hand = t])
           /\ GateKept
        \/ /\ held = Slices[t] /\ \E s \in held : disk[s] = "absent"
           /\ Goto(p, "idle", Blank) /\ Unshare(p)
        \/ /\ held = Slices[t]
           /\ \E s \in held : /\ disk[s] = "corrupt"
                              /\ Goto(p, "condemn", [l EXCEPT !.hand = s, !.then = "idle"])
           /\ GateKept

\* The digests of a completed body are indexed before its entry is written.
Digest(p) ==
  /\ at[p] = "digest" /\ IndexSri({loc[p].hand})
  /\ Goto(p, "commit", loc[p])
  /\ UNCHANGED disk /\ GateKept

-----------------------------------------------------------------------------
(* Reading: lookup, materialize, discard_broken.                            *)

\* The variant that matches, among the ones the URL's list names.  A HEAD
\* answered from a stored GET reads no body.
Lookup(p) ==
  /\ "lookup" \in Ops /\ at[p] = "idle"
  /\ \E k \in variants, step \in {"read", "touch"} :
       /\ entries[k] # NoEntry
       /\ Goto(p, step, [Blank EXCEPT !.key = k, !.rec = entries[k], !.then = "drop"])
  /\ UNCHANGED <<index, disk>> /\ GateKept

\* Where a body that could be read takes the call: served (and its use stamped),
\* or, when it has to be revalidated, to the origin with its validator.
ReadNext(l) == {"touch"} \cup IF "revalidate" \in Ops /\ l.rec.whole THEN {"await"} ELSE {}

\* A blob that reads back wrong is condemned: its file is removed, later, by name.
Read(p) ==
  LET l == loc[p]
  IN /\ at[p] = "read"
     /\ \E c \in l.rec.body :
          \/ disk[c] = "whole" /\ \E step \in ReadNext(l) : Goto(p, step, l)
          \/ disk[c] = "absent" /\ Goto(p, "drop", l)
          \/ disk[c] = "corrupt" /\ Goto(p, "condemn", [l EXCEPT !.hand = c])
     /\ UNCHANGED <<index, disk>> /\ GateKept

\* BlobStore::get removing what failed its hash, with no gate asked for.
Condemn(p) ==
  /\ at[p] = "condemn"
  /\ disk' = [disk EXCEPT ![loc[p].hand] = "absent"]
  /\ Goto(p, loc[p].then, loc[p]) /\ Unshare(p)
  /\ UNCHANGED index

\* The entry goes only if it is still exactly the one that failed.
Drop(p) ==
  LET l == loc[p]
  IN /\ at[p] = "drop"
     /\ IF Unchanged(l.key, l.rec)
        THEN DropBroken(l.key, l.rec) /\ DeleteThen(p, Orphans({l.key}), "idle", l)
        ELSE Goto(p, "idle", Blank) /\ UNCHANGED index
     /\ UNCHANGED disk /\ GateKept

Touch(p) ==
  /\ at[p] = "touch" /\ RecordAccess(loc[p].key)
  /\ Goto(p, "idle", Blank)
  /\ UNCHANGED disk /\ GateKept

-----------------------------------------------------------------------------
(* Revalidation: record_not_modified.                                       *)

\* The origin was asked with the validator of the record that was read; its 304
\* names that representation, and is folded onto whatever the key has by then.
NotModified(p) ==
  LET l == loc[p]
      stored == entries[l.key]
  IN /\ at[p] = "await" /\ Bounded
     /\ IF stored = NoEntry THEN Goto(p, "idle", Blank)
        ELSE Goto(p, "refresh", [l EXCEPT !.rec = [stored EXCEPT !.tag = l.rec.tag],
                                          !.then = "confirm"])
     /\ UNCHANGED <<index, disk>> /\ GateKept

\* The origin answers something else, or cannot be reached.
Answered(p) ==
  /\ at[p] = "await" /\ Goto(p, "idle", Blank)
  /\ UNCHANGED <<index, disk>> /\ GateKept

Refresh(p) ==
  /\ at[p] = "refresh" /\ RefreshEntry(loc[p].key, loc[p].rec)
  /\ Goto(p, loc[p].then, loc[p])
  /\ UNCHANGED disk /\ GateKept

\* The body the origin confirmed is read back; one that is lost, as a partial
\* one that does not cover the whole is, takes its entry with it.
Confirm(p) ==
  LET l == loc[p]
      d == [l EXCEPT !.then = "drop"]
  IN /\ at[p] = "confirm"
     /\ \/ ~l.rec.whole /\ Goto(p, "drop", d)
        \/ \E c \in l.rec.body :
             \/ disk[c] = "whole" /\ l.rec.whole /\ Goto(p, "idle", Blank)
             \/ disk[c] = "absent" /\ Goto(p, "drop", d)
             \/ disk[c] = "corrupt" /\ Goto(p, "condemn", [d EXCEPT !.hand = c])
     /\ UNCHANGED <<index, disk>> /\ GateKept

-----------------------------------------------------------------------------
(* Removing: remove_entry, invalidate, purge, discard_representation.       *)

\* An unconditional removal decided on what was read earlier.
Remove(p) ==
  /\ at[p] = "remove" /\ RemoveEntry(loc[p].key)
  /\ DeleteThen(p, Orphans({loc[p].key}), loc[p].then, loc[p])
  /\ UNCHANGED disk /\ GateKept

\* An unsafe method invalidates what its URL's GETs stored, then its HEADs, in
\* two transactions; a purge only one of them.
InvalidateUrl(p) ==
  /\ "invalidate" \in Ops /\ at[p] = "idle"
  /\ \E k \in Keys, step \in {"invalidateHead", "idle"} :
       /\ k[1] = "GET" \/ step = "idle"
       /\ Invalidate(k[1], k[2])
       /\ DeleteThen(p, Orphans(Listed(k[1], k[2])), step, [Blank EXCEPT !.key = k])
  /\ UNCHANGED disk /\ GateKept

InvalidateHead(p) ==
  LET u == loc[p].key[2]
  IN /\ at[p] = "invalidateHead"
     /\ Invalidate("HEAD", u)
     /\ DeleteThen(p, Orphans(Listed("HEAD", u)), "idle", loc[p])
     /\ UNCHANGED disk /\ GateKept

\* An entry whose bytes are not what a page's integrity names.
DiscardRepresentation(p) ==
  /\ "discard" \in Ops /\ at[p] = "idle"
  /\ \E k \in Keys :
       /\ entries[k] # NoEntry /\ entries[k].whole
       /\ Goto(p, "discard", [Blank EXCEPT !.key = k, !.rec = entries[k]])
  /\ UNCHANGED <<index, disk>> /\ GateKept

Discard(p) ==
  LET l == loc[p]
  IN /\ at[p] = "discard"
     /\ IF Unchanged(l.key, l.rec)
        THEN RemoveEntry(l.key) /\ DeleteThen(p, Orphans({l.key}), "idle", l)
        ELSE Goto(p, "idle", Blank) /\ UNCHANGED index
     /\ UNCHANGED disk /\ GateKept

-----------------------------------------------------------------------------
(* Deleting files: delete_orphans, under the gate held exclusively.         *)

Delete(p) ==
  /\ at[p] = "delete" /\ CanExclude /\ Exclude(p)
  /\ Goto(p, "forget", loc[p])
  /\ UNCHANGED <<index, disk>>

\* After a candidate: the next one, or the gate is given back.
NextCandidate(p, l) ==
  IF l.todo = {} THEN Goto(p, l.then, l) /\ excluding' = excluding \ {p} /\ UNCHANGED sharing
  ELSE Goto(p, "forget", l) /\ GateKept

\* A blob taken again since it was released keeps its row and its file.
ForgetRow(p) ==
  /\ at[p] = "forget"
  /\ \E c \in loc[p].todo :
       LET l == [loc[p] EXCEPT !.todo = @ \ {c}, !.gone = c]
       IN IF Unreferenced(c)
          THEN Forget(c) /\ Goto(p, "unlink", l) /\ GateKept
          ELSE UNCHANGED index /\ NextCandidate(p, l)
  /\ UNCHANGED disk

Unlink(p) ==
  /\ at[p] = "unlink"
  /\ disk' = [disk EXCEPT ![loc[p].gone] = "absent"]
  /\ NextCandidate(p, [loc[p] EXCEPT !.gone = Empty])
  /\ UNCHANGED index

-----------------------------------------------------------------------------
(* Garbage collection and clearing.                                         *)

CollectGarbage(p) ==
  /\ "collect" \in Ops /\ at[p] = "idle"
  /\ DeleteThen(p, OrphanedBlobs, "prune", Blank)
  /\ UNCHANGED <<index, disk>> /\ GateKept

\* prune_sri decides what is stale in one transaction and removes it in another.
Prune(p) ==
  /\ at[p] = "prune"
  /\ Goto(p, IF StaleSri = {} THEN "idle" ELSE "pruning", [loc[p] EXCEPT !.todo = StaleSri])
  /\ UNCHANGED <<index, disk>> /\ GateKept

Pruning(p) ==
  /\ at[p] = "pruning" /\ PruneSri(loc[p].todo)
  /\ Goto(p, "idle", Blank)
  /\ UNCHANGED disk /\ GateKept

\* clear holds the gate exclusively from emptying the index until every file in
\* place is gone.
Clear(p) ==
  /\ "clear" \in Ops /\ at[p] = "idle" /\ CanExclude /\ Exclude(p)
  /\ ClearIndex
  /\ Goto(p, "wipe", Blank)
  /\ UNCHANGED disk

Wipe(p) ==
  /\ at[p] = "wipe"
  /\ disk' = [c \in Contents |-> "absent"]
  /\ excluding' = excluding \ {p} /\ UNCHANGED sharing
  /\ Goto(p, "idle", Blank)
  /\ UNCHANGED index

-----------------------------------------------------------------------------
(* Sharing with peers: grant_peer_eligibility and body_for_peer.            *)

\* The body is read under the gate and hashed; then what matched is granted.
GrantPeer(p) ==
  /\ "grant" \in Ops /\ at[p] = "idle" /\ CanShare /\ Share(p)
  /\ \E c \in Contents :
       LET l == [Blank EXCEPT !.hand = c]
       IN \/ disk[c] = "whole" /\ Goto(p, "grant", l)
          \/ disk[c] = "corrupt" /\ Goto(p, "condemn", l)
  /\ UNCHANGED <<index, disk>>

Grant(p) ==
  /\ at[p] = "grant" /\ Unshare(p)
  /\ \E h \in Hashes : GrantEligibility(loc[p].hand, h)
  /\ Goto(p, "idle", Blank)
  /\ UNCHANGED disk

\* A peer names a body by its address, or by a hash the index finds it by.
AskedByPeer(p) ==
  /\ "serve" \in Ops /\ at[p] = "idle"
  /\ \E c \in Contents :
       eligible[c] # {} /\ Goto(p, "serve", [Blank EXCEPT !.hand = c])
  /\ UNCHANGED <<index, disk>> /\ GateKept

ServePeer(p) ==
  /\ at[p] = "serve"
  /\ Goto(p, IF disk[loc[p].hand] = "corrupt" THEN "condemn" ELSE "idle", loc[p])
  /\ UNCHANGED <<index, disk>> /\ GateKept

-----------------------------------------------------------------------------
(* Keeping inside the budget: enforce_budget, after every store.            *)

Totals(p) ==
  LET size == Cardinality(Counted)
  IN /\ at[p] = "totals"
     /\ Goto(p, IF size > Capacity THEN "snapshot" ELSE "idle", [Blank EXCEPT !.size = size])
     /\ UNCHANGED <<index, disk>> /\ GateKept

\* The entries to choose from are read once; the ones stored later are not seen.
Snapshot(p) ==
  /\ at[p] = "snapshot"
  /\ Goto(p, "evict", [loc[p] EXCEPT !.victims = {k \in Keys : entries[k] # NoEntry}])
  /\ UNCHANGED <<index, disk>> /\ GateKept

EvictSame(p) ==
  LET l == loc[p]
  IN /\ at[p] = "evict"
     /\ IF l.size <= Target \/ l.victims = {}
        THEN Goto(p, "idle", Blank) /\ UNCHANGED index
        ELSE \E k \in l.victims :
               /\ RemoveEntry(k)
               /\ IF Orphans({k}) = {} THEN Goto(p, "evict", l)
                  ELSE Goto(p, "charge", [l EXCEPT !.todo = Orphans({k})])
     /\ UNCHANGED disk /\ GateKept

Evict(p) ==
  LET l == loc[p]
  IN /\ at[p] = "evict"
     /\ IF l.size <= Target \/ l.victims = {}
        THEN Goto(p, "idle", Blank) /\ UNCHANGED index
        ELSE \E k \in l.victims :
               LET rest == [l EXCEPT !.victims = @ \ {k}]
               IN /\ RemoveEntry(k)
                  /\ IF Orphans({k}) = {} THEN Goto(p, "evict", rest)
                     ELSE Goto(p, "charge", [rest EXCEPT !.todo = Orphans({k})])
     /\ UNCHANGED disk /\ GateKept

\* Only an orphan that still has a row is taken off the running total.
Charge(p) ==
  LET l == loc[p]
      freed == Cardinality({c \in l.todo : blobs[c] # NoRow})
  IN /\ at[p] = "charge"
     /\ Goto(p, "delete", [l EXCEPT !.size = IF freed > @ THEN 0 ELSE @ - freed,
                                    !.then = "evict"])
     /\ UNCHANGED <<index, disk>> /\ GateKept

-----------------------------------------------------------------------------
(* The specification.                                                       *)

\* A file rots on disk.
Rot ==
  /\ \E c \in Corruptible : disk[c] = "whole" /\ disk' = [disk EXCEPT ![c] = "corrupt"]
  /\ UNCHANGED <<index, threads>>

Calls(p) ==
  \/ Store(p) \/ StorePartial(p) \/ Lookup(p) \/ InvalidateUrl(p)
  \/ DiscardRepresentation(p) \/ CollectGarbage(p) \/ Clear(p)
  \/ GrantPeer(p) \/ AskedByPeer(p)

Waits(p) == Delete(p) \/ PutSlice(p)

Runs(p) ==
  \/ WriteFile(p) \/ WriteFails(p) \/ Commit(p) \/ Index(p) \/ Head(p)
  \/ Join(p) \/ Digest(p)
  \/ Read(p) \/ Condemn(p) \/ Drop(p) \/ Touch(p)
  \/ NotModified(p) \/ Answered(p) \/ Refresh(p) \/ Confirm(p)
  \/ Remove(p) \/ InvalidateHead(p) \/ Discard(p)
  \/ ForgetRow(p) \/ Unlink(p)
  \/ Prune(p) \/ Pruning(p) \/ Wipe(p)
  \/ Grant(p) \/ ServePeer(p)
  \/ Totals(p) \/ Snapshot(p) \/ Evict(p) \/ Charge(p)

Next == Rot \/ \E p \in Threads : Calls(p) \/ Waits(p) \/ Runs(p)

Spec == Init /\ [][Next]_vars

\* A thread inside a call keeps running, and the lock lets everyone who waits
\* for it in sooner or later.
FairSpec ==
  /\ Spec
  /\ \A p \in Threads : WF_vars(Runs(p)) /\ SF_vars(Waits(p))

-----------------------------------------------------------------------------
(* Properties.                                                              *)

AllIdle == \A p \in Threads : at[p] = "idle"

\* Every blob record has its file: nothing a store relied on or wrote between
\* its look at the disk and its commit was deleted under it (cache.rs:124-134,
\* the reason for the blob gate).  For files that do not rot.
RowsHaveFiles == \A c \in Contents : blobs[c] # NoRow => disk[c] = "whole"

\* A reference count is the number of entries that name the content: "All in
\* one transaction so refcounts cannot drift" (index.rs:397-398).
RefcountsExact ==
  \A c \in Contents :
    IF blobs[c] = NoRow THEN Naming(Keys, c) = {}
    ELSE blobs[c] = Cardinality(Naming(Keys, c))

\* No entry names a body that is not on disk, whatever runs between a store and
\* a deletion: the promise of the gate, seen from a lookup (cache.rs:124-134).
EntriesReadable ==
  \A k \in Keys : \A c \in Body(entries[k]) : disk[c] = "whole"

\* Only a blob with a record can be offered to peers, so that nothing is offered
\* that eviction could not also take away (index.rs:840-842).
EligibleHasRow == \A c \in Contents : eligible[c] # {} => blobs[c] # NoRow

\* Between calls the store holds exactly what its entries name: no row without a
\* reference and no file without a row is left for anyone to clean up
\* (cache.rs:426-446, 1380-1385).
QuietIsClean ==
  AllIdle => \A c \in Contents : /\ blobs[c] # 0
                                 /\ blobs[c] = NoRow <=> disk[c] = "absent"

\* When clear returns, nothing that was stored is left to be served, shared with
\* a peer or found on disk (cache.rs:1425-1434).
ClearErases ==
  [][\A p \in Threads : at[p] = "wipe" /\ at'[p] # "wipe" =>
       /\ \A k \in Keys : entries'[k] = NoEntry
       /\ \A c \in Contents : blobs'[c] = NoRow /\ eligible'[c] = {} /\ disk'[c] = "absent"]_vars

\* The headers an entry is served and revalidated under are those of the body it
\* is stored with: "folds fresh headers into an unchanged body" (index.rs:484).
TagNamesBody ==
  \A k \in Keys : entries[k] # NoEntry /\ entries[k].whole =>
    entries[k].body = {Payload(k, entries[k].tag)}

\* Every call that is started returns: no lock is waited for in a cycle, and
\* eviction comes to an end.
CallsReturn == \A p \in Threads : at[p] # "idle" ~> at[p] = "idle"
=============================================================================
