------------------------------ MODULE CacheIndex ------------------------------
(***************************************************************************)
(* The index of the cache (crates/syndeo-cache/src/index.rs): six redb     *)
(* tables, of which the statistics are left out.  redb has one writer at a *)
(* time and a write transaction is atomic, so each transaction of the code *)
(* is one action here; what the cache does between two transactions is in  *)
(* module CacheStore.                                                      *)
(*                                                                         *)
(* A body is an opaque content address.  A record keeps what decides which *)
(* transactions run: the representation its headers describe (the strong   *)
(* validator, "tag"), whether its body is stored whole, the contents its   *)
(* body refers to, and how often it was used, which a comparison of whole  *)
(* records sees.                                                           *)
(***************************************************************************)
EXTENDS Integers, FiniteSets

CONSTANTS
  Methods,    \* request methods responses are stored under
  Urls,       \* normalised URLs, each with its partition
  Varies,     \* secondary keys: the values of the request headers Vary names
  Contents,   \* content addresses
  Bodies,     \* the contents that are whole representations of a GET
  Hashes,     \* the algorithms a page's declared integrity can name
  MaxHits,    \* bound: uses of a record that are told apart
  NoEntry     \* what the table holds for a key with no record

Keys == Methods \X Urls \X Varies
Primary(m, u) == {k \in Keys : k[1] = m /\ k[2] = u}

\* The record of a key, and the reference count of a content with no row.
Entry == [tag : Bodies, whole : BOOLEAN, body : SUBSET Contents, hits : 0 .. MaxHits]
NoRow == -1

ASSUME IndexAssumption ==
  /\ IsFiniteSet(Keys) /\ Keys # {}
  /\ IsFiniteSet(Contents)
  /\ Bodies \subseteq Contents
  /\ MaxHits \in Nat
  /\ NoEntry \notin Entry

VARIABLES
  entries,    \* ENTRIES: the record of each key
  variants,   \* VARIANTS: the keys its URL's list of variants names
  blobs,      \* BLOBS: the reference count of each content, or NoRow
  sri,        \* SRI: the contents an integrity digest finds
  eligible    \* PEER_ELIGIBLE: the verified hashes each content may be given by

index == <<entries, variants, blobs, sri, eligible>>

IndexType ==
  /\ entries \in [Keys -> Entry \cup {NoEntry}]
  /\ variants \in SUBSET Keys
  /\ blobs \in [Contents -> Int]
  /\ \A c \in Contents : blobs[c] >= NoRow
  /\ sri \in SUBSET Contents
  /\ eligible \in [Contents -> SUBSET Hashes]

IndexInit ==
  /\ entries = [k \in Keys |-> NoEntry]
  /\ variants = {}
  /\ blobs = [c \in Contents |-> NoRow]
  /\ sri = {}
  /\ eligible = [c \in Contents |-> {}]

-----------------------------------------------------------------------------
(* References.                                                              *)

\* The distinct contents a record refers to.
Body(e) == IF e = NoEntry THEN {} ELSE e.body

\* Of the keys ks, those whose record refers to content c.
Naming(ks, c) == {k \in ks : c \in Body(entries[k])}

\* A reference count after n references are given up: never below zero, and a
\* content with no row has none to give up.
Release(count, n) == IF count = NoRow THEN NoRow ELSE IF n > count THEN 0 ELSE count - n

\* A reference count after one more reference; a missing row is created.
Acquire(count) == IF count = NoRow THEN 1 ELSE count + 1

-----------------------------------------------------------------------------
(* Entries.                                                                 *)

Replaced(k, r) == Body(entries[k]) \ r.body
Acquired(k, r) == r.body \ Body(entries[k])

\* put_entry fails on a content with neither a row nor a record supplied.
MissingBlob(k, r, supplied) ==
  \E c \in Acquired(k, r) : blobs[c] = NoRow /\ c \notin supplied

\* Mutant: put_entry reports no orphans.
PutOrphansUnreported(k, r) == {}

\* The contents put_entry reports as having lost their last reference.
PutOrphans(k, r) == {c \in Replaced(k, r) : blobs[c] # NoRow /\ Release(blobs[c], 1) = 0}

PutEntry(k, r) ==
  /\ entries' = [entries EXCEPT ![k] = r]
  /\ variants' = variants \cup {k}
  /\ blobs' = [c \in Contents |->
                 IF c \in Replaced(k, r) THEN Release(blobs[c], 1)
                 ELSE IF c \in Acquired(k, r) THEN Acquire(blobs[c])
                 ELSE blobs[c]]
  /\ UNCHANGED <<sri, eligible>>

\* Overwrites the record and nothing else: neither counts nor variants.
RefreshEntry(k, r) ==
  /\ entries' = [entries EXCEPT ![k] = r]
  /\ UNCHANGED <<variants, blobs, sri, eligible>>

\* Removing the records of ks gives up every reference they hold.
ReleaseAll(ks) ==
  /\ entries' = [k \in Keys |-> IF k \in ks THEN NoEntry ELSE entries[k]]
  /\ blobs' = [c \in Contents |-> Release(blobs[c], Cardinality(Naming(ks, c)))]

Orphans(ks) ==
  {c \in Contents : /\ Naming(ks, c) # {}
                    /\ blobs[c] # NoRow
                    /\ Release(blobs[c], Cardinality(Naming(ks, c))) = 0}

\* A key with no record is in no list through it.
RemoveEntry(k) ==
  /\ ReleaseAll({k})
  /\ variants' = IF entries[k] = NoEntry THEN variants ELSE variants \ {k}
  /\ UNCHANGED <<sri, eligible>>

\* The variants invalidating a URL removes: the ones its list names.
Listed(m, u) == variants \cap Primary(m, u)

Invalidate(m, u) ==
  /\ ReleaseAll(Listed(m, u))
  /\ variants' = variants \ Primary(m, u)
  /\ UNCHANGED <<sri, eligible>>

\* Dropping a record only while it is exactly the one that was read; a record
\* whose body was lost also stops being offered to peers.
Unchanged(k, r) == entries[k] = r

DropBroken(k, r) ==
  /\ ReleaseAll({k})
  /\ variants' = variants \ {k}
  /\ eligible' = [c \in Contents |-> IF c \in r.body THEN {} ELSE eligible[c]]
  /\ UNCHANGED sri

\* A use of a record is stamped on it, whichever record the key has by then.
RecordAccess(k) ==
  /\ entries' = IF entries[k] = NoEntry THEN entries
                ELSE [entries EXCEPT ![k].hits = IF @ < MaxHits THEN @ + 1 ELSE @]
  /\ UNCHANGED <<variants, blobs, sri, eligible>>

ClearIndex ==
  /\ entries' = [k \in Keys |-> NoEntry]
  /\ variants' = {}
  /\ blobs' = [c \in Contents |-> NoRow]
  /\ sri' = {}
  /\ eligible' = [c \in Contents |-> {}]

-----------------------------------------------------------------------------
(* Blob rows, integrity rows and peer rows.                                 *)

\* Contents whose row says nothing refers to them.
OrphanedBlobs == {c \in Contents : blobs[c] = 0}

\* Whether the file of c may go: no reference, or no row at all.
Unreferenced(c) == blobs[c] \in {NoRow, 0}

ForgetStillOffered(c) ==
  /\ blobs' = [blobs EXCEPT ![c] = NoRow]
  /\ UNCHANGED <<entries, variants, sri, eligible>>

Forget(c) ==
  /\ blobs' = [blobs EXCEPT ![c] = NoRow]
  /\ eligible' = [eligible EXCEPT ![c] = {}]
  /\ UNCHANGED <<entries, variants, sri>>

\* A hash verified against c is recorded only while a record refers to c.
GrantEligibility(c, h) ==
  /\ eligible' = IF blobs[c] > 0 THEN [eligible EXCEPT ![c] = @ \cup {h}] ELSE eligible
  /\ UNCHANGED <<entries, variants, blobs, sri>>

IndexSri(cs) ==
  /\ sri' = sri \cup cs
  /\ UNCHANGED <<entries, variants, blobs, eligible>>

StaleSri == {c \in sri : blobs[c] = NoRow}

PruneSri(cs) ==
  /\ sri' = sri \ cs
  /\ UNCHANGED <<entries, variants, blobs, eligible>>

\* The blobs the budget counts: those something refers to.
Counted == {c \in Contents : blobs[c] > 0}
=============================================================================
