------------------------------ MODULE Authority ------------------------------
(***************************************************************************)
(* The proxy's certificate authority: the key and the certificate in its   *)
(* directory as runs of the proxy find, make and are killed making them,   *)
(* the leaves a run keeps, and the certificates the login keychain trusts. *)
(* crates/syndeo-proxy/src/ca.rs and keychain.rs.  macOS's keychain is     *)
(* external.  One run at a time has the directory: two first runs that     *)
(* overlap are out of this module's reach, and of the code's care.         *)
(***************************************************************************)
EXTENDS Naturals, Sequences, SequencesExt

CONSTANTS
  Keys,          \* key pairs that may be generated
  Stale,         \* certificates of other homes, under the same name
  Starts,        \* what may be in the directory at first
  LeafHosts,     \* hosts that leaves are minted for
  Tunnels,       \* tunnels that ask for them
  LeafCapacity,  \* LEAF_CAPACITY
  Nothing        \* no file, no key, no certificate, no host

ASSUME AuthorityAssumption ==
  /\ Nothing \notin Keys /\ Nothing \notin LeafHosts /\ Stale \cap Keys = {}
  /\ Starts \subseteq [key : Keys \cup {Nothing}, cert : Keys \cup {Nothing}]
  /\ LeafCapacity \in Nat \ {0}

VARIABLES
  files,     \* KEY and CERTIFICATE: a certificate is named by the key it is for
  made,      \* the keys generated so far
  step,      \* where the run is
  fresh,     \* the pair it is about to write, or has loaded
  leaves,    \* Leaves::by_host, the least recently used first
  minting,   \* the host each tunnel is minting a leaf for
  trusted    \* the keychain's certificates of our name

authority == <<files, made, step, fresh, leaves, minting, trusted>>

Pair(key, cert) == [key |-> key, cert |-> cert]

NoPair == Pair(Nothing, Nothing)

AuthorityInit ==
  /\ files \in Starts
  /\ made = {files.key, files.cert} \ {Nothing}
  /\ step = "off" /\ fresh = NoPair
  /\ leaves = <<>> /\ minting = [t \in Tunnels |-> Nothing]
  /\ trusted = Stale

-----------------------------------------------------------------------------
\* load_or_create: which of the two files are there decides.  A pair is loaded as it is.
LoadPair ==
  /\ step = "off" /\ files.key # Nothing /\ files.cert # Nothing
  /\ fresh' = files /\ step' = "up"
  /\ UNCHANGED <<files, made, leaves, minting, trusted>>

\* certificate_for: a key without its certificate is certified again.
CertifyAgain ==
  /\ step = "off" /\ files.key # Nothing /\ files.cert = Nothing
  /\ fresh' = Pair(files.key, files.key) /\ step' = "cert"
  /\ UNCHANGED <<files, made, leaves, minting, trusted>>

\* generate_into: a new pair, the key to be written first.
Generate ==
  /\ step = "off" /\ files.key = Nothing
  /\ \E k \in Keys \ made :
       made' = made \cup {k} /\ fresh' = Pair(k, k)
  /\ step' = "key"
  /\ UNCHANGED <<files, leaves, minting, trusted>>

\* posture::write_new: whole or not at all.
WriteNew(name) == files' = [files EXCEPT ![name] = fresh[name]]

\* Mutant: the certificate is put in place before the key.
WriteKeyLast ==
  /\ step = "key" /\ WriteNew("cert")
  /\ step' = "cert"
  /\ UNCHANGED <<made, fresh, leaves, minting, trusted>>

WriteKey ==
  /\ step = "key" /\ WriteNew("key")
  /\ step' = "cert"
  /\ UNCHANGED <<made, fresh, leaves, minting, trusted>>

WriteCert ==
  /\ step = "cert" /\ WriteNew("cert")
  /\ step' = "up"
  /\ UNCHANGED <<made, fresh, leaves, minting, trusted>>

\* The run ends, or is killed between any two writes.
RunEnds ==
  /\ step # "off" /\ step' = "off" /\ fresh' = NoPair
  /\ leaves' = <<>> /\ minting' = [t \in Tunnels |-> Nothing]
  /\ UNCHANGED <<files, made, trusted>>

-----------------------------------------------------------------------------
\* server_config, under the lock of the leaves twice: a leaf that is kept becomes the most
\* recent (Leaves::get); one that is not is minted outside the lock (leaf_chain).
GetLeaf(t, host) ==
  /\ step = "up" /\ minting[t] = Nothing
  /\ IF Contains(leaves, host)
     THEN leaves' = Append(Remove(leaves, host), host) /\ UNCHANGED minting
     ELSE minting' = [minting EXCEPT ![t] = host] /\ UNCHANGED leaves
  /\ UNCHANGED <<files, made, step, fresh, trusted>>

\* Leaves::insert: the least recently used goes when a new host finds no room.
Inserted(host) ==
  IF Contains(leaves, host) THEN Append(Remove(leaves, host), host)
  ELSE Append(IF Len(leaves) >= LeafCapacity THEN Tail(leaves) ELSE leaves, host)

InsertLeaf(t) ==
  /\ minting[t] # Nothing
  /\ leaves' = Inserted(minting[t])
  /\ minting' = [minting EXCEPT ![t] = Nothing]
  /\ UNCHANGED <<files, made, step, fresh, trusted>>

-----------------------------------------------------------------------------
\* Security::find and parse: the certificates of our name.
Found == trusted

\* Security::delete, by fingerprint.
Deleted(c) == Found \ {c}

\* ca --trust: yes typed here, and the password to macOS.
TrustInLoginKeychain ==
  /\ step = "up" /\ fresh.cert \notin trusted
  /\ trusted' = trusted \cup {fresh.cert}
  /\ UNCHANGED <<files, made, step, fresh, leaves, minting>>

\* untrust_local: by its fingerprint.
UntrustLocal ==
  /\ step = "up" /\ fresh.cert \in Found
  /\ trusted' = Deleted(fresh.cert)
  /\ UNCHANGED <<files, made, step, fresh, leaves, minting>>

\* untrust_by_name, where there is no certificate on disk: each one that has our name is
\* deleted only if somebody types yes.
UntrustByName ==
  /\ step = "off" /\ files.cert = Nothing
  /\ \E c \in Found : trusted' = Deleted(c)
  /\ UNCHANGED <<files, made, step, fresh, leaves, minting>>

AuthorityNext ==
  \/ LoadPair \/ CertifyAgain \/ Generate \/ WriteKey \/ WriteCert \/ RunEnds
  \/ \E t \in Tunnels : InsertLeaf(t) \/ \E h \in LeafHosts : GetLeaf(t, h)
  \/ TrustInLoginKeychain \/ UntrustLocal \/ UntrustByName

AuthoritySpec == AuthorityInit /\ [][AuthorityNext]_authority

-----------------------------------------------------------------------------
\* Wherever a run is killed, a certificate on disk is for the key beside it, so that the
\* next run, which loads both as they are, can sign under the authority it presents; and
\* what a run presents is what it signs with.  From a directory in which nothing, a key
\* or a matching pair was found.
PairMatches ==
  /\ files.cert # Nothing => files.cert = files.key
  /\ step = "up" => fresh.cert = fresh.key /\ fresh = files

\* "Written key first so an interruption can only ever leave the key" (ca.rs:240): where both
\* files are there and no run is between them, they are a pair that can be loaded.
InterruptionLeavesKey ==
  step = "off" /\ files.key # Nothing /\ files.cert # Nothing => files.cert = files.key
=============================================================================
