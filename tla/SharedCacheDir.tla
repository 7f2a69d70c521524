---------------------------- MODULE SharedCacheDir ----------------------------
(***************************************************************************)
(* The directory of one URL in a persistent cache_dir (_BlockStore in      *)
(* block_cache.py) and the stores, in one process or several, that open,   *)
(* validate, wipe, fill and read it while the remote file changes.         *)
(*                                                                         *)
(* An action is one operation on the file system.  A file is known by what *)
(* it was written for: the version of the remote file (its size, ETag and  *)
(* Last-Modified, taken to tell versions apart) and the block size.        *)
(* Abstracted: temporary files, which os.replace or a wipe takes away, and *)
(* how many blocks a version has at a block size.                          *)
(***************************************************************************)
EXTENDS Integers, FiniteSets

CONSTANTS
  Stores,       \* _BlockStore instances over time
  Immutable,    \* those with the immutable flag
  NumBlocks,
  NumVersions,  \* bound on the changes of the remote file
  BlockSizes,
  WipesUndisturbed  \* does no wipe stop half-way, or overlap another open?

ASSUME DirAssumption ==
  /\ Immutable \subseteq Stores
  /\ NumBlocks \in Nat /\ NumVersions \in Nat \ {0} /\ BlockSizes # {}
  /\ WipesUndisturbed \in BOOLEAN

VARIABLES
  remote,    \* version of the remote file
  dir,       \* does url_dir exist?
  files,     \* what each file in it was written for
  pc,        \* where each store stands
  stamp,     \* what each store works with: version probed, block size
  removing,  \* files a wipe has listed and not yet removed
  fetched    \* block a store is about to write

vars == <<remote, dir, files, pc, stamp, removing, fetched>>

Blocks == 0 .. NumBlocks - 1
Meta == 0 - 1
None == 0 - 2
Stamps == [version : 1 .. NumVersions, size : BlockSizes]

Exists(f) == f \in DOMAIN files
With(f, written) == [g \in DOMAIN files \cup {f} |-> IF g = f THEN written ELSE files[g]]
Without(S) == [g \in DOMAIN files \ S |-> files[g]]

Opened(s) == pc[s] \in {"open", "writing"}

Init ==
  /\ remote = 1
  /\ dir = FALSE
  /\ files = <<>>
  /\ pc = [s \in Stores |-> "closed"]
  /\ stamp \in [Stores -> {CHOOSE st \in Stamps : TRUE}]
  /\ removing = [s \in Stores |-> {}]
  /\ fetched = [s \in Stores |-> None]

-----------------------------------------------------------------------------
(* Opening a store: _open_meta.                                            *)

MetaMatchesAnySize(s, meta) == s \in Immutable \/ meta.version = stamp[s].version
MetaMatches(s, meta) ==
  /\ meta.size = stamp[s].size
  /\ s \in Immutable \/ meta.version = stamp[s].version

\* Is s removing what it found, or about to?
Wiping(s) ==
  \/ pc[s] \in {"stale", "wiping"}
  \/ pc[s] = "reading" /\ Exists(Meta) /\ ~MetaMatches(s, files[Meta])

\* Whoever uses one cache_dir at a time gives the stores the same block size and
\* flag: two that differ wipe each other's blocks.
MayOpenBesides(s, size, t) ==
  /\ stamp[t].size = size /\ (s \in Immutable <=> t \in Immutable)
  /\ WipesUndisturbed => ~Wiping(t)

\* The probe has brought the version; then, is there a meta.json?
CheckMeta(s) ==
  /\ pc[s] = "closed"
  /\ \E size \in BlockSizes :
       /\ \A t \in Stores : pc[t] # "closed" => MayOpenBesides(s, size, t)
       /\ stamp' = [stamp EXCEPT ![s] = [version |-> remote, size |-> size]]
  /\ pc' = [pc EXCEPT ![s] = IF Exists(Meta) THEN "reading" ELSE "making"]
  /\ UNCHANGED <<remote, dir, files, removing, fetched>>

ReadMeta(s) ==
  /\ pc[s] = "reading"
  /\ pc' = [pc EXCEPT ![s] = IF Exists(Meta) /\ MetaMatches(s, files[Meta])
                             THEN "open" ELSE "stale"]
  /\ UNCHANGED <<remote, dir, files, stamp, removing, fetched>>

\* shutil.rmtree: list the directory, remove file by file in whatever order,
\* then the directory itself unless something new is in it.
ListDir(s) ==
  /\ pc[s] = "stale"
  /\ pc' = [pc EXCEPT ![s] = "wiping"]
  /\ removing' = [removing EXCEPT ![s] = DOMAIN files]
  /\ UNCHANGED <<remote, dir, files, stamp, fetched>>

RemoveFile(s) ==
  /\ pc[s] = "wiping"
  /\ \E f \in removing[s] :
       /\ files' = Without({f})
       /\ removing' = [removing EXCEPT ![s] = @ \ {f}]
  /\ UNCHANGED <<remote, dir, pc, stamp, fetched>>

RemoveDir(s) ==
  /\ pc[s] = "wiping"
  /\ removing[s] = {}
  /\ dir' = (dir /\ files # <<>>)
  /\ pc' = [pc EXCEPT ![s] = "making"]
  /\ UNCHANGED <<remote, files, stamp, removing, fetched>>

MakeDir(s) ==
  /\ pc[s] = "making"
  /\ dir' = TRUE
  /\ pc' = [pc EXCEPT ![s] = "made"]
  /\ UNCHANGED <<remote, files, stamp, removing, fetched>>

WriteMetaInPlace(s) ==
  /\ pc[s] = "made"
  /\ dir
  /\ LET torn == [version |-> 0, size |-> 0]
     IN  \/ /\ Exists(Meta) => files[Meta] # torn
            /\ files' = With(Meta, torn)
            /\ UNCHANGED pc
         \/ /\ Exists(Meta) /\ files[Meta] = torn
            /\ files' = With(Meta, stamp[s])
            /\ pc' = [pc EXCEPT ![s] = "open"]
  /\ UNCHANGED <<remote, dir, stamp, removing, fetched>>

\* _atomic_write of meta.json
WriteMeta(s) ==
  /\ pc[s] = "made"
  /\ dir
  /\ files' = With(Meta, stamp[s])
  /\ pc' = [pc EXCEPT ![s] = "open"]
  /\ UNCHANGED <<remote, dir, stamp, removing, fetched>>

\* No space left, or the directory is gone.
WriteMetaFails(s) ==
  /\ pc[s] = "made"
  /\ pc' = [pc EXCEPT ![s] = "closed"]
  /\ UNCHANGED <<remote, dir, files, stamp, removing, fetched>>

-----------------------------------------------------------------------------
(* An open store.                                                          *)

\* A missing block is fetched, of the version the server has now.
Fetch(s) ==
  /\ pc[s] = "open"
  /\ \E b \in Blocks : ~Exists(b) /\ fetched' = [fetched EXCEPT ![s] = b]
  /\ pc' = [pc EXCEPT ![s] = "writing"]
  /\ UNCHANGED <<remote, dir, files, stamp, removing>>

\* _write_run for one block; _evict may delete others.
WriteBlock(s) ==
  /\ pc[s] = "writing"
  /\ dir
  /\ \E victims \in SUBSET (Blocks \ {fetched[s]}) :
       LET b == fetched[s]
       IN  files' = [g \in (DOMAIN files \cup {b}) \ victims |->
                       IF g = b THEN [version |-> remote, size |-> stamp[s].size]
                                ELSE files[g]]
  /\ pc' = [pc EXCEPT ![s] = "open"]
  /\ fetched' = [fetched EXCEPT ![s] = None]
  /\ UNCHANGED <<remote, dir, stamp, removing>>

WriteBlockFails(s) ==
  /\ pc[s] = "writing"
  /\ pc' = [pc EXCEPT ![s] = "open"]
  /\ fetched' = [fetched EXCEPT ![s] = None]
  /\ UNCHANGED <<remote, dir, files, stamp, removing>>

Close(s) ==
  /\ pc[s] = "open"
  /\ pc' = [pc EXCEPT ![s] = "closed"]
  /\ UNCHANGED <<remote, dir, files, stamp, removing, fetched>>

\* The process of s stops; what it has put in place stays.
Crash(s) ==
  /\ pc[s] # "closed"
  /\ WipesUndisturbed => pc[s] # "wiping"
  /\ pc' = [pc EXCEPT ![s] = "closed"]
  /\ removing' = [removing EXCEPT ![s] = {}]
  /\ fetched' = [fetched EXCEPT ![s] = None]
  /\ UNCHANGED <<remote, dir, files, stamp>>

\* The file on the server is replaced while nobody reads it: the code does not
\* compare versions after opening.
RemoteChanges ==
  /\ \A s \in Stores : pc[s] = "closed"
  /\ remote < NumVersions
  /\ remote' = remote + 1
  /\ UNCHANGED <<dir, files, pc, stamp, removing, fetched>>

-----------------------------------------------------------------------------

StoreStep(s) ==
  \/ CheckMeta(s) \/ ReadMeta(s) \/ ListDir(s) \/ RemoveFile(s) \/ RemoveDir(s)
  \/ MakeDir(s) \/ WriteMeta(s) \/ WriteMetaFails(s)
  \/ Fetch(s) \/ WriteBlock(s) \/ WriteBlockFails(s) \/ Close(s) \/ Crash(s)

Next == (\E s \in Stores : StoreStep(s)) \/ RemoteChanges

Spec == Init /\ [][Next]_vars

-----------------------------------------------------------------------------
(* Properties.                                                             *)

\* Every variable keeps the shape its declaration gives it.
TypeOK ==
  /\ remote \in 1 .. NumVersions
  /\ dir \in BOOLEAN
  /\ DOMAIN files \subseteq Blocks \cup {Meta}
  /\ \A f \in DOMAIN files : files[f] \in Stamps
  /\ pc \in [Stores -> {"closed", "reading", "stale", "wiping", "making", "made",
                        "open", "writing"}]
  /\ stamp \in [Stores -> Stamps]
  /\ removing \in [Stores -> SUBSET (Blocks \cup {Meta})]
  /\ fetched \in [Stores -> Blocks \cup {None}]

\* Blocks of the directory that an open store would serve wrongly: of another
\* block size or, unless it is immutable and asked for it, of another version.
Wrong(s) ==
  {b \in Blocks \cap DOMAIN files :
     \/ files[b].size # stamp[s].size
     \/ s \notin Immutable /\ files[b].version # stamp[s].version}

\* What an open store finds in its directory was written for the file and the
\* block size it works with, over any succession of versions, block sizes,
\* immutable and other stores, and failed opens.
OpenDirIsRight ==
  \A s \in Stores : Opened(s) => Wrong(s) = {}

\* Opening a store next to open ones of the same configuration never wipes the
\* directory under them, even if they all open a new directory at once.
NoWipeUnderReaders ==
  \A s, t \in Stores : pc[s] \in {"stale", "wiping"} => ~Opened(t)

\* "a crash can corrupt at most a single (atomically written) block"
CrashSparesBlocks ==
  \A s \in Stores : Opened(s) => Cardinality(Wrong(s)) <= 1

=============================================================================
