------------------------- MODULE SharedCacheDirProofs -------------------------
(***************************************************************************)
(* Safety of SharedCacheDir for any stores, blocks, versions and block     *)
(* sizes, and, where no wipe is disturbed, that open stores serve right    *)
(* bytes.                                                                  *)
(***************************************************************************)
EXTENDS SharedCacheDir, TLAPS

-----------------------------------------------------------------------------
(* Files and their stamps.                                                 *)

LEMMA WithoutFacts ==
  ASSUME NEW S
  PROVE  /\ DOMAIN Without(S) = DOMAIN files \ S
         /\ \A g \in DOMAIN files \ S : Without(S)[g] = files[g]
BY DEF Without

LEMMA MetaIsNoBlock == Meta \notin Blocks
BY DirAssumption DEF Meta, Blocks

LEMMA StampShape ==
  ASSUME NEW st \in Stamps
  PROVE  /\ st = [version |-> st.version, size |-> st.size]
         /\ st.version \in 1 .. NumVersions /\ st.size \in BlockSizes
BY DEF Stamps

-----------------------------------------------------------------------------
(* Types.                                                                  *)

\* A store that writes has a block in hand: without that, TypeOK is not inductive.
TypeInv ==
  /\ TypeOK
  /\ \A s \in Stores : pc[s] = "writing" => fetched[s] \in Blocks

LEMMA InitTypes == Init => TypeInv
<1> SUFFICES ASSUME Init PROVE TypeInv
  OBVIOUS
<1>1. (CHOOSE st \in Stamps : TRUE) \in Stamps
  <2>1. PICK size \in BlockSizes : TRUE
    BY DirAssumption
  <2>2. [version |-> 1, size |-> size] \in Stamps
    BY DirAssumption DEF Stamps
  <2> QED
    BY <2>2
<1>2. files = <<>> /\ DOMAIN files = {}
  BY DEF Init
<1>3. stamp \in [Stores -> Stamps]
  <2> DEFINE st == CHOOSE st \in Stamps : TRUE
  <2>1. stamp \in [Stores -> {st}] /\ st \in Stamps
    BY <1>1 DEF Init
  <2> QED
    BY <2>1
<1>4. /\ pc = [s \in Stores |-> "closed"]
      /\ removing = [s \in Stores |-> {}] /\ fetched = [s \in Stores |-> None]
      /\ remote \in 1 .. NumVersions /\ dir = FALSE
  BY DirAssumption DEF Init
<1> QED
  BY <1>2, <1>3, <1>4 DEF TypeInv, TypeOK

LEMMA NextTypes == TypeInv /\ [Next]_vars => TypeInv'
<1> SUFFICES ASSUME TypeInv, [Next]_vars PROVE TypeInv'
  OBVIOUS
<1> USE DEF TypeInv, TypeOK
<1>1. ASSUME NEW s \in Stores, CheckMeta(s)
      PROVE  TypeInv'
  <2>1. PICK size \in BlockSizes : stamp' = [stamp EXCEPT ![s] = [version |-> remote, size |-> size]]
    BY <1>1 DEF CheckMeta
  <2>2. stamp' \in [Stores -> Stamps]
    BY <2>1 DEF Stamps
  <2> QED
    BY <1>1, <2>2 DEF CheckMeta
<1>2. ASSUME NEW s \in Stores, ReadMeta(s) \/ WriteMetaFails(s) \/ MakeDir(s) \/ Close(s)
      PROVE  TypeInv'
  BY <1>2 DEF ReadMeta, WriteMetaFails, MakeDir, Close
<1>3. ASSUME NEW s \in Stores, ListDir(s)
      PROVE  TypeInv'
  BY <1>3 DEF ListDir
<1>4. ASSUME NEW s \in Stores, RemoveFile(s)
      PROVE  TypeInv'
  <2>1. PICK f \in removing[s] : /\ files' = Without({f})
                                 /\ removing' = [removing EXCEPT ![s] = @ \ {f}]
    BY <1>4 DEF RemoveFile
  <2>2. /\ DOMAIN files' = DOMAIN files \ {f}
        /\ \A g \in DOMAIN files' : files'[g] = files[g]
    BY <2>1, WithoutFacts
  <2> QED
    BY <1>4, <2>1, <2>2 DEF RemoveFile
<1>5. ASSUME NEW s \in Stores, RemoveDir(s)
      PROVE  TypeInv'
  BY <1>5 DEF RemoveDir
<1>6. ASSUME NEW s \in Stores, WriteMeta(s)
      PROVE  TypeInv'
  <2>1. /\ DOMAIN files' = DOMAIN files \cup {Meta}
        /\ \A g \in DOMAIN files' : files'[g] \in Stamps
    <3>1. files' = With(Meta, stamp[s]) /\ stamp[s] \in Stamps
      BY <1>6 DEF WriteMeta
    <3> QED
      BY <3>1 DEF With
  <2> QED
    BY <1>6, <2>1 DEF WriteMeta
<1>7. ASSUME NEW s \in Stores, Fetch(s) \/ WriteBlockFails(s) \/ Crash(s)
      PROVE  TypeInv'
  BY <1>7 DEF Fetch, WriteBlockFails, Crash
<1>8. ASSUME NEW s \in Stores, WriteBlock(s)
      PROVE  TypeInv'
  <2>1. PICK victims \in SUBSET (Blocks \ {fetched[s]}) :
          files' = [g \in (DOMAIN files \cup {fetched[s]}) \ victims |->
                      IF g = fetched[s] THEN [version |-> remote, size |-> stamp[s].size]
                                        ELSE files[g]]
    BY <1>8 DEF WriteBlock
  <2>2. [version |-> remote, size |-> stamp[s].size] \in Stamps
    BY StampShape DEF Stamps
  <2>3. fetched[s] \in Blocks
    BY <1>8 DEF WriteBlock
  <2>4. /\ DOMAIN files' \subseteq Blocks \cup {Meta}
        /\ \A g \in DOMAIN files' : files'[g] \in Stamps
    BY <2>1, <2>2, <2>3
  <2> QED
    BY <1>8, <2>4 DEF WriteBlock
<1>9. CASE RemoteChanges
  BY <1>9, DirAssumption DEF RemoteChanges
<1>10. CASE UNCHANGED vars
  BY <1>10 DEF vars
<1> QED
  BY <1>1, <1>2, <1>3, <1>4, <1>5, <1>6, <1>7, <1>8, <1>9, <1>10 DEF Next, StoreStep

\* Every store is somewhere in its opening, reading and closing; every file in
\* the directory is meta.json or a block and was written for some version.
THEOREM TypeCorrect == Spec => []TypeOK
BY InitTypes, NextTypes, PTL DEF Spec, TypeInv

-----------------------------------------------------------------------------
(* The inductive invariant, where no wipe is disturbed.  Whoever is at the *)
(* directory agrees with all others there on what it should hold; meta.json *)
(* tells what the blocks are, but for those an immutable store has added    *)
(* since; and whoever wipes is alone, from the moment it finds meta.json    *)
(* wrong until its list of files, which is all there is, is empty.          *)

Active(s) == pc[s] # "closed"

Agreement ==
  \A s \in Stores : Active(s) =>
    /\ stamp[s].version = remote
    /\ \A t \in Stores : Active(t) =>
         stamp[s].size = stamp[t].size /\ (s \in Immutable <=> t \in Immutable)

WiperAlone ==
  \A s, t \in Stores : Wiping(s) /\ Active(t) => s = t

MetaKnown ==
  \A s \in Stores :
    /\ pc[s] \in {"reading", "open", "writing"} => Exists(Meta)
    /\ pc[s] \in {"open", "writing"} => MetaMatches(s, files[Meta])
    /\ pc[s] \in {"making", "made"} /\ Exists(Meta) => files[Meta] = stamp[s]

MetaTells ==
  \A b \in Blocks \cap DOMAIN files :
    Exists(Meta) => /\ files[b].size = files[Meta].size
                    /\ files[b].version >= files[Meta].version

NothingFromTheFuture ==
  \A f \in DOMAIN files : files[f].version <= remote

ListIsComplete ==
  /\ \A s \in Stores : pc[s] = "wiping" => removing[s] = DOMAIN files
  /\ ~Exists(Meta) => \A b \in DOMAIN files : \E s \in Stores : pc[s] = "wiping"

IInv ==
  /\ TypeInv
  /\ Agreement
  /\ WiperAlone
  /\ MetaKnown
  /\ MetaTells
  /\ NothingFromTheFuture
  /\ ListIsComplete

LEMMA InitIInv == Init => IInv
<1> SUFFICES ASSUME Init PROVE IInv
  OBVIOUS
<1>1. TypeInv
  BY InitTypes
<1>2. DOMAIN files = {} /\ \A s \in Stores : pc[s] = "closed"
  BY DEF Init
<1> QED
  BY <1>1, <1>2 DEF IInv, Agreement, WiperAlone, Wiping, Active, MetaKnown, MetaTells,
                    NothingFromTheFuture, ListIsComplete

\* Steps that touch no file but may move a store: a directory is made, a block is
\* on its way or given up, a store goes, though not half-way through a wipe.
LEMMA MoveIInv ==
  ASSUME IInv, TypeInv', NEW s \in Stores, NEW p, pc' = [pc EXCEPT ![s] = p],
         UNCHANGED <<remote, files, stamp>>,
         \A t \in Stores : pc[t] = "wiping" => removing'[t] = removing[t],
         \/ p = "closed" /\ pc[s] # "wiping"
         \/ pc[s] = "making" /\ p = "made"
         \/ pc[s] \in {"open", "writing"} /\ p \in {"open", "writing"}
  PROVE  IInv'
<1> USE DEF IInv
<1>1. \A t \in Stores : pc'[t] = IF t = s THEN p ELSE pc[t]
  BY DEF TypeInv, TypeOK
<1>2. \A t \in Stores : /\ Active(t)' => Active(t)
                        /\ Wiping(t)' => Wiping(t)
                        /\ (pc[t] = "wiping" <=> pc'[t] = "wiping")
  BY <1>1 DEF Active, Wiping, Exists, MetaMatches
<1>3. Agreement'
  BY <1>2 DEF Agreement
<1>4. WiperAlone'
  BY <1>2 DEF WiperAlone
<1>5. MetaKnown'
  BY <1>1 DEF MetaKnown, Exists, MetaMatches
<1>6. MetaTells' /\ NothingFromTheFuture'
  BY DEF MetaTells, NothingFromTheFuture, Exists
<1>7. ListIsComplete'
  BY <1>2 DEF ListIsComplete, Exists
<1> QED
  BY <1>3, <1>4, <1>5, <1>6, <1>7

LEMMA CheckMetaIInv ==
  ASSUME IInv, TypeInv', WipesUndisturbed, NEW s \in Stores, CheckMeta(s)
  PROVE  IInv'
<1> USE DEF IInv
<1>1. PICK size \in BlockSizes :
        /\ \A t \in Stores : pc[t] # "closed" => MayOpenBesides(s, size, t)
        /\ stamp' = [stamp EXCEPT ![s] = [version |-> remote, size |-> size]]
  BY DEF CheckMeta
<1>2. /\ pc[s] = "closed"
      /\ pc' = [pc EXCEPT ![s] = IF Exists(Meta) THEN "reading" ELSE "making"]
      /\ UNCHANGED <<remote, dir, files, removing, fetched>>
  BY DEF CheckMeta
<1>3. \A t \in Stores \ {s} : pc'[t] = pc[t] /\ stamp'[t] = stamp[t]
  BY <1>1, <1>2 DEF TypeInv, TypeOK
<1>4. /\ pc'[s] = IF Exists(Meta) THEN "reading" ELSE "making"
      /\ stamp'[s].version = remote /\ stamp'[s].size = size
  BY <1>1, <1>2 DEF TypeInv, TypeOK
<1>5. \A t \in Stores \ {s} :
        Active(t) => stamp[t].size = size /\ (s \in Immutable <=> t \in Immutable) /\ ~Wiping(t)
  BY <1>1 DEF Active, MayOpenBesides
<1>6. Agreement'
  BY <1>2, <1>3, <1>4, <1>5 DEF Agreement, Active
<1>7. MetaKnown'
  BY <1>2, <1>3, <1>4 DEF MetaKnown, Exists, MetaMatches
<1>8. \A t \in Stores \ {s} : ~Wiping(t)'
  BY <1>2, <1>3, <1>5 DEF Wiping, Active, Exists, MetaMatches
<1>9. ASSUME Wiping(s)', NEW t \in Stores \ {s}, Active(t)
      PROVE  FALSE
  <2>1. Exists(Meta) /\ ~MetaMatches(s, files[Meta])'
    BY <1>2, <1>4, <1>9 DEF Wiping, Exists
  <2>2. stamp[t].version = stamp'[s].version /\ stamp[t].size = stamp'[s].size
    BY <1>4, <1>5, <1>9 DEF Agreement
  <2>3. ~MetaMatches(t, files[Meta])
    BY <1>2, <1>5, <1>9, <2>1, <2>2 DEF MetaMatches
  <2>4. pc[t] \notin {"open", "writing"} /\ pc[t] \notin {"making", "made"}
    BY <2>1, <2>3, <1>9 DEF MetaKnown, MetaMatches
  <2>5. pc[t] \in {"reading", "stale", "wiping"}
    BY <2>4, <1>9 DEF Active, TypeInv, TypeOK
  <2> QED
    BY <1>5, <1>9, <2>1, <2>3, <2>5 DEF Wiping
<1>10. WiperAlone'
  BY <1>3, <1>8, <1>9 DEF WiperAlone, Active
<1>11. MetaTells' /\ NothingFromTheFuture'
  BY <1>2 DEF MetaTells, NothingFromTheFuture, Exists
<1>12. ListIsComplete'
  BY <1>2, <1>3, <1>4 DEF ListIsComplete, Exists
<1> QED
  BY <1>6, <1>7, <1>10, <1>11, <1>12

LEMMA ReadMetaIInv ==
  ASSUME IInv, TypeInv', NEW s \in Stores, ReadMeta(s)
  PROVE  IInv'
<1> USE DEF IInv
<1>1. /\ pc[s] = "reading" /\ Exists(Meta)
      /\ pc' = [pc EXCEPT ![s] = IF MetaMatches(s, files[Meta]) THEN "open" ELSE "stale"]
      /\ UNCHANGED <<remote, dir, files, stamp, removing, fetched>>
  BY DEF ReadMeta, MetaKnown
<1>2. /\ \A t \in Stores \ {s} : pc'[t] = pc[t]
      /\ pc'[s] = IF MetaMatches(s, files[Meta]) THEN "open" ELSE "stale"
  BY <1>1 DEF TypeInv, TypeOK
<1>3. \A t \in Stores : /\ Active(t)' => Active(t)
                        /\ Wiping(t)' => Wiping(t)
                        /\ (pc[t] = "wiping" <=> pc'[t] = "wiping")
  BY <1>1, <1>2 DEF Active, Wiping, Exists, MetaMatches
<1>4. Agreement' /\ WiperAlone'
  BY <1>1, <1>3 DEF Agreement, WiperAlone
<1>5. MetaKnown'
  BY <1>1, <1>2 DEF MetaKnown, Exists, MetaMatches
<1>6. MetaTells' /\ NothingFromTheFuture' /\ ListIsComplete'
  BY <1>1, <1>3 DEF MetaTells, NothingFromTheFuture, ListIsComplete, Exists
<1> QED
  BY <1>4, <1>5, <1>6

\* The wipe: whoever is at it finds the directory as it listed it.
LEMMA WipeIInv ==
  ASSUME IInv, TypeInv', NEW s \in Stores, ListDir(s) \/ RemoveFile(s) \/ RemoveDir(s)
  PROVE  IInv'
<1> USE DEF IInv
<1>1. Wiping(s) /\ Active(s)
  BY DEF ListDir, RemoveFile, RemoveDir, Wiping, Active
<1>2. \A t \in Stores \ {s} : pc[t] = "closed" /\ pc'[t] = "closed"
  <2>1. \A t \in Stores \ {s} : pc'[t] = pc[t]
    BY DEF ListDir, RemoveFile, RemoveDir, TypeInv, TypeOK
  <2> QED
    BY <1>1, <2>1 DEF WiperAlone, Active
<1>3. UNCHANGED <<remote, stamp>>
  BY DEF ListDir, RemoveFile, RemoveDir
<1>4. Agreement'
  BY <1>1, <1>2, <1>3 DEF Agreement, Active
<1>5. WiperAlone'
  BY <1>2 DEF WiperAlone, Active, Wiping
<1>6. DOMAIN files' \subseteq DOMAIN files /\ \A g \in DOMAIN files' : files'[g] = files[g]
  <2>1. CASE RemoveFile(s)
    BY <2>1 DEF RemoveFile, Without
  <2>2. CASE ListDir(s) \/ RemoveDir(s)
    BY <2>2 DEF ListDir, RemoveDir
  <2> QED
    BY <2>1, <2>2
<1>7. MetaTells' /\ NothingFromTheFuture'
  BY <1>3, <1>6 DEF MetaTells, NothingFromTheFuture, Exists
<1>8. MetaKnown' /\ ListIsComplete'
  <2>1. CASE ListDir(s)
    <3>1. pc'[s] = "wiping" /\ removing'[s] = DOMAIN files'
      BY <2>1 DEF ListDir, TypeInv, TypeOK
    <3> QED
      BY <1>2, <3>1 DEF MetaKnown, ListIsComplete
  <2>2. CASE RemoveFile(s)
    <3>1. PICK f \in removing[s] : /\ files' = Without({f})
                                   /\ removing' = [removing EXCEPT ![s] = @ \ {f}]
      BY <2>2 DEF RemoveFile
    <3>2. pc'[s] = "wiping" /\ removing[s] = DOMAIN files
      BY <2>2 DEF RemoveFile, ListIsComplete
    <3>3. removing'[s] = DOMAIN files'
      BY <3>1, <3>2 DEF Without, TypeInv, TypeOK
    <3> QED
      BY <1>2, <3>2, <3>3 DEF MetaKnown, ListIsComplete
  <2>3. CASE RemoveDir(s)
    <3>1. pc'[s] = "making" /\ DOMAIN files = {} /\ files' = files
      BY <2>3 DEF RemoveDir, ListIsComplete, TypeInv, TypeOK
    <3> QED
      BY <1>2, <3>1 DEF MetaKnown, ListIsComplete, Exists
  <2> QED
    BY <2>1, <2>2, <2>3
<1> QED
  BY <1>4, <1>5, <1>7, <1>8

\* A meta.json written over another is the same one.
LEMMA WriteMetaIInv ==
  ASSUME IInv, TypeInv', NEW s \in Stores, WriteMeta(s)
  PROVE  IInv'
<1> USE DEF IInv
<1>1. /\ pc[s] = "made" /\ files' = With(Meta, stamp[s])
      /\ pc' = [pc EXCEPT ![s] = "open"]
      /\ UNCHANGED <<remote, dir, stamp, removing, fetched>>
  BY DEF WriteMeta
<1>2. /\ \A t \in Stores \ {s} : pc'[t] = pc[t]
      /\ pc'[s] = "open"
  BY <1>1 DEF TypeInv, TypeOK
<1>3. /\ DOMAIN files' = DOMAIN files \cup {Meta} /\ files'[Meta] = stamp[s]
      /\ \A g \in DOMAIN files \ {Meta} : files'[g] = files[g]
  BY <1>1 DEF With
<1>4. \A t \in Stores : Active(t) => stamp[t] = stamp[s] /\ (s \in Immutable <=> t \in Immutable)
  <2>1. \A t \in Stores : stamp[t] = [version |-> stamp[t].version, size |-> stamp[t].size]
    BY DEF TypeInv, TypeOK, Stamps
  <2> QED
    BY <1>1, <2>1 DEF Agreement, Active
<1>5. \A t \in Stores : pc[t] \notin {"stale", "wiping"}
  BY <1>1 DEF WiperAlone, Wiping, Active
<1>6. \A t \in Stores : Active(t)' => Active(t)
  BY <1>1, <1>2 DEF Active
<1>7. Agreement'
  BY <1>1, <1>6 DEF Agreement
<1>8. \A t \in Stores : ~Wiping(t)'
  BY <1>1, <1>2, <1>3, <1>4, <1>5 DEF Wiping, Active, MetaMatches
<1>9. WiperAlone'
  BY <1>8 DEF WiperAlone
<1>10. MetaKnown'
  <2>1. \A t \in Stores : Active(t)' => MetaMatches(t, files[Meta])' /\ files'[Meta] = stamp'[t]
    BY <1>1, <1>3, <1>4, <1>6 DEF MetaMatches
  <2> QED
    BY <1>3, <2>1 DEF MetaKnown, Active, Exists
<1>11. MetaTells'
  <2>1. CASE Exists(Meta)
    <3>1. files[Meta] = stamp[s]
      BY <1>1, <2>1 DEF MetaKnown
    <3> QED
      BY <1>3, <2>1, <3>1, MetaIsNoBlock DEF MetaTells
  <2>2. CASE ~Exists(Meta)
    <3>1. DOMAIN files = {}
      BY <1>5, <2>2 DEF ListIsComplete
    <3> QED
      BY <1>3, <3>1, MetaIsNoBlock DEF MetaTells
  <2> QED
    BY <2>1, <2>2
<1>12. NothingFromTheFuture'
  <2>1. stamp[s].version = remote /\ remote \in Int
    BY <1>1 DEF Agreement, Active, TypeInv, TypeOK
  <2> QED
    BY <1>1, <1>3, <2>1 DEF NothingFromTheFuture
<1>13. ListIsComplete'
  BY <1>2, <1>3, <1>5 DEF ListIsComplete, Exists
<1> QED
  BY <1>7, <1>9, <1>10, <1>11, <1>12, <1>13

LEMMA WriteBlockIInv ==
  ASSUME IInv, TypeInv', NEW s \in Stores, WriteBlock(s)
  PROVE  IInv'
<1> USE DEF IInv
<1> DEFINE b == fetched[s]
<1>1. PICK victims \in SUBSET (Blocks \ {b}) :
        files' = [g \in (DOMAIN files \cup {b}) \ victims |->
                    IF g = b THEN [version |-> remote, size |-> stamp[s].size] ELSE files[g]]
  BY DEF WriteBlock
<1>2. /\ pc[s] = "writing" /\ pc' = [pc EXCEPT ![s] = "open"]
      /\ UNCHANGED <<remote, dir, stamp, removing>>
  BY DEF WriteBlock
<1>3. b \in Blocks
  BY <1>2 DEF TypeInv
<1> HIDE DEF b
<1>4. /\ \A t \in Stores \ {s} : pc'[t] = pc[t]
      /\ pc'[s] = "open"
  BY <1>2 DEF TypeInv, TypeOK
<1>5. /\ Exists(Meta) /\ Exists(Meta)' /\ files'[Meta] = files[Meta]
      /\ MetaMatches(s, files[Meta])
  BY <1>1, <1>2, <1>3, MetaIsNoBlock DEF MetaKnown, Exists
<1>6. \A t \in Stores : pc[t] \notin {"stale", "wiping"}
  BY <1>2 DEF WiperAlone, Wiping, Active
<1>7. \A t \in Stores : /\ Active(t)' => Active(t)
                        /\ Wiping(t)' => Wiping(t)
  BY <1>2, <1>4, <1>5, <1>6 DEF Active, Wiping, MetaMatches
<1>8. Agreement' /\ WiperAlone'
  BY <1>2, <1>7 DEF Agreement, WiperAlone
<1>9. MetaKnown'
  BY <1>2, <1>4, <1>5 DEF MetaKnown, MetaMatches
<1>10. \A g \in DOMAIN files' :
         \/ g = b /\ files'[g].version = remote /\ files'[g].size = stamp[s].size
         \/ g \in DOMAIN files /\ files'[g] = files[g]
  BY <1>1
<1>11. MetaTells'
  <2>1. files[Meta].size = stamp[s].size /\ files[Meta].version <= remote
    BY <1>5 DEF MetaMatches, NothingFromTheFuture, Exists
  <2>2. files[Meta].version \in Int /\ remote \in Int
    BY <1>5, StampShape DEF TypeInv, TypeOK, Exists
  <2> QED
    BY <1>5, <1>10, <2>1, <2>2 DEF MetaTells
<1>12. NothingFromTheFuture'
  <2>1. remote \in Int
    BY DEF TypeInv, TypeOK
  <2> QED
    BY <1>2, <1>10, <2>1 DEF NothingFromTheFuture
<1>13. ListIsComplete'
  BY <1>4, <1>5, <1>6 DEF ListIsComplete
<1> QED
  BY <1>8, <1>9, <1>11, <1>12, <1>13

LEMMA RemoteChangesIInv ==
  ASSUME IInv, TypeInv', RemoteChanges
  PROVE  IInv'
<1> USE DEF IInv
<1>1. /\ \A s \in Stores : pc[s] = "closed"
      /\ remote' = remote + 1
      /\ UNCHANGED <<dir, files, pc, stamp, removing, fetched>>
  BY DEF RemoteChanges
<1>2. Agreement' /\ WiperAlone' /\ MetaKnown' /\ ListIsComplete'
  BY <1>1 DEF Agreement, WiperAlone, Wiping, Active, MetaKnown, ListIsComplete, Exists
<1>3. MetaTells'
  BY <1>1 DEF MetaTells, Exists
<1>4. NothingFromTheFuture'
  <2>1. \A f \in DOMAIN files : files[f].version \in Int
    BY StampShape DEF TypeInv, TypeOK
  <2>2. remote \in Int
    BY DEF TypeInv, TypeOK
  <2> QED
    BY <1>1, <2>1, <2>2 DEF NothingFromTheFuture
<1> QED
  BY <1>2, <1>3, <1>4

LEMMA NextIInv ==
  ASSUME WipesUndisturbed, IInv, [Next]_vars
  PROVE  IInv'
<1>1. TypeInv'
  BY NextTypes DEF IInv
<1>2. ASSUME NEW s \in Stores, CheckMeta(s) \/ ReadMeta(s) \/ WriteMeta(s) \/ WriteBlock(s)
      PROVE  IInv'
  BY <1>1, <1>2, CheckMetaIInv, ReadMetaIInv, WriteMetaIInv, WriteBlockIInv
<1>3. ASSUME NEW s \in Stores, ListDir(s) \/ RemoveFile(s) \/ RemoveDir(s)
      PROVE  IInv'
  BY <1>1, <1>3, WipeIInv
<1>4. ASSUME NEW s \in Stores,
             \/ MakeDir(s) \/ WriteMetaFails(s) \/ Fetch(s) \/ WriteBlockFails(s)
             \/ Close(s) \/ Crash(s)
      PROVE  IInv'
  <2>1. /\ UNCHANGED <<remote, files, stamp>>
        /\ \/ /\ pc' = [pc EXCEPT ![s] = "closed"]
              /\ pc[s] # "wiping"
           \/ /\ pc' = [pc EXCEPT ![s] = "made"]
              /\ pc[s] = "making"
           \/ /\ pc' = [pc EXCEPT ![s] = "open"] \/ pc' = [pc EXCEPT ![s] = "writing"]
              /\ pc[s] \in {"open", "writing"}
    BY <1>4 DEF MakeDir, WriteMetaFails, Fetch, WriteBlockFails, Close, Crash
  <2>2. \A t \in Stores : pc[t] = "wiping" => removing'[t] = removing[t]
    BY <1>4 DEF MakeDir, WriteMetaFails, Fetch, WriteBlockFails, Close, Crash, IInv, TypeInv, TypeOK
  <2> QED
    BY <1>1, <2>1, <2>2, MoveIInv
<1>5. CASE RemoteChanges
  BY <1>1, <1>5, RemoteChangesIInv
<1>6. CASE UNCHANGED vars
  BY <1>1, <1>6 DEF vars, IInv, Agreement, WiperAlone, Wiping, Active, MetaKnown, MetaTells,
                    NothingFromTheFuture, ListIsComplete, Exists, MetaMatches
<1> QED
  BY <1>2, <1>3, <1>4, <1>5, <1>6 DEF Next, StoreStep

THEOREM Invariance ==
  ASSUME WipesUndisturbed
  PROVE  Spec => []IInv
<1>1. IInv /\ [Next]_vars => IInv'
  BY NextIInv
<1> QED
  BY <1>1, InitIInv, PTL DEF Spec

-----------------------------------------------------------------------------
(* What follows from it.                                                   *)

\* _open_meta lets a store in only where the blocks are of its block size and its
\* version, for all that has been opened, crashed and wiped there before.
THEOREM OpenDir ==
  ASSUME WipesUndisturbed
  PROVE  Spec => []OpenDirIsRight
<1>1. ASSUME IInv, NEW s \in Stores, Opened(s)
      PROVE  Wrong(s) = {}
  <2> USE DEF IInv
  <2>1. Exists(Meta) /\ MetaMatches(s, files[Meta])
    BY <1>1 DEF Opened, MetaKnown
  <2>2. ASSUME NEW b \in Blocks \cap DOMAIN files
        PROVE  /\ files[b].size = stamp[s].size
               /\ s \notin Immutable => files[b].version = stamp[s].version
    <3>1. /\ files[b].size = files[Meta].size
          /\ files[Meta].version <= files[b].version /\ files[b].version <= remote
          /\ stamp[s].version = remote
      BY <1>1, <2>1 DEF MetaTells, NothingFromTheFuture, Agreement, Active, Opened
    <3>2. files[b].version \in Int /\ files[Meta].version \in Int /\ remote \in Int
      BY <1>1, <2>1, StampShape DEF TypeInv, TypeOK, Exists
    <3> QED
      BY <2>1, <3>1, <3>2 DEF MetaMatches
  <2> QED
    BY <2>2 DEF Wrong
<1>2. IInv => OpenDirIsRight
  BY <1>1 DEF OpenDirIsRight
<1> QED
  BY <1>2, Invariance, PTL

\* shutil.rmtree in _open_meta runs while no other store is open there.
THEOREM NoWipe ==
  ASSUME WipesUndisturbed
  PROVE  Spec => []NoWipeUnderReaders
<1>1. IInv => NoWipeUnderReaders
  BY DEF IInv, WiperAlone, NoWipeUnderReaders, Wiping, Active, Opened
<1> QED
  BY <1>1, Invariance, PTL

=============================================================================
