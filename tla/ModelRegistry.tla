---------------------------- MODULE ModelRegistry ----------------------------
(***************************************************************************)
(* The registry of external model files: `register`, `verify` and            *)
(* `verify_full` of src/model_registry.rs, called concurrently while the     *)
(* files they describe are replaced and removed by others.                   *)
(*                                                                           *)
(* A row of `model_assets` caches a file's SHA-256 together with its size    *)
(* and modification time; a multi-gigabyte file is not read again while the  *)
(* latter are unchanged.  A file's size and modification time are one        *)
(* `stamp`, and a content stands for its SHA-256.  Every write of a file is  *)
(* taken to give it a stamp that no file had before: the cheap check can be  *)
(* right only then (an mtime set back by hand defeats it).                   *)
(***************************************************************************)
EXTENDS Naturals

CONSTANTS
  Tasks,     \* calls of register, verify or verify_full, each made once
  Paths,     \* model files
  Contents,  \* what a file may hold
  MaxStamp,  \* bound: how many times files are written
  None       \* no file, no row, no value yet

ASSUME MaxStampAssumption == MaxStamp \in Nat

File == [stamp : 1..MaxStamp, content : Contents]
Row  == [path : Paths, sha256 : Contents, stamp : 1..MaxStamp, available : BOOLEAN]

ASSUME NoneAssumption == None \notin File \cup Row \cup Paths \cup Contents \cup Nat

VARIABLES
  disk,    \* the file at each path
  clock,   \* the last stamp a write was given
  assets,  \* the row each id names: a row's id is the task that inserted it
  pc,      \* where each task stands
  path,    \* the path it works on
  target,  \* the id it works on: its own, or that of the asset to verify
  asset,   \* the row a verification was called with
  stamp,   \* the stamp it has read from the file's metadata
  opened,  \* the stamp of the file it has opened for hashing
  hash     \* the digest it has computed

work == <<path, target, asset, stamp, opened, hash>>
vars == <<disk, clock, assets, pc, work>>

Verifying == {"cheap", "full"}
Running  == {"stat", "cheap", "full", "open", "hashing", "lookup", "insert", "update", "mark"}

TypeOK ==
  /\ disk \in [Paths -> File \cup {None}]
  /\ clock \in 0..MaxStamp
  /\ assets \in [Tasks -> Row \cup {None}]
  /\ pc \in [Tasks -> {"idle", "done"} \cup Running]
  /\ path \in [Tasks -> Paths \cup {None}]
  /\ target \in [Tasks -> Tasks \cup {None}]
  /\ asset \in [Tasks -> Row \cup {None}]
  /\ stamp \in [Tasks -> 1..MaxStamp \cup {None}]
  /\ opened \in [Tasks -> 1..MaxStamp \cup {None}]
  /\ hash \in [Tasks -> Contents \cup {None}]

Nothing == [t \in Tasks |-> None]

Init ==
  /\ disk = [p \in Paths |-> None]
  /\ clock = 0
  /\ assets = Nothing
  /\ pc = [t \in Tasks |-> "idle"]
  /\ path = Nothing /\ target = Nothing /\ asset = Nothing
  /\ stamp = Nothing /\ opened = Nothing /\ hash = Nothing

Goto(t, to) == pc' = [pc EXCEPT ![t] = to]

-----------------------------------------------------------------------------
(* The world outside: model files come, change and go *)

WriteFile(p) ==
  /\ clock < MaxStamp
  /\ clock' = clock + 1
  /\ \E c \in Contents :
       disk' = [disk EXCEPT ![p] = [stamp |-> clock', content |-> c]]
  /\ UNCHANGED <<assets, pc, work>>

RemoveFile(p) ==
  /\ disk[p] # None
  /\ disk' = [disk EXCEPT ![p] = None]
  /\ UNCHANGED <<clock, assets, pc, work>>

-----------------------------------------------------------------------------
(* Calls *)

\* register(path): POST /models/register, or the importer
CallRegister(t, p) ==
  /\ pc[t] = "idle"
  /\ Goto(t, "stat")
  /\ path' = [path EXCEPT ![t] = p]
  /\ target' = [target EXCEPT ![t] = t]
  /\ UNCHANGED <<disk, clock, assets, asset, stamp, opened, hash>>

\* verify(asset) and verify_full(asset), with the row as it reads now:
\* POST /models/{id}/verify loads it just before.
CallVerify(t, id, how) ==
  /\ pc[t] = "idle"
  /\ assets[id] # None
  /\ Goto(t, how)
  /\ path' = [path EXCEPT ![t] = assets[id].path]
  /\ target' = [target EXCEPT ![t] = id]
  /\ asset' = [asset EXCEPT ![t] = assets[id]]
  /\ UNCHANGED <<disk, clock, assets, stamp, opened, hash>>

ReadStamp(t) == stamp' = [stamp EXCEPT ![t] = disk[path[t]].stamp]

\* The size and modification time read at the very end, past the hash.
MutantStat(t) ==
  /\ pc[t] \in {"stat", "lookup"}
  /\ disk[path[t]] # None
  /\ ReadStamp(t)
  /\ Goto(t, IF pc[t] = "stat" THEN "open" ELSE "insert")
  /\ UNCHANGED <<disk, clock, assets, path, target, asset, opened, hash>>

\* register takes the metadata before it hashes.
Stat(t) ==
  /\ pc[t] = "stat"
  /\ \/ /\ disk[path[t]] # None
        /\ ReadStamp(t)
        /\ Goto(t, "open")
     \/ /\ disk[path[t]] = None
        /\ UNCHANGED stamp
        /\ Goto(t, "done")
  /\ UNCHANGED <<disk, clock, assets, path, target, asset, opened, hash>>

\* The cached hash stands for the file: the row was available and neither its
\* size nor its modification time differs.
MutantUnchanged(t) == asset[t].available

Unchanged(t) == asset[t].available /\ asset[t].stamp = disk[path[t]].stamp

\* verify trusts the cache, verify_full never does.
StatAgain(t) ==
  /\ pc[t] \in Verifying
  /\ \/ /\ disk[path[t]] = None
        /\ UNCHANGED stamp
        /\ Goto(t, "mark")
     \/ /\ disk[path[t]] # None
        /\ ReadStamp(t)
        /\ Goto(t, IF pc[t] = "cheap" /\ Unchanged(t) THEN "done" ELSE "open")
  /\ UNCHANGED <<disk, clock, assets, path, target, asset, opened, hash>>

\* hash_file opens the file, which may be another one than the stat has seen.
Open(t) ==
  /\ pc[t] = "open"
  /\ \/ /\ disk[path[t]] # None
        /\ opened' = [opened EXCEPT ![t] = disk[path[t]].stamp]
        /\ Goto(t, "hashing")
     \/ /\ disk[path[t]] = None
        /\ UNCHANGED opened
        /\ Goto(t, "done")
  /\ UNCHANGED <<disk, clock, assets, path, target, asset, stamp, hash>>

\* hash_file reads to the end.  What a file that is rewritten under the reader
\* hashes to is anyone's guess.
Hash(t) ==
  /\ pc[t] = "hashing"
  /\ \E h \in Contents :
       /\ disk[path[t]] # None /\ disk[path[t]].stamp = opened[t]
            => h = disk[path[t]].content
       /\ hash' = [hash EXCEPT ![t] = h]
  /\ Goto(t, IF asset[t] = None THEN "lookup" ELSE "update")
  /\ UNCHANGED <<disk, clock, assets, path, target, asset, stamp, opened>>

-----------------------------------------------------------------------------
(* The table *)

\* UNIQUE (sha256): another row has this digest.
Taken(h, id) == \E other \in Tasks \ {id} : assets[other] # None /\ assets[other].sha256 = h

\* find_by_sha256: a registered content is reused, whatever its path.
LookUp(t) ==
  /\ pc[t] = "lookup"
  /\ Goto(t, IF Taken(hash[t], t) THEN "done" ELSE "insert")
  /\ UNCHANGED <<disk, clock, assets, work>>

\* What t has read and computed, as a row.
Cached(t) ==
  [path |-> path[t], sha256 |-> hash[t], stamp |-> stamp[t], available |-> TRUE]

\* Without UNIQUE (sha256) on the table.
MutantInsert(t) ==
  /\ pc[t] = "insert"
  /\ Goto(t, "done")
  /\ assets' = [assets EXCEPT ![t] = Cached(t)]
  /\ UNCHANGED <<disk, clock, work>>

\* INSERT; the loser of a race reuses the row of the winner.
Insert(t) ==
  /\ pc[t] = "insert"
  /\ Goto(t, "done")
  /\ assets' = IF Taken(hash[t], t) THEN assets ELSE [assets EXCEPT ![t] = Cached(t)]
  /\ UNCHANGED <<disk, clock, work>>

\* Refreshing the modification time but keeping the digest.
MutantUpdate(t) ==
  /\ pc[t] = "update"
  /\ assets' = [assets EXCEPT ![target[t]].stamp = stamp[t], ![target[t]].available = TRUE]
  /\ Goto(t, "done")
  /\ UNCHANGED <<disk, clock, work>>

\* rehash_and_reconcile: UPDATE in place of all but the path, which a row keeps
\* for good, unless another row has the digest.
Update(t) ==
  /\ pc[t] = "update"
  /\ IF Taken(hash[t], target[t])
     THEN UNCHANGED assets /\ Goto(t, "mark")
     ELSE /\ assets' = [assets EXCEPT ![target[t]] = Cached(t)]
          /\ Goto(t, "done")
  /\ UNCHANGED <<disk, clock, work>>

\* A row marked out keeps what it caches.
Unavailable(row) ==
  [path |-> row.path, sha256 |-> row.sha256, stamp |-> row.stamp, available |-> FALSE]

\* Taking the row out of the table instead.
MutantMarkUnavailable(t) ==
  /\ pc[t] = "mark"
  /\ assets' = [assets EXCEPT ![target[t]] = None]
  /\ Goto(t, "done")
  /\ UNCHANGED <<disk, clock, work>>

\* mark_unavailable
MarkUnavailable(t) ==
  /\ pc[t] = "mark"
  /\ assets' = [assets EXCEPT ![target[t]] = Unavailable(@)]
  /\ Goto(t, "done")
  /\ UNCHANGED <<disk, clock, work>>

\* An I/O or database error, a client that disconnects or a crash.
Abort(t) ==
  /\ pc[t] \in Running
  /\ Goto(t, "done")
  /\ UNCHANGED <<disk, clock, assets, work>>

Call(t) ==
  \/ \E p \in Paths : CallRegister(t, p)
  \/ \E id \in Tasks, how \in Verifying : CallVerify(t, id, how)

Serve(t) == \/ Stat(t) \/ StatAgain(t) \/ Open(t) \/ Hash(t)
            \/ LookUp(t) \/ Insert(t) \/ Update(t) \/ MarkUnavailable(t)

Next ==
  \/ \E p \in Paths : WriteFile(p) \/ RemoveFile(p)
  \/ \E t \in Tasks : Call(t) \/ Serve(t) \/ Abort(t)

Spec == Init /\ [][Next]_vars

-----------------------------------------------------------------------------
(* Properties *)

\* The file at p, if it still has this stamp, has this content.
Describes(p, s, c) ==
  disk[p] # None /\ disk[p].stamp = s => disk[p].content = c

\* The cached digest of a row describes its file whenever the cached size and
\* modification time do: however registrations, verifications and writes of the
\* file interleave, the cache is never wrong about a file it calls unchanged.
CacheSound ==
  \A id \in Tasks :
    assets[id] # None =>
      Describes(assets[id].path, assets[id].stamp, assets[id].sha256)

\* A verification that answers from the cache, on a row that may have been
\* overwritten since it was loaded, answers with the digest of the file as it
\* is at that moment.
TrustIsEarned ==
  [][\A t \in Tasks :
       pc[t] = "cheap" /\ pc'[t] = "done" /\ stamp'[t] # None
         => disk[path[t]].content = asset[t].sha256]_vars

(* The strengthening that makes CacheSound inductive; checked by TLC, used by
   ModelRegistryProofs. *)

\* No stamp anywhere is newer than the last write.
StampsInv ==
  /\ \A p \in Paths : disk[p] # None => disk[p].stamp <= clock
  /\ \A t \in Tasks :
       /\ assets[t] # None => assets[t].stamp <= clock
       /\ asset[t] # None => asset[t].stamp <= clock
       /\ stamp[t] # None => stamp[t] <= clock

\* A call's path is that of the row it works on; from the stat on it has a
\* stamp, from the hash on a digest.
CallInv ==
  \A t \in Tasks :
    /\ pc[t] \in Running => path[t] \in Paths /\ target[t] \in Tasks
    /\ pc[t] \in Verifying \cup {"update", "mark"} => asset[t] # None
    /\ pc[t] \in Running /\ asset[t] # None =>
         assets[target[t]] # None /\ assets[target[t]].path = path[t]
    /\ pc[t] \in {"open", "hashing", "lookup", "insert", "update"} => stamp[t] # None
    /\ pc[t] = "hashing" => opened[t] # None
    /\ pc[t] \in {"lookup", "insert", "update"} => hash[t] # None
    /\ pc[t] \in {"idle", "stat"} \cup Verifying => stamp[t] = None
    /\ pc[t] = "idle" => asset[t] = None
    /\ pc[t] \in Running /\ asset[t] = None => target[t] = t
    /\ pc[t] # "done" /\ asset[t] = None => assets[t] = None
    /\ pc[t] \in {"lookup", "insert"} => asset[t] = None

\* What a call has loaded, opened or computed is right about a file whose stamp
\* is still the one it has read.
WorkInv ==
  \A t \in Tasks :
    /\ pc[t] \in Running /\ asset[t] # None =>
         Describes(path[t], asset[t].stamp, asset[t].sha256)
    /\ pc[t] = "hashing" /\ disk[path[t]] # None /\ disk[path[t]].stamp = stamp[t]
         => opened[t] = stamp[t]
    /\ pc[t] \in {"lookup", "insert", "update"} => Describes(path[t], stamp[t], hash[t])

IInv == TypeOK /\ StampsInv /\ CallInv /\ WorkInv /\ CacheSound

\* One row per content, through registrations and in-place updates alike.
OneRowPerContent ==
  \A a, b \in Tasks :
    assets[a] # None /\ assets[b] # None /\ assets[a].sha256 = assets[b].sha256 => a = b
=============================================================================
