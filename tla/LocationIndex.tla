--------------------------- MODULE LocationIndex ---------------------------
(***************************************************************************)
(* FileLocationMap and FileLocationIndex of utils.rs.  A map lists files   *)
(* in a vector that is kept sorted and searched by bisection; an index     *)
(* holds one map per key, a called script or a command.                    *)
(*                                                                         *)
(* The spans that go with a file, and the slots they are kept in, are left *)
(* out: a map is the sequence of its files.  Files are numbered in the     *)
(* order of their names.                                                   *)
(*                                                                         *)
(* A bisection of a vector that is not sorted may answer anything.  A      *)
(* rename puts a file where the old name stood; once that has broken the   *)
(* order nothing is said of the map any more.                              *)
(***************************************************************************)
EXTENDS Integers, SequencesExt

Map(files) == [sorted |-> TRUE, files |-> files]
Spoiled == [sorted |-> FALSE, files |-> <<>>]

Ascending(files) == \A i, j \in DOMAIN files : i <= j => files[i] <= files[j]

At(s, e) == {i \in DOMAIN s : s[i] = e}

(* FileLocationMap::insert.                                                *)
MapInsert(map, u) ==
  IF ~map.sorted \/ At(map.files, u) # {} THEN map
  ELSE Map(InsertAt(map.files,
                    1 + Cardinality({i \in DOMAIN map.files : map.files[i] < u}),
                    u))

(* FileLocationMap::remove: one entry goes, should there be more.          *)
MapRemove(map, u) ==
  IF ~map.sorted \/ At(map.files, u) = {} THEN map
  ELSE Map(RemoveAt(map.files, CHOOSE i \in At(map.files, u) : TRUE))

(* FileLocationMap::rename.                                                *)
MapRename(map, old, new) ==
  IF ~map.sorted \/ At(map.files, old) = {} THEN map
  ELSE LET files == [map.files EXCEPT ![CHOOSE i \in At(map.files, old) : TRUE]
                       = new]
       IN IF Ascending(files) THEN Map(files) ELSE Spoiled

(* An index is a function from the keys it has to maps.                    *)
EmptyIndex == [k \in {} |-> Spoiled]

Lookup(index, k) == IF k \in DOMAIN index THEN index[k] ELSE Map(<<>>)

(* FileLocationIndex::insert, and remove_key_locs for one key.             *)
IndexInsert(index, k, u) ==
  [j \in DOMAIN index \union {k} |->
     IF j = k THEN MapInsert(Lookup(index, k), u) ELSE index[j]]

IndexRemove(index, k, u) ==
  [j \in DOMAIN index |-> IF j = k THEN MapRemove(index[k], u) ELSE index[j]]

(* FileLocationIndex::rename_key: a map under the new key is replaced.     *)
RenameKey(index, old, new) ==
  IF old \notin DOMAIN index THEN index
  ELSE [j \in (DOMAIN index \ {old}) \union {new} |->
          IF j = new THEN index[old] ELSE index[j]]

(* FileLocationIndex::rename_locs.                                         *)
RenameLocs(index, old, new) ==
  [k \in DOMAIN index |-> MapRename(index[k], old, new)]

(* Deviation: what the old text was listed under stays.                    *)
IndexAddOnly(index, u, old, new) ==
  FoldLeft(LAMBDA x, k : IndexInsert(x, k, u), index, new)

(* FileTargetIndex and CommandIndex: the document u, listed under the keys *)
(* old, is replaced by one that belongs under the keys new.                *)
IndexUpdate(index, u, old, new) ==
  FoldLeft(LAMBDA x, k : IndexInsert(x, k, u),
           FoldLeft(LAMBDA x, k : IndexRemove(x, k, u), index, old), new)

(* The files in the domain of ops are renamed, one after the other.        *)
IndexRename(index, ops) ==
  FoldLeft(LAMBDA x, o : RenameLocs(RenameKey(x, o, ops[o]), o, ops[o]),
           index, SetToSeq(DOMAIN ops))
=============================================================================
