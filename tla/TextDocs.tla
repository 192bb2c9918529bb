------------------------------ MODULE TextDocs ------------------------------
(***************************************************************************)
(* The document store of the language server, doc/store.rs: vectors of     *)
(* slots for the open and the closed documents, a registry from a file to  *)
(* its slot, lists of free slots, for each document the scripts that call  *)
(* it, and the indexes that find macros, script calls and commands.        *)
(*                                                                         *)
(* Every operation runs to its end on the thread of the main loop; what    *)
(* is open is the order in which scans, client messages and renames reach  *)
(* the store.  A document is its text; a text is what the operations read  *)
(* of it: the scripts it calls in order, its macros and its commands.      *)
(*                                                                         *)
(* The definitions marked Deviation are faults a change of the code could  *)
(* bring; no behaviour of the specification uses them.                     *)
(***************************************************************************)
EXTENDS LocationIndex, FiniteSets

CONSTANTS
  Uri,        \* files, numbered in the order of their names
  Macro,      \* names of macros
  Command,    \* names of commands
  Text,       \* texts: records of calls, macros and commands
  TextOf,     \* the texts a file may have
  Workspace,  \* files the discovery finds
  Renames,    \* renames a client may ask for: functions from old to new files
  MaxRenames  \* bound: renames

ASSUME StoreAssumption ==
  /\ Uri \subseteq Nat
  /\ Text \subseteq [calls : Seq(Uri), macros : SUBSET Macro,
                     commands : Seq(Command)]
  /\ TextOf \in [Uri -> SUBSET Text]
  /\ Workspace \subseteq Uri
  /\ \A r \in Renames : \E S \in SUBSET Uri :
       /\ r \in [S -> Uri \ S]
       /\ \A o, p \in S : r[o] = r[p] => o = p
  /\ Command \intersect Uri = {}
  /\ MaxRenames \in Nat

VARIABLES
  registry,    \* TextDocs.registry: the status and the slot of a file
  slots,       \* docs, trees, t32 and callers: by status, the occupied slots
  len,         \* by status, the length of those vectors
  free,        \* free_list: by status, the slots that may be taken again
  macroIndex,  \* macro_index: files in which a macro occurs
  targets,     \* file_target_index: files that call a script
  commands,    \* command_index: files in which a command occurs
  synced,      \* the discovery is done and sync() has run
  renames,     \* bound: renames so far
  clean        \* history: no rename went to a name in use

store == <<registry, slots, len, free>>
indexes == <<macroIndex, targets, commands>>
history == <<renames, clean>>
vars == <<store, indexes, synced, history>>

Status == {"open", "closed"}

(* What a slot holds.  listed tells whether the vector of callers is there *)
(* at all, callers how often it names a file.                              *)
Doc == [uri : Uri, text : Text, calls : Seq(Uri),
        listed : BOOLEAN, callers : [Uri -> Nat]]

LocationMap == [sorted : BOOLEAN, files : Seq(Uri)]

Known == DOMAIN registry
Data(u) == slots[registry[u][1]][registry[u][2]]
NoCallers == [u \in Uri |-> 0]
NewDoc(u, t) == [uri |-> u, text |-> t, calls |-> t.calls,
                 listed |-> FALSE, callers |-> NoCallers]

SlotsOK(sl) ==
  /\ DOMAIN sl = Status
  /\ \A s \in Status : sl[s] \in [DOMAIN sl[s] -> Doc]

StoreOK ==
  /\ registry \in [Known -> Status \X Nat]
  /\ Known \subseteq Uri
  /\ len \in [Status -> Nat]
  /\ free \in [Status -> SUBSET Nat]
  /\ SlotsOK(slots)
  /\ \A s \in Status : DOMAIN slots[s] \subseteq 1..len[s]

TypeOK ==
  /\ StoreOK
  /\ macroIndex \in [Macro -> SUBSET Uri]
  /\ DOMAIN targets \subseteq Uri
  /\ targets \in [DOMAIN targets -> LocationMap]
  /\ DOMAIN commands \subseteq Command
  /\ commands \in [DOMAIN commands -> LocationMap]
  /\ synced \in BOOLEAN
  /\ renames \in 0..MaxRenames
  /\ clean \in BOOLEAN

Init ==
  /\ registry = [u \in {} |-> <<"open", 1>>]
  /\ slots = [s \in Status |-> [i \in {} |-> NoCallers]]
  /\ len = [s \in Status |-> 0]
  /\ free = [s \in Status |-> {}]
  /\ macroIndex = [m \in Macro |-> {}]
  /\ targets = EmptyIndex
  /\ commands = EmptyIndex
  /\ synced = FALSE
  /\ renames = 0
  /\ clean = TRUE

----------------------------------------------------------------------------
(* Slots.  sl stands for a value of slots.                                 *)

(* Deviation: the last slot is taken for the one after it.                 *)
LastSlot(s) == IF free[s] = {} /\ len[s] > 0 THEN {len[s]} ELSE {len[s] + 1}

(* A document may land in any free slot, or in a new one at the end.  The  *)
(* code takes the slot that was freed last; which one makes no difference. *)
FreeSlots(s) == IF free[s] = {} THEN {len[s] + 1} ELSE free[s]

Vacate(sl, s, i) == [sl EXCEPT ![s] = [j \in DOMAIN sl[s] \ {i} |-> sl[s][j]]]

Place(sl, s, i, d) ==
  [sl EXCEPT ![s] = [j \in DOMAIN sl[s] \union {i} |->
                       IF j = i THEN d ELSE sl[s][j]]]

(* Deviation: the slot is taken and stays in the free list.                *)
TakeAndKeep(s, i, freed) ==
  /\ len' = [len EXCEPT ![s] = IF i > len[s] THEN i ELSE len[s]]
  /\ free' = freed

Take(s, i, freed) ==
  /\ len' = [len EXCEPT ![s] = IF i > len[s] THEN i ELSE len[s]]
  /\ free' = [freed EXCEPT ![s] = freed[s] \ {i}]

(* Documents of sl, and the files of those that call t.                    *)
DocsOf(sl) == UNION {{sl[s][i] : i \in DOMAIN sl[s]} : s \in Status}

CallersOf(sl, t) ==
  {d.uri : d \in {e \in DocsOf(sl) : Contains(e.calls, t)}}

(* Callers are appended unless they are in the list already.               *)
Listing(d, new) ==
  [d EXCEPT !.listed = d.listed \/ new # {},
            !.callers = [u \in Uri |->
               IF u \in new /\ d.callers[u] = 0 THEN 1 ELSE d.callers[u]]]

MapDocs(sl, F(_)) ==
  [s \in Status |-> [i \in DOMAIN sl[s] |-> F(sl[s][i])]]

(* Deviation: documents that have a list keep it as it is.                 *)
RegisterMissingCallers(sl) ==
  MapDocs(sl, LAMBDA d : IF d.listed THEN d
                         ELSE Listing(d, CallersOf(sl, d.uri)))

(* register_all_callers.  Slots are registered under the file of their     *)
(* document.                                                               *)
RegisterAllCallers(sl) == MapDocs(sl, LAMBDA d : Listing(d, CallersOf(sl, d.uri)))

(* remove_caller: for every call in the stored text of u, one occurrence   *)
(* of u goes from the list of the script it calls.                         *)
Monus(m, n) == IF n > m THEN 0 ELSE m - n

RemoveCaller(sl, u) ==
  IF u \notin Known THEN sl
  ELSE MapDocs(sl, LAMBDA d :
         [d EXCEPT !.callers[u] =
            Monus(d.callers[u], Cardinality(At(Data(u).calls, d.uri)))])

----------------------------------------------------------------------------
(* Indexes.                                                                *)

OldCalls(u) == IF u \in Known THEN Data(u).calls ELSE <<>>
OldMacros(u) == IF u \in Known THEN Data(u).text.macros ELSE {}
OldCommands(u) == IF u \in Known THEN Data(u).text.commands ELSE <<>>

(* Deviation: all that the old text had is removed, macros that stay too.  *)
ReplaceInMacroIndex(u, t) ==
  [m \in Macro |->
     IF m \in OldMacros(u) THEN macroIndex[m] \ {u}
     ELSE IF m \in t.macros THEN macroIndex[m] \union {u}
     ELSE macroIndex[m]]

(* update_macro_index.                                                     *)
UpdateMacroIndex(u, t) ==
  [m \in Macro |->
     IF m \in OldMacros(u) \ t.macros THEN macroIndex[m] \ {u}
     ELSE IF m \in t.macros \ OldMacros(u) THEN macroIndex[m] \union {u}
     ELSE macroIndex[m]]

UpdateIndexes(u, t) ==
  /\ macroIndex' = UpdateMacroIndex(u, t)
  /\ targets' = IndexUpdate(targets, u, OldCalls(u), t.calls)
  /\ commands' = IndexUpdate(commands, u, OldCommands(u), t.commands)

----------------------------------------------------------------------------
(* Operations.                                                             *)

(* TextDocs::add.  The callers of the document are computed anew; the      *)
(* scripts it calls lose it as caller and do not get it back.              *)
Add(u, t, s) ==
  /\ UpdateIndexes(u, t)
  /\ LET stays == u \in Known /\ registry[u][1] = s
         left  == IF u \in Known THEN Vacate(RemoveCaller(slots, u),
                                             registry[u][1], registry[u][2])
                  ELSE slots
         freed == IF u \in Known /\ ~stays
                  THEN [free EXCEPT ![registry[u][1]] = @ \union {registry[u][2]}]
                  ELSE free
     IN \E i \in IF stays THEN {registry[u][2]} ELSE FreeSlots(s) :
          LET added == Place(left, s, i, NewDoc(u, t)) IN
          /\ registry' = [v \in Known \union {u} |->
                            IF v = u THEN <<s, i>> ELSE registry[v]]
          /\ Take(s, i, freed)
          /\ slots' = Place(added, s, i, Listing(added[s][i], CallersOf(added, u)))

(* TaskDone::TextDocNew: a document the client has opened.                 *)
Open(u, t) == Add(u, t, "open") /\ UNCHANGED <<synced, history>>

(* TaskDone::WorkspaceFileParseSync: a file of the workspace, read from    *)
(* disk.  What the client has opened is not overwritten.                   *)
Scan(u, t) ==
  /\ ~synced
  /\ u \in Workspace \ Known
  /\ Add(u, t, "closed")
  /\ UNCHANGED <<synced, history>>

(* TaskDone::WorkspaceFileDiscovery: all files have been read.             *)
Sync ==
  /\ ~synced
  /\ synced' = TRUE
  /\ slots' = RegisterAllCallers(slots)
  /\ UNCHANGED <<registry, len, free, indexes, history>>

(* TaskDone::TextDocEdit, TextDocs::update.  Callers are left alone.  An   *)
(* update of a file that is not known ends the server, see TaskScheduler.  *)
Edit(u, t) ==
  /\ u \in Known
  /\ UpdateIndexes(u, t)
  /\ slots' = [slots EXCEPT ![registry[u][1]][registry[u][2]] =
                 [@ EXCEPT !.text = t, !.calls = t.calls]]
  /\ UNCHANGED <<registry, len, free, synced, history>>

(* process_doc_close_notif, TextDocs::close.                               *)
Close(u) ==
  /\ u \in Known
  /\ registry[u][1] = "open"
  /\ \E i \in FreeSlots("closed") :
       LET k == registry[u][2] IN
       /\ registry' = [registry EXCEPT ![u] = <<"closed", i>>]
       /\ slots' = Place(Vacate(slots, "open", k), "closed", i, Data(u))
       /\ Take("closed", i, [free EXCEPT !["open"] = @ \union {k}])
  /\ UNCHANGED <<indexes, synced, history>>

(* rename_docs, rename_lang_expr and rename_callers, for one document.     *)
New(ops, u) == IF u \in DOMAIN ops THEN ops[u] ELSE u

(* Deviation: lists of callers keep the old names.                         *)
RenamedButCallers(ops, d) ==
  [d EXCEPT !.uri = New(ops, @),
            !.calls = [k \in DOMAIN @ |-> New(ops, @[k])]]

RenamedDoc(ops, d) ==
  [d EXCEPT !.uri = New(ops, @),
            !.calls = [k \in DOMAIN @ |-> New(ops, @[k])],
            !.callers = [u \in Uri |->
               IF u \in DOMAIN ops THEN 0
               ELSE d.callers[u] +
                    IF \E o \in DOMAIN ops : ops[o] = u
                    THEN d.callers[CHOOSE o \in DOMAIN ops : ops[o] = u]
                    ELSE 0]]

(* rename_macro_index_refs: only under the macros of the moved documents.  *)
RenameMacroIndex(ops) ==
  [m \in Macro |->
     LET moved == {o \in DOMAIN ops : m \in OldMacros(o)} IN
     {IF f \in moved THEN ops[f] ELSE f : f \in macroIndex[m]}]

(* TextDocs::rename_files.  A document that is stored under a new name is  *)
(* dropped, its entries in the indexes are not.  A rename of a file that   *)
(* is not known ends the server, see TaskScheduler.                        *)
RenameFiles(ops) ==
  LET new     == {ops[o] : o \in DOMAIN ops}
      dropped == {registry[u] : u \in new \intersect Known}
      rest    == [s \in Status |->
                    [i \in {j \in DOMAIN slots[s] : <<s, j>> \notin dropped} |->
                       slots[s][i]]]
  IN /\ renames < MaxRenames
     /\ renames' = renames + 1
     /\ DOMAIN ops \subseteq Known
     /\ clean' = (clean /\ \A u \in new : u \notin Known /\ CallersOf(slots, u) = {})
     /\ registry' = [u \in (Known \ DOMAIN ops) \union new |->
                       IF u \in new
                       THEN registry[CHOOSE o \in DOMAIN ops : ops[o] = u]
                       ELSE registry[u]]
     /\ slots' = MapDocs(rest, LAMBDA d : RenamedDoc(ops, d))
     /\ free' = [s \in Status |->
                   free[s] \union {i \in 1..len[s] : <<s, i>> \in dropped}]
     /\ macroIndex' = RenameMacroIndex(ops)
     /\ targets' = IndexRename(targets, ops)
     /\ commands' = IndexRename(commands, ops)
     /\ UNCHANGED <<len, synced>>

Next ==
  \/ \E u \in Uri : \E t \in TextOf[u] : Open(u, t) \/ Scan(u, t) \/ Edit(u, t)
  \/ \E u \in Uri : Close(u)
  \/ \E ops \in Renames : RenameFiles(ops)
  \/ Sync

Spec == Init /\ [][Next]_vars

----------------------------------------------------------------------------
(* Properties.                                                             *)

(* A file is registered at exactly the slot that holds its document, no    *)
(* two files share a slot, and the free slots are those nobody occupies:   *)
(* no slot is lost and none is handed out twice, whatever sequence of      *)
(* open, close, scan and overwriting rename has moved the documents.       *)
SlotsExact ==
  /\ \A u, v \in Known : registry[u] = registry[v] => u = v
  /\ \A u \in Known : /\ registry[u][2] \in DOMAIN slots[registry[u][1]]
                      /\ Data(u).uri = u
  /\ \A s \in Status :
       /\ \A i \in DOMAIN slots[s] : \E u \in Known : registry[u] = <<s, i>>
       /\ free[s] = 1..len[s] \ DOMAIN slots[s]

(* Every script a document lists as caller is in the store.  The lookups   *)
(* of macro definitions unwrap the documents of all callers                *)
(* (definitions.rs, queue_goto_external_macro_definitions).                *)
CallersKnown ==
  \A d \in DocsOf(slots) : \A u \in Uri : d.callers[u] > 0 => u \in Known

(* The search for a global macro misses no document: every document is     *)
(* listed in the macro index under each of its macros, also after edits,   *)
(* reopening and renames over other documents.                             *)
MacrosFound ==
  \A d \in DocsOf(slots) : \A m \in d.text.macros : d.uri \in macroIndex[m]

Exactly(map, files) == map.sorted => ToSet(map.files) = files

(* As long as no file was renamed to a name in use and a rename has not    *)
(* broken the order of a map, the references to a script and to a command  *)
(* are those in the documents, no more and no fewer, and every location    *)
(* map is one (rename_key, update_macro_index and what they call).         *)
ReferencesExact ==
  /\ TypeOK
  /\ clean =>
       /\ \A t \in Uri : Exactly(Lookup(targets, t), CallersOf(slots, t))
       /\ \A c \in Command : Exactly(Lookup(commands, c),
            {d.uri : d \in {e \in DocsOf(slots) : Contains(e.text.commands, c)}})

CallersComplete ==
  \A d \in DocsOf(slots) : \A u \in CallersOf(slots, d.uri) : d.callers[u] > 0

(* When the discovery ends every script knows all of its callers, in       *)
(* whatever order the files came from disk and from the client.            *)
SyncCompletes == [][Sync => CallersComplete']_vars

(* The store implements the map from files to texts.                       *)
texts == [u \in Uri |->
            IF u \in Known
            THEN [status |-> registry[u][1], text |-> Data(u).text]
            ELSE [status |-> "absent"]]

Abstract == INSTANCE TextStore
ImplementsTextStore == Abstract!Spec

=============================================================================
