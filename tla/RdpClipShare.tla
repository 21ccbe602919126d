----------------------------- MODULE RdpClipShare -----------------------------
(***************************************************************************)
(* Text and files of the host offered to the RDP server                    *)
(* (rdp-helper/src/clipboard/{controller,backend,local}.rs).               *)
(*                                                                         *)
(* The main thread sets and cancels what is offered; the session thread    *)
(* answers the server.  TextClipboardState is behind one mutex, which both *)
(* threads release before they send: every action is one critical section  *)
(* or one send, and shMain and shSession hold what is still to be sent.    *)
(* Files on the host's disk change meanwhile.                              *)
(***************************************************************************)
EXTENDS Naturals, Sequences, FiniteSets, SequencesExt

CONSTANTS
  ShFiles,      \* the host's files
  ShLocks,      \* the server's lock ids
  ShSizes,      \* sizes of a file
  ShOffers,     \* how many times the host offers something
  ShEdits,      \* how many times a file changes on the disk
  ShChunk       \* MAX_LOCAL_RESPONSE_CHUNK_BYTES

ASSUME ShAssumption ==
  /\ ShSizes \subseteq Nat /\ ShOffers \in Nat /\ ShEdits \in Nat /\ ShChunk \in Nat \ {0}

VARIABLES
  shDisk,       \* file -> [kind, size]
  shText,       \* local_text (0: None, else the number of the offer)
  shLocal,      \* local_files
  shLocked,     \* locked_local_files: lock -> transfer
  shMain,       \* what the main thread still has to send
  shSession,    \* what the session thread still has to send
  shAdvert,     \* the last advertisement sent
  shOffered,    \* offers so far (transfer ids)
  shEdited,     \* changes of files so far
  shCancelled,  \* transfers that were cancelled
  shAsked,      \* the entry the session thread has looked up and still has to read
  shAnswers,    \* contents the server got: [lock, id, listed, inside, late, again]
  shLate,       \* an advertisement was read before, and sent after, a newer offer
  shOpen        \* the clipboard channel is open

shVars == <<shDisk, shText, shLocal, shLocked, shMain, shSession, shAdvert, shOffered,
            shEdited, shCancelled, shAsked, shAnswers, shLate, shOpen>>

NoFiles == [id |-> 0, entries |-> <<>>]
Silent == [kind |-> "none", id |-> 0]
EmptyOffer == [kind |-> "empty", id |-> 0]
NotAsked == [id |-> 0]

\* build_entry: a link or a special file refuses the whole offer; the size is recorded.
build_entry(file) == [file |-> file, kind |-> shDisk[file].kind, size |-> shDisk[file].size]

\* LocalClipboardTransfer::collect, for files offered one by one.
LocalClipboardTransfer_collect(id, files) == [id |-> id, entries |-> [i \in DOMAIN files |-> build_entry(files[i])]]

(***************************************************************************)
(* The main thread.                                                        *)
(***************************************************************************)
ShChanged == shLate' = (shLate \/ shSession # Silent)

set_local_text ==
  /\ shOpen /\ shMain = Silent /\ shOffered < ShOffers
  /\ shOffered' = shOffered + 1
  /\ shText' = shOffered' /\ shLocal' = NoFiles
  /\ shMain' = [kind |-> "text", id |-> shOffered']
  /\ ShChanged
  /\ UNCHANGED <<shDisk, shLocked, shSession, shAdvert, shEdited, shCancelled, shAsked, shAnswers, shOpen>>

\* set_local_files: when the files cannot be collected the previous offer stays, and the host
\* is told that the transfer failed.
set_local_files(files) ==
  /\ shOpen /\ shMain = Silent /\ shOffered < ShOffers
  /\ shOffered' = shOffered + 1
  /\ IF \A i \in DOMAIN files : shDisk[files[i]].kind \in {"file", "directory"} THEN
       /\ shText' = 0
       /\ shLocal' = LocalClipboardTransfer_collect(shOffered', files)
       /\ shMain' = [kind |-> "files", id |-> shOffered']
       /\ ShChanged
     ELSE UNCHANGED <<shText, shLocal, shMain, shLate>>
  /\ UNCHANGED <<shDisk, shLocked, shSession, shAdvert, shEdited, shCancelled, shAsked, shAnswers, shOpen>>

\* send_clipboard, after the lock was released.
ShMainSends ==
  /\ shMain # Silent /\ shMain' = Silent
  /\ shAdvert' = IF shOpen THEN shMain ELSE shAdvert
  /\ UNCHANGED <<shDisk, shText, shLocal, shLocked, shSession, shOffered, shEdited, shCancelled,
                 shAsked, shAnswers, shLate, shOpen>>

\* Fault: the snapshots the server has locked survive the cancellation.
cancel_local_transfer_keepsLocked(id) ==
  /\ id \in {shLocal.id} \cup {shLocked[l].id : l \in DOMAIN shLocked}
  /\ shLocal' = IF shLocal.id = id THEN NoFiles ELSE shLocal
  /\ shCancelled' = shCancelled \cup {id}
  /\ UNCHANGED shLocked

\* cancel_local_transfer: the current offer and every locked snapshot of the transfer.
cancel_local_transfer(id) ==
  /\ id \in {shLocal.id} \cup {shLocked[l].id : l \in DOMAIN shLocked}
  /\ shLocal' = IF shLocal.id = id THEN NoFiles ELSE shLocal
  /\ shLocked' = [l \in {x \in DOMAIN shLocked : shLocked[x].id # id} |-> shLocked[l]]
  /\ shCancelled' = shCancelled \cup {id}

\* The host cancels a transfer: nothing is advertised instead of it.
ShCancel(id) ==
  /\ id # 0 /\ shMain = Silent
  /\ cancel_local_transfer(id)
  /\ ShChanged
  /\ UNCHANGED <<shDisk, shText, shMain, shSession, shAdvert, shOffered, shEdited, shAsked, shAnswers, shOpen>>

\* shutdown() forgets everything.
ShShutdown ==
  /\ shOpen /\ shMain = Silent /\ shOpen' = FALSE
  /\ shText' = 0 /\ shLocal' = NoFiles /\ shLocked' = <<>>
  /\ shCancelled' = shCancelled \cup {shLocked[l].id : l \in DOMAIN shLocked} \cup ({shLocal.id} \ {0})
  /\ ShChanged
  /\ UNCHANGED <<shDisk, shMain, shSession, shAdvert, shOffered, shEdited, shAsked, shAnswers>>

(***************************************************************************)
(* The session thread.                                                     *)
(***************************************************************************)
\* on_request_format_list: a file list is sent after the lock is released, everything else
\* while it is held.
on_request_format_list ==
  /\ shOpen /\ shSession = Silent /\ shAsked = NotAsked
  /\ IF shLocal # NoFiles THEN
       /\ shSession' = [kind |-> "files", id |-> shLocal.id] /\ UNCHANGED shAdvert
     ELSE
       /\ shAdvert' = IF shText # 0 THEN [kind |-> "text", id |-> shText] ELSE EmptyOffer
       /\ UNCHANGED shSession
  /\ UNCHANGED <<shDisk, shText, shLocal, shLocked, shMain, shOffered, shEdited, shCancelled,
                 shAsked, shAnswers, shLate, shOpen>>

ShSessionSends ==
  /\ shSession # Silent /\ shSession' = Silent
  /\ shAdvert' = IF shOpen THEN shSession ELSE shAdvert
  /\ UNCHANGED <<shDisk, shText, shLocal, shLocked, shMain, shOffered, shEdited, shCancelled,
                 shAsked, shAnswers, shLate, shOpen>>

\* on_lock snapshots the current files, if there are any.
on_lock(lock) ==
  /\ shOpen /\ shSession = Silent /\ shAsked = NotAsked /\ lock \notin DOMAIN shLocked
  /\ \A a \in shAnswers : a.lock # lock
  /\ shLocked' = IF shLocal = NoFiles THEN shLocked
                 ELSE [l \in DOMAIN shLocked \cup {lock} |-> IF l = lock THEN shLocal ELSE shLocked[l]]
  /\ UNCHANGED <<shDisk, shText, shLocal, shMain, shSession, shAdvert, shOffered, shEdited,
                 shCancelled, shAsked, shAnswers, shLate, shOpen>>

on_unlock(lock) ==
  /\ shSession = Silent /\ shAsked = NotAsked /\ lock \in DOMAIN shLocked
  /\ shLocked' = [l \in DOMAIN shLocked \ {lock} |-> shLocked[l]]
  /\ UNCHANGED <<shDisk, shText, shLocal, shMain, shSession, shAdvert, shOffered, shEdited,
                 shCancelled, shAsked, shAnswers, shLate, shOpen>>

\* local_entry: from the lock's snapshot, or from the current files without a lock.
local_entry(lock) ==
  IF lock = "none" THEN shLocal ELSE IF lock \in DOMAIN shLocked THEN shLocked[lock] ELSE NoFiles

\* open_verified: still a file, of the recorded size, at the recorded place.
open_verified(entry) == shDisk[entry.file].kind = "file" /\ shDisk[entry.file].size = entry.size

\* range_response: what is asked for, at most a chunk, at most what is left.
range_response(entry, position, requested) ==
  LET left == entry.size - position
      capped == IF requested < ShChunk THEN requested ELSE ShChunk IN
  IF requested = 0 \/ position > entry.size THEN {}
  ELSE {IF left < capped THEN left ELSE capped}

\* on_file_contents_request looks the entry up under the lock.  A request for none is
\* answered with an error, which leaves everything as it is.
on_file_contents_request(lock, index, position, requested) ==
  /\ shOpen /\ shSession = Silent /\ shAsked = NotAsked
  /\ LET transfer == local_entry(lock) IN
     /\ index \in DOMAIN transfer.entries
     /\ shAsked' = [lock |-> lock, id |-> transfer.id, entry |-> transfer.entries[index],
                    position |-> position, requested |-> requested]
  /\ UNCHANGED <<shDisk, shText, shLocal, shLocked, shMain, shSession, shAdvert, shOffered,
                 shEdited, shCancelled, shAnswers, shLate, shOpen>>

\* LocalClipboardEntry::read and the send, without the lock: the contents, or an error.  A
\* file that shrinks between open_verified and read_exact is an error too.
LocalClipboardEntry_read ==
  LET entry == shAsked.entry
      late == shAsked.id \in shCancelled
      data == IF entry.kind = "file" /\ open_verified(entry)
              THEN range_response(entry, shAsked.position, shAsked.requested) ELSE {} IN
  shAnswers \cup
    {[lock |-> shAsked.lock, id |-> shAsked.id, listed |-> entry.size,
      inside |-> shAsked.position + amount <= shDisk[entry.file].size,
      late |-> late, again |-> late /\ \E a \in shAnswers : a.id = shAsked.id /\ a.late] : amount \in data}

send_local_file_response ==
  /\ shAsked # NotAsked /\ shAsked' = NotAsked
  /\ shAnswers' = LocalClipboardEntry_read
  /\ UNCHANGED <<shDisk, shText, shLocal, shLocked, shMain, shSession, shAdvert, shOffered,
                 shEdited, shCancelled, shLate, shOpen>>

(***************************************************************************)
(* The host's disk (external).                                             *)
(***************************************************************************)
ShDiskChanges(file) ==
  /\ shEdited < ShEdits /\ shEdited' = shEdited + 1
  /\ \E kind \in {"file", "link"}, size \in ShSizes :
       /\ shDisk[file] # [kind |-> kind, size |-> size]
       /\ shDisk' = [shDisk EXCEPT ![file] = [kind |-> kind, size |-> size]]
  /\ UNCHANGED <<shText, shLocal, shLocked, shMain, shSession, shAdvert, shOffered, shCancelled,
                 shAsked, shAnswers, shLate, shOpen>>

ShInit ==
  /\ \E sizes \in [ShFiles -> ShSizes] : shDisk = [f \in ShFiles |-> [kind |-> "file", size |-> sizes[f]]]
  /\ shText = 0 /\ shLocal = NoFiles /\ shLocked = <<>> /\ shMain = Silent /\ shSession = Silent
  /\ shAdvert = EmptyOffer /\ shOffered = 0 /\ shEdited = 0 /\ shCancelled = {} /\ shAnswers = {}
  /\ shAsked = NotAsked
  /\ shLate = FALSE /\ shOpen = TRUE

ShNext ==
  \/ set_local_text \/ ShMainSends \/ ShSessionSends \/ ShShutdown \/ on_request_format_list
  \/ send_local_file_response
  \/ \E f \in ShFiles : set_local_files(<<f>>) \/ ShDiskChanges(f)
  \/ \E id \in 1..ShOffers : ShCancel(id)
  \/ \E l \in ShLocks : on_lock(l) \/ on_unlock(l)
  \/ \E l \in ShLocks \cup {"none"}, position \in 0..1, requested \in 0..2 :
       on_file_contents_request(l, 1, position, requested)

ShSpec == ShInit /\ [][ShNext]_shVars

(***************************************************************************)
(* Properties.                                                             *)
(***************************************************************************)
ShTypeOK ==
  /\ shText \in 0..ShOffers /\ shLocal.id \in 0..ShOffers /\ DOMAIN shLocked \subseteq ShLocks
  /\ shOffered \in 0..ShOffers /\ shCancelled \subseteq 1..ShOffers
  /\ ~(shText # 0 /\ shLocal # NoFiles)

\* Under one lock the server only ever reads the files of one offer, with the sizes it
\* recorded, whatever the host offers, cancels or changes on its disk meanwhile.
LockIsASnapshot ==
  \A a, b \in shAnswers :
    a.lock = b.lock /\ a.lock # "none" => a.id = b.id /\ a.listed = b.listed
\* After a transfer is cancelled at most the one answer still follows that was being read
\* at that moment, from whichever lock it was asked; and no answer passes the end of the
\* file as it is on the disk.
CancelledStaysSilent ==
  /\ \A a \in shAnswers : ~a.again /\ a.inside
  /\ shAsked # NotAsked /\ shAsked.id \in shCancelled =>
       ~\E a \in shAnswers : a.id = shAsked.id /\ a.late

\* With nothing left to send, the server was last told of what is offered now, unless a file
\* list was read before and sent after a newer offer, or the offer was withdrawn.
AdvertisedIsOffered ==
  shMain = Silent /\ shSession = Silent /\ shOpen /\ ~shLate =>
    \/ shAdvert = [kind |-> "text", id |-> shText]
    \/ shAdvert = [kind |-> "files", id |-> shLocal.id]
    \/ shText = 0 /\ shLocal = NoFiles

\* The offered clipboard: types, snapshots, cancellation, advertisement.
RdpClipShareSafe == ShTypeOK /\ LockIsASnapshot /\ CancelledStaysSilent /\ AdvertisedIsOffered
-------------------------------------------------------------------------------
(***************************************************************************)
(* The lists of files the RDP clipboard exchanges: how the helper walks    *)
(* the host's files into a list (rdp-helper/src/clipboard/local.rs), and   *)
(* what it accepts from a server and stages on the disk                    *)
(* (remote_layout.rs, path.rs, remote.rs).                                 *)
(*                                                                         *)
(* A name is <<letter, case>>: to_lowercase keeps the letter.  A tree of   *)
(* the host and a server's list grow step by step, so that TLC visits      *)
(* every one within the bounds.                                            *)
(***************************************************************************)

CONSTANTS
  LyNames,      \* <<letter, case>> in the order of their sort keys
  LyBad,        \* names validate_component refuses
  LyUnits,      \* name -> its length in UTF-16 units
  LyWire,       \* MAX_WIRE_PATH_UTF16_UNITS
  LyDepth,      \* MAX_CLIPBOARD_DIRECTORY_DEPTH
  LyCount,      \* MAX_CLIPBOARD_ENTRY_COUNT
  LyMaxFile,    \* MAX_SINGLE_FILE_BYTES
  LyMaxTotal,   \* MAX_TOTAL_TRANSFER_BYTES
  LySizes,      \* file sizes
  LyNodes       \* most nodes of the host's tree, most entries of a server's list

ASSUME LyAssumption ==
  /\ LyDepth \in Nat \ {0} /\ LyCount \in Nat /\ LyMaxFile \in Nat /\ LyMaxTotal \in Nat
  /\ LySizes \subseteq Nat /\ LyNodes \in Nat

VARIABLES
  lyTree,   \* the host's files: path -> [kind, size]
  lyList    \* a server's file list

lyVars == <<lyTree, lyList>>

Names == {LyNames[i] : i \in DOMAIN LyNames}

(***************************************************************************)
(* path.rs                                                                 *)
(***************************************************************************)
validate_component(name) == name \notin LyBad

validate_components(path) == path # <<>> /\ Len(path) <= LyDepth /\ \A i \in DOMAIN path : validate_component(path[i])

\* The components joined by backslashes.
validate_wire_length(path) ==
  FoldSeq(LAMBDA name, n : n + LyUnits[name], Len(path) - 1, path) <= LyWire

from_local_components(path) == validate_components(path) /\ validate_wire_length(path)

\* from_wire checks the parent's components, then the whole path.
from_wire(d) == from_local_components(d.path)

normalized_key(path) == [i \in DOMAIN path |-> path[i][1]]
parent_key(path) == normalized_key(Front(path))
top_level_key(path) == path[1][1]

(***************************************************************************)
(* remote_layout.rs                                                        *)
(***************************************************************************)
\* account_advertised_size; an entry without a size counts nothing.
account_advertised_size(d, total) ==
  d.size = {} \/ \A s \in d.size : s <= LyMaxFile /\ total + s <= LyMaxTotal

Refused == [ok |-> FALSE, hierarchy |-> <<>>, total |-> 0, directories |-> <<>>, files |-> <<>>, tops |-> <<>>]
EmptyLayout == [ok |-> TRUE, hierarchy |-> <<>>, total |-> 0, directories |-> <<>>, files |-> <<>>, tops |-> <<>>]

\* validate_parent: the parent was listed before, as a directory.
validate_parent(path, hierarchy) ==
  Len(path) = 1 \/ \E i \in DOMAIN hierarchy : hierarchy[i] = [key |-> parent_key(path), directory |-> TRUE]

\* add_to_layout
add_to_layout(layout, d) ==
  IF d.directory THEN [layout EXCEPT !.directories = Append(@, d.path)]
  ELSE [layout EXCEPT !.files = Append(@, d.path),
                      !.total = @ + (IF d.size = {} THEN 0 ELSE CHOOSE s \in d.size : TRUE)]

\* One round of validate_descriptors.
Validated(layout, d) ==
  LET key == normalized_key(d.path)
      known == {layout.tops[i][1] : i \in DOMAIN layout.tops} IN
  IF \/ ~layout.ok \/ ~from_wire(d) \/ d.reparse
     \/ ~validate_parent(d.path, layout.hierarchy)
     \/ \E i \in DOMAIN layout.hierarchy : layout.hierarchy[i].key = key
     \/ ~d.directory /\ ~account_advertised_size(d, layout.total) THEN Refused
  ELSE add_to_layout(
         [layout EXCEPT !.hierarchy = Append(@, [key |-> key, directory |-> d.directory]),
                        !.tops = IF top_level_key(d.path) \in known THEN @ ELSE Append(@, d.path[1])], d)

validate_descriptors(list) == FoldLeft(Validated, EmptyLayout, list)

\* RemoteClipboardLayout::validate
validate(list) ==
  IF list = <<>> \/ Len(list) > LyCount THEN Refused ELSE validate_descriptors(list)

(***************************************************************************)
(* remote.rs: the directories are made first, in the order of the list,    *)
(* then one new file per file entry, on a file system that ignores case.   *)
(***************************************************************************)
SamePath(p, q) == normalized_key(p) = normalized_key(q)

CanCreate(made, path) ==
  /\ ~\E i \in DOMAIN made : SamePath(made[i], path)
  /\ Len(path) = 1 \/ \E i \in DOMAIN made : SamePath(made[i], Front(path))

\* create_directories
create_directories(directories) ==
  \A n \in DOMAIN directories : CanCreate(SubSeq(directories, 1, n - 1), directories[n])

\* create_output_file opens with create_new.
create_output_file(directories, files) ==
  \A n \in DOMAIN files :
    /\ CanCreate(directories, files[n])
    /\ ~\E i \in 1..(n - 1) : SamePath(files[i], files[n])

(***************************************************************************)
(* local.rs                                                                *)
(***************************************************************************)
SortKey(name) == CHOOSE i \in DOMAIN LyNames : LyNames[i] = name

\* push_children: read_dir sorted by name, pushed in reverse; a link or a name the wire does
\* not carry refuses the whole offer.
push_children(directory) ==
  LET children == {p \in DOMAIN lyTree : Len(p) = Len(directory) + 1 /\ Front(p) = directory} IN
  Reverse(SetToSortSeq(children, LAMBDA p, q : SortKey(Last(p)) < SortKey(Last(q))))

ChildrenOk(directory) ==
  \A p \in DOMAIN lyTree :
    Len(p) = Len(directory) + 1 /\ Front(p) = directory =>
      lyTree[p].kind # "link" /\ from_local_components(p)

account_file(path, total) ==
  lyTree[path].kind = "directory" \/
    (lyTree[path].size <= LyMaxFile /\ total + lyTree[path].size <= LyMaxTotal)

descriptor(path) ==
  [path |-> path, directory |-> lyTree[path].kind = "directory", reparse |-> FALSE,
   size |-> IF lyTree[path].kind = "directory" THEN {} ELSE {lyTree[path].size}]

Failed == [ok |-> FALSE, entries |-> <<>>, total |-> 0]

\* collect_tree: depth first with a stack of paths.
RECURSIVE collect_tree(_, _)
collect_tree(pending, done) ==
  IF pending = <<>> \/ ~done.ok THEN done
  ELSE
    LET path == Last(pending)
        size == IF lyTree[path].kind = "file" THEN lyTree[path].size ELSE 0 IN
    IF \/ Len(done.entries) >= LyCount \/ lyTree[path].kind = "link"
       \/ ~account_file(path, done.total)
       \/ lyTree[path].kind = "directory" /\ ~ChildrenOk(path) THEN Failed
    ELSE collect_tree(
           Front(pending) \o (IF lyTree[path].kind = "directory" THEN push_children(path) ELSE <<>>),
           [ok |-> TRUE, entries |-> Append(done.entries, descriptor(path)), total |-> done.total + size])

\* validate_top_level_paths: names that differ only in case are refused.
validate_top_level_paths(tops) ==
  /\ \A i \in DOMAIN tops : validate_component(tops[i][1])
  /\ \A i, j \in DOMAIN tops : i # j => tops[i][1][1] # tops[j][1][1]

\* collect_entries: one tree after the other, with a common count and total.
collect_entries(tops) ==
  FoldLeft(LAMBDA done, top : IF from_local_components(top) THEN collect_tree(<<top>>, done) ELSE Failed,
           [ok |-> TRUE, entries |-> <<>>, total |-> 0], tops)

collect(tops) == IF tops = <<>> \/ ~validate_top_level_paths(tops) THEN Failed ELSE collect_entries(tops)

(***************************************************************************)
(* Growing a tree and a list.                                              *)
(***************************************************************************)
AllNames == Names \cup LyBad
LyPaths == UNION {[1..n -> AllNames] : n \in 1..(LyDepth + 1)}

LyAddNode ==
  /\ Cardinality(DOMAIN lyTree) < LyNodes
  /\ \E path \in LyPaths \ DOMAIN lyTree, kind \in {"file", "directory", "link"}, size \in LySizes :
       /\ Len(path) = 1 \/ (Front(path) \in DOMAIN lyTree /\ lyTree[Front(path)].kind = "directory")
       /\ kind # "file" => \A s \in LySizes : size <= s
       /\ lyTree' = [p \in DOMAIN lyTree \cup {path} |->
                       IF p = path THEN [kind |-> kind, size |-> size] ELSE lyTree[p]]
  /\ lyList = <<>> /\ UNCHANGED lyList

LyAddEntry ==
  /\ Len(lyList) < LyNodes /\ lyTree = <<>> /\ UNCHANGED lyTree
  /\ \E path \in LyPaths, directory \in BOOLEAN, reparse \in BOOLEAN,
        size \in {{}} \cup {{s} : s \in LySizes} :
       /\ directory \/ reparse => size = {}
       /\ lyList' = Append(lyList, [path |-> path, directory |-> directory, reparse |-> reparse, size |-> size])
  \* A refused list stays refused: only accepted ones grow.
  /\ lyList = <<>> \/ validate(lyList).ok

LyInit == lyTree = <<>> /\ lyList = <<>>
LyNext == LyAddNode \/ LyAddEntry
LySpec == LyInit /\ [][LyNext]_lyVars

(***************************************************************************)
(* Properties.                                                             *)
(***************************************************************************)
\* Every list accepted from a server can be staged on a file system that ignores case: each
\* entry's directory exists before it, nothing is created twice, no path leaves its directory
\* or passes a limit, and the host is given each top-level entry once.
AcceptedCanBeStaged ==
  LET layout == validate(lyList) IN
  layout.ok =>
    /\ create_directories(layout.directories)
    /\ create_output_file(layout.directories, layout.files)
    /\ Len(layout.directories) + Len(layout.files) = Len(lyList)
    /\ \A i \in DOMAIN lyList :
         Len(lyList[i].path) <= LyDepth /\ validate_wire_length(lyList[i].path)
    /\ {lyList[i].path[1][1] : i \in DOMAIN lyList} = {layout.tops[i][1] : i \in DOMAIN layout.tops}
    /\ \A i, j \in DOMAIN layout.tops : i # j => layout.tops[i][1] # layout.tops[j][1]

TopLists == {<<>>} \cup {<<<<a>>>> : a \in AllNames} \cup {<<<<a>>, <<b>>>> : a, b \in AllNames}

CaseClash == \E p, q \in DOMAIN lyTree : p # q /\ SamePath(p, q)

\* The list the helper makes of the host's files contains every file below the offered paths
\* once, and follows the rules it imposes on a server's list, unless two names in one
\* directory differ only in case.
OfferedWouldBeAccepted ==
  \A tops \in TopLists :
    (\A i \in DOMAIN tops : tops[i] \in DOMAIN lyTree) =>
      LET offer == collect(tops)
          below == {p \in DOMAIN lyTree : \E i \in DOMAIN tops : IsPrefix(tops[i], p)} IN
      offer.ok =>
        /\ {offer.entries[i].path : i \in DOMAIN offer.entries} = below
        /\ Len(offer.entries) = Cardinality(below)
        /\ validate(offer.entries).ok \/ CaseClash

\* What the clipboard accepts and offers.
RdpClipLayoutSafe == AcceptedCanBeStaged /\ OfferedWouldBeAccepted
===============================================================================
