----------------------------- MODULE YandexDisk -----------------------------
(***************************************************************************)
(* Yandex Disk as the upload worker uses it.  It is not part of the        *)
(* repository: what it does is read off services/yandex_disk.py, which     *)
(* asks for the info of a path, asks for an upload URL and sends the file  *)
(* to that URL with PUT.  A PUT is a message on the wire: it may be stored *)
(* or refused after the sender has timed out, been cancelled or died, and  *)
(* it may never arrive.                                                    *)
(***************************************************************************)
EXTENDS Naturals

CONSTANTS
    Requests,   \* the rows of upload_requests
    Folders,    \* folders file_policy.folder_allowed accepts for their owner
    Names,      \* sanitised file names
    Contents,   \* what a file holds: its (size, sha256) pair
    FileOf,     \* FileOf[r]: the content of the staged file of request r
    None        \* no resource, no copy suffix, no job

ASSUME FileOfAssumption == FileOf \in [Requests -> Contents]
ASSUME NoneAssumption == None \notin Requests /\ None \notin Contents

VARIABLES
    disk,       \* disk[p]: the content at path p, or None
    wire        \* PUTs sent and not yet received by the Disk

diskVars == <<disk, wire>>

(***************************************************************************)
(* A target path: folder and name, and for a copy the request whose code   *)
(* copy_filename appends to the name.  Request codes are unique, so the    *)
(* copies of two requests never share a path.                              *)
(***************************************************************************)
Paths == [folder : Folders, name : Names, copyOf : Requests \cup {None}]

PlainPath(folder, name) == [folder |-> folder, name |-> name, copyOf |-> None]
CopyPath(folder, name, r) == [folder |-> folder, name |-> name, copyOf |-> r]

Puts == [req : Requests, token : Nat, path : Paths, overwrite : BOOLEAN]

DiskTypeOK ==
    /\ disk \in [Paths -> Contents \cup {None}]
    /\ wire \subseteq Puts

\* A path is free for a writer that may overwrite, or when nothing is there.
IsFreeFor(path, overwrite) == overwrite \/ disk[path] = None

StorePut(m) ==
    /\ m \in wire
    /\ IsFreeFor(m.path, m.overwrite)
    /\ disk' = [disk EXCEPT ![m.path] = FileOf[m.req]]
    /\ wire' = wire \ {m}

\* 409: the path is taken and the upload URL was asked for without overwrite.
RefusePut(m) ==
    /\ m \in wire
    /\ ~IsFreeFor(m.path, m.overwrite)
    /\ wire' = wire \ {m}
    /\ UNCHANGED disk

LosePut(m) ==
    /\ m \in wire
    /\ wire' = wire \ {m}
    /\ UNCHANGED disk

=============================================================================
