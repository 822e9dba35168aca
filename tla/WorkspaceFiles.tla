--------------------------- MODULE WorkspaceFiles ---------------------------
(***************************************************************************)
(* One file of a workspace and the requests that write, upload and delete  *)
(* it (service/sandbox/files.py, service/sandbox/remote_files.py).         *)
(*                                                                         *)
(* A local workspace is changed in one step: the code does not await.  In  *)
(* a remote one every SFTP operation is a step, so requests interleave.    *)
(* Every operation may be refused, those of the clean-up too; a request    *)
(* may be canceled at any of them, and its connection may be lost - before *)
(* or after the operation took effect, the request cannot tell which.      *)
(*                                                                         *)
(* A content is named by the request that wrote it.  Left out: reading,    *)
(* downloading, making directories, symbolic links, and copying and moving *)
(* (cp and mv replace a file without a backup).                            *)
(***************************************************************************)
EXTENDS Naturals, FiniteSets

CONSTANTS Writers,      \* the requests that write or upload
          Empty,        \* no file
          MaxDeletes,   \* bound on deletions
          MaxUpsets     \* bound on lost connections, cancellations and refused clean-ups

ASSUME EmptyAssumption == Empty \notin Writers
ASSUME DeletesAssumption == MaxDeletes \in Nat /\ MaxUpsets \in Nat

VARIABLES remote,       \* the workspace is on another host
          target,       \* the content of the file, or Empty
          backups,      \* the contents in .zj-backups
          temp,         \* [Writers -> its .zj-upload file]
          kept,         \* [Writers -> the content its backup holds]
          wpc,          \* [Writers -> program counter]
          upset,        \* [Writers -> what went wrong besides its write: link (the
                        \* connection is lost), cancel (canceled), remove (the removal
                        \* of the temporary file refused or interrupted), back (the
                        \* renaming of the backup refused)]
          stored,       \* history: the contents that have been the file
          dropped,      \* the contents a deletion removed
          deletes       \* how many deletions there were

fileVars == <<remote, target, backups, temp, kept, wpc, upset, stored, dropped, deletes>>

FInit ==
  /\ remote \in BOOLEAN
  /\ target = Empty /\ backups = {}
  /\ temp = [w \in Writers |-> Empty]
  /\ kept = [w \in Writers |-> Empty]
  /\ wpc = [w \in Writers |-> "new"]
  /\ upset = [w \in Writers |-> {}]
  /\ stored = {} /\ dropped = {} /\ deletes = 0

Upsets == {"link", "cancel", "remove", "back"}
Step(w, from, to) == wpc[w] = from /\ wpc' = [wpc EXCEPT ![w] = to]
Ended(w)  == wpc[w] \in {"new", "ok", "failed"}
Linked(w) == "link" \notin upset[w]

(* Something goes wrong with a request.                                    *)
Upset(w, what) ==
  /\ Cardinality({p \in Writers \X Upsets : p[2] \in upset[p[1]]}) < MaxUpsets
  /\ upset' = [upset EXCEPT ![w] = @ \cup what]

-----------------------------------------------------------------------------
(* A local workspace: copy to the backups, write a temporary file, replace *)
(* the target with it.                                                     *)
write_container_file(w) ==
  /\ ~remote
  /\ \/ /\ Step(w, "new", "ok")
        /\ backups' = backups \cup ({target} \ {Empty})
        /\ target' = w
        /\ stored' = stored \cup {w}
     \/ /\ Step(w, "new", "failed")            \* the disk refuses the temporary file
        /\ backups' \in {backups, backups \cup ({target} \ {Empty})}
        /\ UNCHANGED <<target, stored>>
  /\ UNCHANGED <<remote, temp, kept, upset, dropped, deletes>>

(* An upload without overwrite is refused where there is a file. *)
upload_refused(w) ==
  /\ target # Empty
  /\ Step(w, "new", "failed")
  /\ UNCHANGED <<remote, target, backups, temp, kept, upset, stored, dropped, deletes>>

-----------------------------------------------------------------------------
(* A remote workspace: _replace_file_atomic. *)

replace_file_atomic(w) ==
  /\ remote
  /\ Step(w, "new", "backup")
  /\ UNCHANGED <<remote, target, backups, temp, kept, upset, stored, dropped, deletes>>

(* lstat sees no file. *)
nothing_to_back_up(w) ==
  /\ target = Empty
  /\ Step(w, "backup", "write")
  /\ UNCHANGED <<remote, target, backups, temp, kept, upset, stored, dropped, deletes>>

(* lstat saw a file; the rename moves it, or finds it gone (SFTPNoSuchFile). *)
backup_existing_file(w) ==
  \/ /\ target # Empty
     /\ Step(w, "backup", "move")
     /\ UNCHANGED <<remote, target, backups, temp, kept, upset, stored, dropped, deletes>>
  \/ /\ Step(w, "move", IF target = Empty THEN "failed" ELSE "write")
     /\ backups' = backups \cup ({target} \ {Empty})
     /\ kept' = [kept EXCEPT ![w] = target]
     /\ target' = Empty
     /\ UNCHANGED <<remote, temp, upset, stored, dropped, deletes>>

(* lstat, makedirs or the rename to the backup is refused. *)
backup_refused(w) ==
  /\ Step(w, "backup", "failed") \/ Step(w, "move", "failed")
  /\ UNCHANGED <<remote, target, backups, temp, kept, upset, stored, dropped, deletes>>

(* The data goes into a temporary file of the same directory; makedirs,    *)
(* open or write may be refused.                                           *)
write_bytes_atomic(w) ==
  /\ Linked(w)
  /\ \/ Step(w, "write", "publish") /\ temp' = [temp EXCEPT ![w] = w]
     \/ Step(w, "write", "broken")  /\ temp' \in {temp, [temp EXCEPT ![w] = w]}
  /\ UNCHANGED <<remote, target, backups, kept, upset, stored, dropped, deletes>>

(* Mutant: posix-rename. *)
rename_overwrites(w) == FALSE

(* SFTP: a rename onto an existing file is refused. *)
rename_refused(w) == target # Empty

publish(w) ==
  /\ Linked(w)
  /\ \/ /\ Step(w, "publish", "broken")         \* refused, for that or another reason
        /\ UNCHANGED <<target, temp, stored>>
     \/ /\ ~rename_refused(w)
        /\ Step(w, "publish", "clean")
        /\ target' = w
        /\ stored' = stored \cup {w}
        /\ temp' = [temp EXCEPT ![w] = Empty]
  /\ UNCHANGED <<remote, backups, kept, upset, dropped, deletes>>

(* Mutant: the temporary file is removed only after a success. *)
remove_temp_on_success(w) ==
  /\ Linked(w)
  /\ \/ Step(w, "clean", "ok") /\ temp' = [temp EXCEPT ![w] = Empty]
     \/ (Step(w, "broken", "restore") \/ Step(w, "leaving", "failed")) /\ UNCHANGED temp
  /\ UNCHANGED <<remote, target, backups, kept, upset, stored, dropped, deletes>>

(* finally: the temporary file is removed, if it is still there.  What     *)
(* follows is the answer, the except clause, or for a canceled request     *)
(* the way out.                                                            *)
remove_temp(w) ==
  /\ Linked(w)
  /\ Step(w, "clean", "ok") \/ Step(w, "broken", "restore") \/ Step(w, "leaving", "failed")
  /\ temp' = [temp EXCEPT ![w] = Empty]
  /\ UNCHANGED <<remote, target, backups, kept, upset, stored, dropped, deletes>>

(* Only SFTPNoSuchFile is ignored: another error of the removal goes to    *)
(* the except clause, also when the file had been published, and when it   *)
(* takes the place of a CancelledError.                                    *)
remove_refused(w) ==
  /\ Linked(w)
  /\ wpc[w] \in {"clean", "broken", "leaving"} /\ Step(w, wpc[w], "restore")
  /\ Upset(w, {"remove"})
  /\ UNCHANGED <<remote, target, backups, temp, kept, stored, dropped, deletes>>

(* Mutant: nothing is put back. *)
put_back_never(w) ==
  /\ Step(w, "restore", "failed")
  /\ UNCHANGED <<remote, target, backups, temp, kept, upset, stored, dropped, deletes>>

(* except Exception: the backup is renamed back, unless there is a file    *)
(* again; that rename may be refused as well, which is ignored.            *)
put_back(w) ==
  /\ Step(w, "restore", "failed")
  /\ IF Linked(w) /\ kept[w] # Empty /\ target = Empty
     THEN \/ target' = kept[w] /\ backups' = backups \ {kept[w]} /\ UNCHANGED upset
          \/ Upset(w, {"back"}) /\ UNCHANGED <<target, backups>>
     ELSE UNCHANGED <<target, backups, upset>>
  /\ UNCHANGED <<remote, temp, kept, stored, dropped, deletes>>

(* A connection is lost: whatever the request still does on it fails.  The *)
(* operation under way may have taken effect, which is the connection      *)
(* lost one step later.                                                    *)
connection_lost(w) ==
  /\ remote /\ ~Ended(w) /\ Linked(w)
  /\ Upset(w, {"link"})
  /\ wpc' = [wpc EXCEPT ![w] = IF @ \in {"backup", "move", "leaving"} THEN "failed" ELSE "restore"]
  /\ UNCHANGED <<remote, target, backups, temp, kept, stored, dropped, deletes>>

(* The request is canceled: CancelledError passes the except clause, so    *)
(* nothing is put back, but not the finally clause, which a cancellation   *)
(* cuts short only when it comes in it.                                    *)
canceled(w) ==
  /\ remote /\ ~Ended(w)
  /\ Upset(w, {"cancel"} \cup (IF wpc[w] \in {"clean", "broken", "leaving"} THEN {"remove"} ELSE {}))
  /\ wpc' = [wpc EXCEPT ![w] = IF @ \in {"write", "publish"} THEN "leaving" ELSE "failed"]
  /\ UNCHANGED <<remote, target, backups, temp, kept, stored, dropped, deletes>>

(* rm -rf, or Path.unlink. *)
delete_files ==
  /\ target # Empty /\ deletes < MaxDeletes
  /\ dropped' = dropped \cup {target}
  /\ target' = Empty
  /\ deletes' = deletes + 1
  /\ UNCHANGED <<remote, backups, temp, kept, wpc, upset, stored>>

FNext ==
  \/ \E w \in Writers :
       \/ write_container_file(w) \/ upload_refused(w) \/ replace_file_atomic(w)
       \/ nothing_to_back_up(w) \/ backup_existing_file(w) \/ backup_refused(w)
       \/ write_bytes_atomic(w) \/ publish(w) \/ remove_temp(w) \/ remove_refused(w)
       \/ put_back(w) \/ connection_lost(w) \/ canceled(w)
  \/ delete_files

FSpec == FInit /\ [][FNext]_fileVars

-----------------------------------------------------------------------------
WriterPC == {"new", "backup", "move", "write", "publish", "clean", "broken", "restore",
             "leaving", "ok", "failed"}

FTypeOK ==
  /\ remote \in BOOLEAN /\ target \in Writers \cup {Empty}
  /\ backups \subseteq Writers /\ stored \subseteq Writers /\ dropped \subseteq Writers
  /\ temp \in [Writers -> Writers \cup {Empty}] /\ kept \in [Writers -> Writers \cup {Empty}]
  /\ wpc \in [Writers -> WriterPC] /\ upset \in [Writers -> SUBSET Upsets]
  /\ deletes \in 0..MaxDeletes

(* No content is lost: what a request was told it stored, and whatever has *)
(* been the file although its request then failed, is still the file, or   *)
(* among the backups, until someone deletes the file - whichever requests  *)
(* overlap, and wherever one breaks off, is canceled or cannot clean up    *)
(* (_backup_existing_file, _replace_file_atomic).                          *)
StoredIsKept ==
  stored \cup {w \in Writers : wpc[w] = "ok"} \subseteq {target} \cup backups \cup dropped

(* Failing requests leave a file where there was one: once every request   *)
(* has ended, a file that nobody deleted is there - unless a request lost  *)
(* its connection or was canceled, or the renaming of its backup was       *)
(* refused, which the code ignores (_replace_file_atomic, except).         *)
FileSurvives ==
  /\ \A w \in Writers : Ended(w) /\ upset[w] \cap {"link", "cancel", "back"} = {}
  /\ dropped = {} /\ stored # {}
  => target # Empty

(* A request that ended, a canceled one too, leaves no temporary file      *)
(* behind, unless it lost its connection or the removal itself was refused *)
(* or cut short (_write_bytes_atomic, finally).                            *)
NoTempLeft ==
  \A w \in Writers : Ended(w) /\ upset[w] \cap {"link", "remove"} = {} => temp[w] = Empty
=============================================================================
