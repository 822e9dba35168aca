------------------------------- MODULE Sockets -------------------------------
(***************************************************************************)
(* A websocket of the desktop client and what its handler opens for it: a  *)
(* shell on a host (handler/host/hosts.py, service/host/shell.py), a shell *)
(* in a workspace (handler/sandbox/containers.py, service/sandbox/         *)
(* shell.py), a remote desktop (service/sandbox/novnc.py) or the event     *)
(* stream of a chat session (handler/agent/sessions.py).                   *)
(*                                                                         *)
(* The handler runs tasks of its own:                                      *)
(*   out    forwards what the resource produces to the client              *)
(*   in     receives from the client                                       *)
(*   keep   keepalive frames (workspace shells)                            *)
(* sock is the handler: its kind and step, the close code, the client; res *)
(* the shell, the upstream connection or the subscription, conn the SSH    *)
(* connection below a remote shell; flow what was produced, read and sent. *)
(***************************************************************************)
EXTENDS Naturals

CONSTANTS SockKinds,   \* subset of {"host", "workspace", "desktop", "events"}
          MaxOut,      \* bound on output
          MaxIn        \* bound on messages of the client

VARIABLES sock, task, res, conn, flow, lock

sockVars == <<sock, task, res, conn, flow, lock>>

Tasks   == {"out", "in", "keep"}
Shells  == {"host", "workspace"}
Alive(t) == task[t] \in {"run", "lock", "send"}
Finished(t) == task[t] \in {"done", "fail", "msg"}
IsShell == sock.kind \in Shells

SocketsInit ==
  /\ sock \in [kind : SockKinds, ssh : BOOLEAN, pc : {"auth"}, code : {0}, client : {"on"}, cancels : {0},
               early : {FALSE}, torn : {FALSE}, stubborn : BOOLEAN]
  /\ sock.ssh => sock.kind \in Shells
  /\ task = [t \in Tasks |-> "none"]
  /\ res = "none" /\ conn = "none" /\ lock = "free"
  /\ flow = [made |-> 0, sent |-> 0, in |-> 0]

SockAt(l) == sock.pc = l
SockGoto(l) == sock' = [sock EXCEPT !.pc = l]
Connected == sock.client = "on" /\ sock.code = 0

(* _close_silently; the first close code stays. *)
CloseGoto(code, l) == sock' = [sock EXCEPT !.code = IF @ = 0 THEN code ELSE @, !.pc = l]

(* No such user, resource or permission: closed with 1008, nothing opened. *)
socket_refused ==
  /\ SockAt("auth")
  /\ CloseGoto(1008, "returned")
  /\ UNCHANGED <<task, res, conn, flow, lock>>

socket_accepted ==
  /\ SockAt("auth") /\ SockGoto("open")
  /\ conn' = IF sock.ssh THEN "open" ELSE "none"          \* connect_managed_host
  /\ UNCHANGED <<task, res, flow, lock>>

(* create_process, websockets.connect or subscribe fails. *)
open_fails ==
  /\ SockAt("open")
  /\ CloseGoto(IF sock.kind = "desktop" THEN 1000 ELSE 1011, "returned")
  /\ conn' = IF conn = "open" THEN "closed" ELSE conn
  /\ UNCHANGED <<task, res, flow, lock>>

open_succeeds ==
  /\ SockAt("open") /\ SockGoto("loop")
  /\ res' = "open"
  /\ task' = [out |-> "run", in |-> "run", keep |-> IF sock.kind = "workspace" THEN "run" ELSE "none"]
  /\ UNCHANGED <<conn, flow, lock>>

-----------------------------------------------------------------------------
(* The client, and the resource: external. *)

client_leaves ==
  /\ sock.client = "on" /\ ~SockAt("auth")
  /\ sock' = [sock EXCEPT !.client = "gone"]
  /\ UNCHANGED <<task, res, conn, flow, lock>>

resource_produces ==
  /\ res = "open" /\ flow.made < MaxOut
  /\ flow' = [flow EXCEPT !.made = @ + 1]
  /\ UNCHANGED <<sock, task, res, conn, lock>>

resource_ends ==
  /\ \/ res = "open"
     \/ res = "ending" /\ ~sock.stubborn           \* ends on SIGTERM, unless it ignores it
  /\ res' = "gone"
  /\ UNCHANGED <<sock, task, conn, flow, lock>>

-----------------------------------------------------------------------------
(* The tasks. *)

SetTask(t, s) == task' = [task EXCEPT ![t] = s]

Unread == flow.made > flow.sent

(* Mutant: the forwarder stops with its shell, whatever is left to read. *)
EndOfOutput_early == res # "open"

EndOfOutput == res = "gone" /\ ~Unread

(* _forward_shell_output, forward_upstream_to_client, _forward_events *)
out_reads ==
  /\ task["out"] = "run" /\ Unread
  /\ SetTask("out", IF ~Connected THEN "done" ELSE IF sock.kind = "workspace" THEN "lock" ELSE "send")
  /\ UNCHANGED <<sock, res, conn, flow, lock>>

(* The forwarder of events asks for access again, and it is gone. *)
out_loses_access ==
  /\ sock.kind = "events" /\ task["out"] = "run" /\ Unread
  /\ SetTask("out", "done")
  /\ CloseGoto(1008, sock.pc)
  /\ UNCHANGED <<res, conn, flow, lock>>

(* Reading fails: read_host_shell and read_container_shell take an OSError *)
(* or a ValueError for the end of the output, another error ends the       *)
(* forwarder.                                                              *)
out_breaks ==
  /\ sock.kind # "events" /\ task["out"] = "run"
  /\ \/ SetTask("out", "done") /\ sock' = [sock EXCEPT !.torn = TRUE]
     \/ SetTask("out", "fail") /\ UNCHANGED sock
  /\ UNCHANGED <<res, conn, flow, lock>>

(* The event stream ends with the session, and closes the socket. *)
out_ends ==
  /\ task["out"] = "run" /\ EndOfOutput
  /\ SetTask("out", "done")
  /\ sock' = IF sock.kind = "events" /\ sock.code = 0 THEN [sock EXCEPT !.code = 1000] ELSE sock
  /\ UNCHANGED <<res, conn, flow, lock>>

(* Mutant: the send lock is not waited for. *)
MaySend_anyway == TRUE

MaySend == lock = "free"

takes_lock(t) ==
  /\ task[t] = "lock" /\ MaySend
  /\ lock' = t
  /\ SetTask(t, "send")
  /\ UNCHANGED <<sock, res, conn, flow>>

Unlocked(t) == lock' = IF lock = t THEN "free" ELSE lock

out_sends ==
  /\ task["out"] = "send"
  /\ \/ Connected /\ SetTask("out", "run") /\ flow' = [flow EXCEPT !.sent = @ + 1]
     \/ ~Connected /\ SetTask("out", IF sock.kind = "events" THEN "done" ELSE "fail") /\ UNCHANGED flow
  /\ Unlocked("out")
  /\ UNCHANGED <<sock, res, conn>>

(* _send_shell_keepalive *)
keep_wakes ==
  /\ task["keep"] = "run"
  /\ SetTask("keep", IF Connected THEN "lock" ELSE "done")
  /\ UNCHANGED <<sock, res, conn, flow, lock>>

keep_sends ==
  /\ task["keep"] = "send"
  /\ SetTask("keep", IF Connected THEN "run" ELSE "done")
  /\ Unlocked("keep")
  /\ UNCHANGED <<sock, res, conn, flow>>

(* receive_text; receive_from_client and upstream.send; _consume_websocket *)
in_receives ==
  /\ task["in"] = "run" /\ sock.client = "on" /\ flow.in < MaxIn
  /\ flow' = [flow EXCEPT !.in = @ + 1]
  /\ \/ IsShell /\ SetTask("in", "msg")
     \/ ~IsShell /\ ~(sock.kind = "desktop" /\ res = "gone") /\ SetTask("in", "run")
     \/ sock.kind = "desktop" /\ SetTask("in", "done")          \* empty, or not taken upstream
  /\ UNCHANGED <<sock, res, conn, lock>>

in_ends ==
  /\ task["in"] = "run" /\ sock.client = "gone"
  /\ SetTask("in", IF IsShell THEN "fail" ELSE "done")        \* WebSocketDisconnect
  /\ UNCHANGED <<sock, res, conn, flow, lock>>

-----------------------------------------------------------------------------
(* The handler wakes when the forwarder or the receiver is done. *)

loop_wakes ==
  /\ SockAt("loop") /\ (Finished("out") \/ Finished("in"))
  /\ \/ /\ IsShell /\ task["out"] = "done" /\ CloseGoto(1000, "shutdown")
     \/ /\ IsShell /\ task["out"] = "fail" /\ CloseGoto(1011, "shutdown")
     \/ /\ IsShell /\ ~Finished("out") /\ task["in"] = "fail" /\ SockGoto("shutdown")
     \/ /\ IsShell /\ ~Finished("out") /\ task["in"] = "msg" /\ SockGoto("write")
     \/ /\ ~IsShell /\ SockGoto("shutdown")
  /\ UNCHANGED <<task, res, conn, flow, lock>>

(* write_host_shell, resize_host_shell: the input is taken, ignored or not *)
(* yet noticed to be lost; or the pipe is broken.                          *)
shell_written ==
  /\ SockAt("write")
  /\ \/ SockGoto("loop") /\ SetTask("in", "run")
     \/ res # "open" /\ CloseGoto(1011, "shutdown") /\ UNCHANGED task
  /\ UNCHANGED <<res, conn, flow, lock>>

(* finally: the shell is told to end; the subscription is given up. *)
handler_shuts_down ==
  /\ SockAt("shutdown") /\ SockGoto("end_in")
  /\ res' = CASE IsShell /\ res = "open"      -> "ending"
              [] sock.kind = "events"         -> "gone"
              [] OTHER                        -> res
  /\ UNCHANGED <<task, conn, flow, lock>>

(* cancel_ws_task *)
Canceled(t) == IF Alive(t) THEN [task EXCEPT ![t] = "done"] ELSE task

handler_ends_in ==
  /\ SockAt("end_in") /\ SockGoto("end_keep")
  /\ task' = Canceled("in")
  /\ UNCHANGED <<res, conn, flow, lock>>

(* Mutant: the keepalive task is left to itself. *)
handler_ends_keep_not ==
  /\ SockAt("end_keep") /\ SockGoto("end_out")
  /\ UNCHANGED <<task, lock, res, conn, flow>>

handler_ends_keep ==
  /\ SockAt("end_keep") /\ SockGoto("end_out")
  /\ task' = Canceled("keep") /\ Unlocked("keep")
  /\ UNCHANGED <<res, conn, flow>>

(* finish_ws_reader_task: a second to finish, then it is canceled. *)
handler_ends_out ==
  /\ SockAt("end_out") /\ SockGoto("close")
  /\ task' = Canceled("out") /\ Unlocked("out")
  /\ UNCHANGED <<res, conn, flow>>

(* terminate, two seconds, kill; wait_closed; the upstream is closed. *)
handler_closes ==
  /\ SockAt("close")
  /\ IF sock.kind = "desktop" THEN CloseGoto(1000, "returned") ELSE SockGoto("returned")
  /\ res' = "gone"
  /\ conn' = IF conn = "open" THEN "closed" ELSE conn
  /\ UNCHANGED <<task, flow, lock>>

(* The server cancels the handler at one of its awaits.  While a task is   *)
(* awaited in cancel_ws_task the cancellation is taken for the task's.  In *)
(* open the connection is not yet anybody's; in close the processes are    *)
(* not waited for.                                                         *)
handler_canceled ==
  /\ sock.cancels = 0 /\ sock.pc \in {"open", "loop", "write", "end_in", "end_keep", "end_out", "close"}
  /\ sock' = [sock EXCEPT !.cancels = 1, !.early = SockAt("open"),
                !.pc = CASE SockAt("open")                   -> "returned"
                         [] SockAt("loop") \/ SockAt("write")    -> "shutdown"
                         [] SockAt("end_out") /\ IsShell     -> "close"
                         [] SockAt("close")                  -> "returned"
                         [] OTHER                        -> sock.pc]
  /\ conn' = IF SockAt("close") /\ conn = "open" THEN "closed" ELSE conn
  /\ res' = IF SockAt("close") /\ ~IsShell THEN "gone" ELSE res
  /\ UNCHANGED <<task, flow, lock>>

SocketsNext ==
  \/ socket_refused \/ socket_accepted \/ open_fails \/ open_succeeds
  \/ client_leaves \/ resource_produces \/ resource_ends
  \/ out_reads \/ out_loses_access \/ out_breaks \/ out_ends \/ out_sends \/ (\E t \in {"out", "keep"} : takes_lock(t))
  \/ keep_wakes \/ keep_sends \/ in_receives \/ in_ends
  \/ loop_wakes \/ shell_written \/ handler_shuts_down \/ handler_ends_in \/ handler_ends_keep
  \/ handler_ends_out \/ handler_closes \/ handler_canceled

SocketsSpec == SocketsInit /\ [][SocketsNext]_sockVars

-----------------------------------------------------------------------------
(* When a handler has returned nothing it opened is left: no shell, SSH    *)
(* connection, subscription or task - whoever ended first, the client, the *)
(* shell or the server (the finally blocks of the stream handlers).  A     *)
(* handler canceled while it opens leaves the connection; one canceled     *)
(* while it waits for its shell leaves a forwarder that ends with it.      *)
ReturnedLeavesNothing ==
  SockAt("returned") /\ ~sock.early =>
    /\ ~Alive("in") /\ ~Alive("keep") /\ res # "open" /\ conn # "open"
    /\ sock.cancels = 0 => ~Alive("out") /\ res # "ending"

(* Two tasks never send on one socket at the same time (send_lock). *)
OneSender == ~(task["out"] = "send" /\ task["keep"] = "send")

(* A shell that is closed as ended has had all of its output forwarded,    *)
(* but for one whose output could not be read (_forward_shell_output, the  *)
(* reader branch of the stream handlers).                                  *)
EndedIsForwarded ==
  IsShell /\ sock.code = 1000 /\ sock.client = "on" /\ sock.cancels = 0 /\ ~sock.torn => flow.sent = flow.made
=============================================================================
