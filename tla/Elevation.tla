----------------------------- MODULE Elevation -----------------------------
(***************************************************************************)
(* Restarting with or without administrator rights (change_elevation.rs):  *)
(* the program starts itself again and waits until the new process, the    *)
(* child, has told it over a TCP connection that it runs, and then exits.  *)
(* One thread waits for the connection, the other for the child to end; if *)
(* it does, the first thread has to be made to give up.                    *)
(***************************************************************************)
EXTENDS Naturals, Sequences

CONSTANT
    MaxFailures     \* bound: calls of Windows that fail

ASSUME ElevationAssumption == MaxFailures \in Nat

VARIABLES
    parent,         \* where set_elevation is
    acceptor,       \* where the thread that it has spawned is
    backlog,        \* who has connected and was not accepted
    stream,         \* whose connection was accepted
    shared_stream,  \* whether the other thread can see it
    shut,           \* whether it was shut down
    cancel,
    errors,         \* the channel: how many errors are in it
    child,          \* how far the child is
    confirmed,      \* whether it has written its message
    failures,
    unwatched,      \* history: the child can no longer be waited for, or be accepted
    stuck           \* history: accept could not be unblocked

elevation_vars == <<parent, acceptor, backlog, stream, shared_stream, shut, cancel, errors,
          child, confirmed, failures, unwatched, stuck>>

child_vars == <<child, confirmed>>
history == <<unwatched, stuck>>
-----------------------------------------------------------------------------
Connections == {"child", "parent"}

ParentAlive == parent # "exited"
InAcceptor(pc) == ParentAlive /\ acceptor = pc

Fail ==
    /\ failures < MaxFailures
    /\ failures' = failures + 1
-----------------------------------------------------------------------------
(***************************************************************************)
(* The child: AdminRestart.handle_startup.                                 *)
(***************************************************************************)
Connect ==
    /\ child = "starting"
    /\ parent \notin {"returned", "exited"}
    /\ child' = "connected"
    /\ backlog' = Append(backlog, "child")
    /\ UNCHANGED <<parent, acceptor, stream, shared_stream, shut, cancel, errors, confirmed,
                   failures, history>>

Confirm ==
    /\ child = "connected"
    /\ child' = "running"
    /\ confirmed' = TRUE
    /\ UNCHANGED <<parent, acceptor, backlog, stream, shared_stream, shut, cancel, errors,
                   failures, history>>

(* It could not connect or write, the user ends it or it crashes. *)
EndChild ==
    /\ child # "ended"
    /\ child' = "ended"
    /\ UNCHANGED <<parent, acceptor, backlog, stream, shared_stream, shut, cancel, errors,
                   confirmed, failures, history>>
-----------------------------------------------------------------------------
(***************************************************************************)
(* The thread that waits for the connection.                               *)
(***************************************************************************)
OtherThanAcceptor == <<parent, shut, cancel, child_vars>>

Accept ==
    /\ InAcceptor("accept")
    /\ backlog # <<>>
    /\ acceptor' = "accepted"
    /\ stream' = Head(backlog)
    /\ backlog' = Tail(backlog)
    /\ UNCHANGED <<shared_stream, errors, failures, history, OtherThanAcceptor>>

AcceptFails ==
    /\ InAcceptor("accept")
    /\ Fail
    /\ acceptor' = "ended"
    /\ errors' = errors + 1
    /\ unwatched' = TRUE
    /\ UNCHANGED <<backlog, stream, shared_stream, stuck, OtherThanAcceptor>>

ShareStream ==
    /\ InAcceptor("accepted")
    /\ acceptor' = "shared"
    /\ shared_stream' = TRUE
    /\ UNCHANGED <<backlog, stream, errors, failures, history, OtherThanAcceptor>>

CheckCancel ==
    /\ InAcceptor("shared")
    /\ acceptor' = IF cancel THEN "ended" ELSE "reading"
    /\ UNCHANGED <<backlog, stream, shared_stream, errors, failures, history, OtherThanAcceptor>>

(* Mutant: whoever connects is taken for the child that has started. *)
ReadNothing ==
    /\ InAcceptor("reading")
    /\ parent' = "exited"
    /\ UNCHANGED <<acceptor, backlog, stream, shared_stream, shut, cancel, errors, child_vars,
                   failures, history>>

(* The message is read: the process exits, whatever its other thread does. *)
ReadMessage ==
    /\ InAcceptor("reading")
    /\ stream = "child" /\ confirmed
    /\ parent' = "exited"
    /\ UNCHANGED <<acceptor, backlog, stream, shared_stream, shut, cancel, errors, child_vars,
                   failures, history>>

(* The connection was closed or shut down. *)
ReadFails ==
    /\ InAcceptor("reading")
    /\ shut \/ stream = "parent" \/ (child = "ended" /\ ~confirmed)
    /\ acceptor' = "ended"
    /\ errors' = errors + 1
    /\ UNCHANGED <<backlog, stream, shared_stream, failures, history, OtherThanAcceptor>>
-----------------------------------------------------------------------------
(***************************************************************************)
(* set_elevation.                                                          *)
(***************************************************************************)
OtherThanParent == <<acceptor, stream, shared_stream, child_vars>>

(* wait_for *)
ChildEnded ==
    /\ parent = "waiting"
    /\ child = "ended"
    /\ parent' = "cancelling"
    /\ UNCHANGED <<backlog, shut, cancel, errors, failures, history, OtherThanParent>>

WaitFails ==
    /\ parent = "waiting"
    /\ Fail
    /\ parent' = "cancelling"
    /\ unwatched' = TRUE
    /\ UNCHANGED <<backlog, shut, cancel, errors, stuck, OtherThanParent>>

TimedOut ==
    /\ parent = "waiting"
    /\ child # "ended"
    /\ parent' = "polling"
    /\ UNCHANGED <<backlog, shut, cancel, errors, failures, history, OtherThanParent>>

(* try_recv: an error that the thread has sent ends the wait. *)
Poll ==
    /\ parent = "polling"
    /\ IF errors = 0
       THEN /\ parent' = "waiting"
            /\ UNCHANGED errors
       ELSE /\ parent' = "joining"
            /\ errors' = errors - 1
    /\ UNCHANGED <<backlog, shut, cancel, failures, history, OtherThanParent>>

StoreCancel ==
    /\ parent = "cancelling"
    /\ parent' = "unblocking"
    /\ cancel' = TRUE
    /\ UNCHANGED <<backlog, shut, errors, failures, history, OtherThanParent>>

(* Mutant: a thread that has not accepted is left alone. *)
ShutdownOnly ==
    /\ parent = "unblocking"
    /\ parent' = "receiving"
    /\ shut' = shared_stream
    /\ UNCHANGED <<backlog, cancel, errors, failures, history, OtherThanParent>>

(* The stream is shut down, or the listener connected to if there is none. *)
Unblock ==
    /\ parent = "unblocking"
    /\ parent' = "receiving"
    /\ shut' = shared_stream
    /\ backlog' = IF shared_stream THEN backlog ELSE Append(backlog, "parent")
    /\ UNCHANGED <<cancel, errors, failures, history, OtherThanParent>>

UnblockFails ==
    /\ parent = "unblocking"
    /\ ~shared_stream
    /\ Fail
    /\ parent' = "receiving"
    /\ stuck' = TRUE
    /\ UNCHANGED <<backlog, shut, cancel, errors, unwatched, OtherThanParent>>

(* recv_timeout: an error, the end of the thread or ten seconds. *)
RecvTimeout ==
    /\ parent = "receiving"
    /\ parent' = "joining"
    /\ errors' \in {errors, IF errors > 0 THEN errors - 1 ELSE 0}
    /\ UNCHANGED <<backlog, shut, cancel, failures, history, OtherThanParent>>

(* The end of the scope, which waits for the thread. *)
Join ==
    /\ parent = "joining"
    /\ acceptor = "ended"
    /\ parent' = "returned"
    /\ UNCHANGED <<backlog, shut, cancel, errors, failures, history, OtherThanParent>>
-----------------------------------------------------------------------------
InitElevation ==
    /\ parent = "waiting"
    /\ acceptor = "accept"
    /\ backlog = <<>>
    /\ stream = "none" /\ shared_stream = FALSE /\ shut = FALSE
    /\ cancel = FALSE
    /\ errors = 0
    /\ child = "starting"
    /\ confirmed = FALSE
    /\ failures = 0
    /\ unwatched = FALSE /\ stuck = FALSE

Child == Connect \/ Confirm \/ EndChild
Failures == AcceptFails \/ WaitFails \/ UnblockFails
Acceptor == Accept \/ ShareStream \/ CheckCancel \/ ReadMessage \/ ReadFails
Parent ==
    \/ ChildEnded \/ TimedOut \/ Poll \/ StoreCancel \/ Unblock \/ RecvTimeout \/ Join

NextElevation == Child \/ Failures \/ Acceptor \/ Parent

ElevationSpec == InitElevation /\ [][NextElevation]_elevation_vars

(* The program's threads run and calls need not fail; the child need not   *)
(* do anything.                                                            *)
FairElevation == ElevationSpec /\ WF_elevation_vars(Acceptor) /\ WF_elevation_vars(Parent)
-----------------------------------------------------------------------------
ElevationTypeOK ==
    /\ parent \in {"waiting", "polling", "cancelling", "unblocking", "receiving", "joining",
                   "returned", "exited"}
    /\ acceptor \in {"accept", "accepted", "shared", "reading", "ended"}
    /\ backlog \in Seq(Connections)
    /\ stream \in Connections \cup {"none"}
    /\ shared_stream \in BOOLEAN /\ shut \in BOOLEAN /\ cancel \in BOOLEAN
    /\ errors \in 0..1
    /\ child \in {"starting", "connected", "running", "ended"}
    /\ confirmed \in BOOLEAN
    /\ failures \in 0..MaxFailures
    /\ unwatched \in BOOLEAN /\ stuck \in BOOLEAN

(* "Only one instance of the app should be running": the program exits     *)
(* only after a child has confirmed that it runs, and it goes on without   *)
(* another thread only when the child has ended, or when Windows fails to  *)
(* tell the program about it.                                              *)
OneGoesOn ==
    /\ parent = "exited" => confirmed
    /\ parent = "returned" => acceptor = "ended" /\ (child = "ended" \/ unwatched)

(* Once the child has confirmed or ended, set_elevation ends, however far  *)
(* either thread is then, unless the thread in accept cannot be reached.   *)
ElevationEnds ==
    child = "ended" \/ confirmed ~> parent \in {"returned", "exited"} \/ stuck
=============================================================================
