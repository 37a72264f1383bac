----------------------------- MODULE FrameInbox -----------------------------
(***************************************************************************)
(* FrameInbox of src/lib.rs: the bounded queue between the session task,   *)
(* which pushes frames and closes the inbox, and RecvTrack::recv, which an *)
(* application task runs on another thread.  The queue is under a mutex,   *)
(* closed is an atomic of its own, and wake-ups go through tokio's Notify; *)
(* each of those is one step here.                                         *)
(***************************************************************************)
EXTENDS Integers, Sequences, FiniteSets, SequencesExt

CONSTANTS
  Receiver,    \* concurrent callers of recv on this track
  Cap,         \* VIDEO_RECV_CAP is 8, AUDIO_RECV_CAP is 50
  Video,       \* whether the track is video
  MaxFrames    \* bound: frames pushed

ASSUME InboxAssumption ==
  Receiver # {} /\ Cap \in Nat \ {0} /\ Video \in BOOLEAN /\ MaxFrames \in Nat

Frame == [number : 1..MaxFrames, keyframe : BOOLEAN]

VARIABLES
  queue,       \* FrameInbox::queue
  dropped,     \* FrameInbox::dropped
  closed,      \* FrameInbox::closed
  permit,      \* the permit notify_one stores when nobody waits
  drive,       \* where the session task is: ready, notifying, closing, done
  pushed,      \* frames pushed so far
  recv,        \* where each caller is
  swept,       \* notify_waiters ran since this caller created its future
  answer,      \* what the last finished recv of each caller returned
  last         \* number of the newest frame any recv returned

inboxVars == <<queue, dropped, closed, permit>>
vars == <<inboxVars, drive, pushed, recv, swept, answer, last>>

---------------------------------------------------------------------------
(* The session task *)

(* Variant: the front goes, whatever it is. *)
VictimFront == 1

(* The index the full queue gives up: the oldest delta of a video queue,    *)
(* otherwise its front.                                                     *)
Victim ==
  LET IsFirstDelta(k) == ~queue[k].keyframe /\ \A j \in 1..(k - 1) : queue[j].keyframe IN
  IF Video /\ \E k \in 1..Len(queue) : IsFirstDelta(k)
  THEN CHOOSE k \in 1..Len(queue) : IsFirstDelta(k) ELSE 1

(* Variant: off by one. *)
RoomLate == IF Len(queue) > Cap THEN RemoveAt(queue, Victim) ELSE queue

Room == IF Len(queue) >= Cap THEN RemoveAt(queue, Victim) ELSE queue

(* FrameInbox::push, the part under the lock.  Audio frames carry the flag *)
(* the sender set, and it is never read. *)
Push ==
  /\ drive = "ready" /\ pushed < MaxFrames
  /\ pushed' = pushed + 1
  /\ \E keyframe \in BOOLEAN :
       queue' = Append(Room, [number |-> pushed + 1, keyframe |-> keyframe])
  /\ dropped' = IF Len(queue) >= Cap THEN dropped + 1 ELSE dropped
  /\ drive' = "notifying"
  /\ UNCHANGED <<closed, permit, recv, swept, answer, last>>

(* Variant: only a parked caller is woken, no permit is left behind. *)
NotifyParkedOnly ==
  /\ drive = "notifying" /\ drive' = "ready"
  /\ recv' = [r \in Receiver |-> IF recv[r] = "parked" THEN "woken" ELSE recv[r]]
  /\ UNCHANGED <<inboxVars, pushed, swept, answer, last>>

(* notify_one: wake a parked caller, or leave one permit. *)
NotifyOne ==
  /\ drive = "notifying" /\ drive' = "ready"
  /\ IF \E r \in Receiver : recv[r] = "parked"
     THEN /\ \E r \in Receiver :
               recv[r] = "parked" /\ recv' = [recv EXCEPT ![r] = "woken"]
          /\ UNCHANGED permit
     ELSE permit' = TRUE /\ UNCHANGED recv
  /\ UNCHANGED <<queue, dropped, closed, pushed, swept, answer, last>>

(* FrameInbox::close, the store.  The route is gone: nothing pushes after. *)
Close ==
  /\ drive = "ready" /\ drive' = "closing"
  /\ closed' = TRUE
  /\ UNCHANGED <<queue, dropped, permit, pushed, recv, swept, answer, last>>

(* Variant: a future that was created and not polled yet is forgotten. *)
NotifyPolledWaiters ==
  /\ drive = "closing" /\ drive' = "done"
  /\ recv' = [r \in Receiver |-> IF recv[r] = "parked" THEN "released" ELSE recv[r]]
  /\ UNCHANGED <<inboxVars, pushed, swept, answer, last>>

(* notify_waiters: wakes the parked, and every future already created. *)
NotifyWaiters ==
  /\ drive = "closing" /\ drive' = "done"
  /\ recv' = [r \in Receiver |-> IF recv[r] = "parked" THEN "released" ELSE recv[r]]
  /\ swept' = [r \in Receiver |-> recv[r] # "idle"]
  /\ UNCHANGED <<inboxVars, pushed, answer, last>>

---------------------------------------------------------------------------
(* RecvTrack::recv *)

Goto(r, place) == recv' = [recv EXCEPT ![r] = place]

(* Each turn of the loop creates a fresh future. *)
StartTurn(r) == Goto(r, "popping") /\ swept' = [swept EXCEPT ![r] = FALSE]

Call(r) ==
  /\ recv[r] = "idle" /\ answer[r] # "closed"
  /\ StartTurn(r)
  /\ answer' = [answer EXCEPT ![r] = "none"]
  /\ UNCHANGED <<inboxVars, drive, pushed, last>>

(* Variant: the wrong end. *)
PopBack(r) ==
  /\ recv[r] = "popping" /\ queue # <<>>
  /\ queue' = Front(queue)
  /\ last' = Last(queue).number
  /\ answer' = [answer EXCEPT ![r] = "frame"]
  /\ Goto(r, "idle")
  /\ UNCHANGED <<dropped, closed, permit, drive, pushed, swept>>

Pop(r) ==
  /\ recv[r] = "popping"
  /\ IF queue = <<>>
     THEN Goto(r, "checking") /\ UNCHANGED <<queue, answer, last>>
     ELSE /\ queue' = Tail(queue)
          /\ last' = Head(queue).number
          /\ answer' = [answer EXCEPT ![r] = "frame"]
          /\ Goto(r, "idle")
  /\ UNCHANGED <<dropped, closed, permit, drive, pushed, swept>>

CheckClosed(r) ==
  /\ recv[r] = "checking"
  /\ IF closed
     THEN answer' = [answer EXCEPT ![r] = "closed"] /\ Goto(r, "idle")
     ELSE Goto(r, "polling") /\ UNCHANGED answer
  /\ UNCHANGED <<inboxVars, drive, pushed, swept, last>>

(* The first poll of notified.await. *)
Poll(r) ==
  /\ recv[r] = "polling"
  /\ IF permit \/ swept[r]
     THEN StartTurn(r) ELSE Goto(r, "parked") /\ UNCHANGED swept
  /\ permit' = FALSE
  /\ UNCHANGED <<queue, dropped, closed, drive, pushed, answer, last>>

Resume(r) ==
  /\ recv[r] \in {"woken", "released"}
  /\ StartTurn(r)
  /\ UNCHANGED <<inboxVars, drive, pushed, answer, last>>

(* The application drops a recv that is suspended.  A notify_one it had but *)
(* did not use is handed to another waiter, or kept as the permit.          *)
Cancel(r) ==
  /\ recv[r] \in {"parked", "woken", "released"}
  /\ IF recv[r] # "woken"
     THEN Goto(r, "idle") /\ UNCHANGED permit
     ELSE IF \E s \in Receiver : recv[s] = "parked"
     THEN /\ \E s \in Receiver :
               recv[s] = "parked" /\ recv' = [recv EXCEPT ![r] = "idle", ![s] = "woken"]
          /\ UNCHANGED permit
     ELSE Goto(r, "idle") /\ permit' = TRUE
  /\ UNCHANGED <<queue, dropped, closed, drive, pushed, swept, answer, last>>

---------------------------------------------------------------------------
Init ==
  /\ queue = <<>> /\ dropped = 0 /\ closed = FALSE /\ permit = FALSE
  /\ drive = "ready" /\ pushed = 0
  /\ recv = [r \in Receiver |-> "idle"]
  /\ swept = [r \in Receiver |-> FALSE]
  /\ answer = [r \in Receiver |-> "none"]
  /\ last = 0

DriveNext == Push \/ NotifyOne \/ Close \/ NotifyWaiters
RecvNext(r) == Pop(r) \/ CheckClosed(r) \/ Poll(r) \/ Resume(r)

Next == DriveNext \/ \E r \in Receiver : Call(r) \/ RecvNext(r) \/ Cancel(r)

(* Both tasks are run by the scheduler while they can move; frames, the     *)
(* close and the next call of recv come when the network and the            *)
(* application choose.                                                      *)
Spec == Init /\ [][Next]_vars
FairSpec ==
  /\ Spec
  /\ WF_vars(NotifyOne) /\ WF_vars(NotifyWaiters)
  /\ \A r \in Receiver : WF_vars(RecvNext(r))

---------------------------------------------------------------------------
TypeOK ==
  /\ queue \in Seq(Frame) /\ Len(queue) <= Cap
  /\ dropped \in 0..MaxFrames /\ pushed \in 0..MaxFrames /\ last \in 0..MaxFrames
  /\ closed \in BOOLEAN /\ permit \in BOOLEAN
  /\ drive \in {"ready", "notifying", "closing", "done"}
  /\ recv \in [Receiver -> {"idle", "popping", "checking", "polling",
                          "parked", "woken", "released"}]
  /\ swept \in [Receiver -> BOOLEAN]
  /\ answer \in [Receiver -> {"none", "frame", "closed"}]

(* Frames never wait while every caller sleeps, and nobody sleeps on a      *)
(* closed inbox: the future is created before the queue is looked at, so a  *)
(* push between the look and the sleep leaves a permit, and a recv that is  *)
(* dropped after it was woken hands its wake-up on.                         *)
NoLostWakeup ==
  /\ (\A r \in Receiver : recv[r] = "parked") /\ queue # <<>> => drive = "notifying"
  /\ (\E r \in Receiver : recv[r] = "parked") /\ closed => drive = "closing"

(* Frames come out in the order they went in, with gaps only where the full *)
(* queue dropped some: the queue is sorted and newer than all it returned.  *)
InOrder ==
  /\ \A j, k \in 1..Len(queue) : j < k => queue[j].number < queue[k].number
  /\ \A k \in 1..Len(queue) : last < queue[k].number

(* "A full video queue drops the oldest delta and keeps the newest          *)
(* keyframe": no push removes the newest keyframe that waits.               *)
NewestKeyframeKept ==
  [][Video /\ pushed' # pushed =>
       \A k \in 1..Len(queue) :
         /\ queue[k].keyframe
         /\ \A j \in (k+1)..Len(queue) : ~queue[j].keyframe
         => \E j \in 1..Len(queue') : queue'[j] = queue[k]]_vars

(* When there is something to return and every caller is in recv, one of   *)
(* them comes out.  Not each of them: of two callers one may sleep on while *)
(* frames wait, until the other, which took the only permit, calls again.   *)
RecvReturns ==
  (\A r \in Receiver : recv[r] # "idle") /\ (queue # <<>> \/ closed)
    ~> (\E r \in Receiver : recv[r] = "idle")

(* DESIGN.md: "Queued receive frames are delivered before RecvTrack::recv   *)
(* returns Closed."                                                         *)
FramesBeforeClosed == \A r \in Receiver : answer[r] = "closed" => queue = <<>>
=============================================================================
