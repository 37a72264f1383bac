------------------------- MODULE ReceivePartsProofs -------------------------
(***************************************************************************)
(* The parts of a receiver.  The inbox keeps its order and its newest      *)
(* keyframe and loses no wake-up, for every capacity of two or more,       *)
(* however many callers and frames.  Two sides of a handshake that settle  *)
(* agree, no nonce is used twice, and the replay window is exact: for      *)
(* every size of window, number of frames and set of keys.  The NACK       *)
(* requester knows what is missing and names in its packets what it asks   *)
(* for: for every space of sequence numbers and every order of arrivals.   *)
(* The parity repair protects every datagram of a block once, and leaves   *)
(* nothing lost that a row can give back: for every block and capacity.    *)
(***************************************************************************)
EXTENDS MCReceiveParts, Induction

---------------------------------------------------------------------------
(* The inbox *)

(* What was pushed bounds what was dropped and what may come out. *)
InboxTyped ==
  /\ TypeOK
  /\ dropped <= pushed /\ last <= pushed
  /\ \A k \in 1..Len(queue) : queue[k].number <= pushed

(* A caller that will look at the queue before it sleeps. *)
WillLook(r) ==
  \/ recv[r] \in {"idle", "popping", "woken", "released"}
  \/ recv[r] \in {"checking", "polling"} /\ swept[r]

(* Unread frames have a permit or a caller on its way to them; a permit is  *)
(* left only when nobody is parked; and once the waiters were notified      *)
(* nobody parks.                                                            *)
WakeInv ==
  /\ queue # <<>> /\ drive # "notifying" => permit \/ \E r \in Receiver : WillLook(r)
  /\ permit => \A r \in Receiver : recv[r] # "parked"
  /\ closed <=> drive \in {"closing", "done"}
  /\ drive = "done" =>
       \A r \in Receiver : recv[r] # "parked" /\ (recv[r] = "polling" => swept[r])

InboxInv == InboxTyped /\ InOrder /\ WakeInv

---------------------------------------------------------------------------
(* What a full queue gives up is in it.  When the newest keyframe of a      *)
(* video queue of two or more is its front, a delta follows it and goes.    *)
LEMMA VictimProperties ==
  ASSUME queue \in Seq(Frame), queue # <<>>
  PROVE  /\ Victim \in 1..Len(queue)
         /\ Video /\ Len(queue) > 1 /\ queue[Victim].keyframe
              => \E j \in (Victim + 1)..Len(queue) : queue[j].keyframe
<1>. DEFINE First(k) == ~queue[k].keyframe /\ \A j \in 1..(k - 1) : queue[j].keyframe
<1>1. Len(queue) \in Nat \ {0}
  BY EmptySeq, LenProperties
<1>2. CASE Video /\ \E k \in 1..Len(queue) : First(k)
  <2>1. Victim \in 1..Len(queue) /\ First(Victim)
    BY <1>2 DEF Victim
  <2>. QED  BY <2>1
<1>3. CASE ~(Video /\ \E k \in 1..Len(queue) : First(k))
  <2>1. Victim = 1
    BY <1>3 DEF Victim
  <2>2. ASSUME Video, Len(queue) > 1, queue[1].keyframe
        PROVE  queue[2].keyframe
    <3>1. 2 \in 1..Len(queue) /\ \A j \in 1..(2 - 1) : queue[j].keyframe
      BY <1>1, <2>2
    <3>. QED  BY <1>3, <2>2, <3>1
  <2>3. ASSUME Video, Len(queue) > 1, queue[Victim].keyframe
        PROVE  \E j \in (Victim + 1)..Len(queue) : queue[j].keyframe
    <3>1. 2 \in (Victim + 1)..Len(queue)
      BY <1>1, <2>1, <2>3
    <3>. QED  BY <2>1, <2>2, <2>3, <3>1
  <2>. QED  BY <1>1, <2>1, <2>3
<1>. QED  BY <1>2, <1>3

(* Room is a part of the queue, in order, with a place for one more. *)
LEMMA RoomProperties ==
  ASSUME queue \in Seq(Frame), Len(queue) <= Cap
  PROVE  /\ Room \in Seq(Frame) /\ Len(Room) < Cap
         /\ \A j \in 1..Len(Room) : \E k \in 1..Len(queue) : Room[j] = queue[k]
         /\ (\A j, k \in 1..Len(queue) : j < k => queue[j].number < queue[k].number)
              => \A j, k \in 1..Len(Room) : j < k => Room[j].number < Room[k].number
<1>0. Len(queue) \in Nat /\ Cap \in Nat \ {0}
  BY InboxAssumption, LenProperties
<1>1. CASE Len(queue) < Cap
  BY <1>0, <1>1 DEF Room
<1>2. CASE Len(queue) >= Cap
  <2>1. queue # <<>> /\ Len(queue) = Cap /\ Room = RemoveAt(queue, Victim)
    BY <1>0, <1>2, EmptySeq DEF Room
  <2>2. Victim \in 1..Len(queue)
    BY <2>1, VictimProperties
  <2>3. /\ Room \in Seq(Frame) /\ Len(Room) = Len(queue) - 1
        /\ \A j \in 1..Len(Room) : Room[j] = IF j < Victim THEN queue[j] ELSE queue[j + 1]
    BY <2>1, <2>2, RemoveAtProperties
  <2>4. ASSUME NEW j \in 1..Len(Room)
        PROVE  \E k \in 1..Len(queue) : Room[j] = queue[k]
    BY <1>0, <2>3
  <2>5. ASSUME \A j, k \in 1..Len(queue) : j < k => queue[j].number < queue[k].number,
               NEW j \in 1..Len(Room), NEW k \in 1..Len(Room), j < k
        PROVE  Room[j].number < Room[k].number
    <3>. DEFINE p(i) == IF i < Victim THEN i ELSE i + 1
    <3>1. p(j) \in 1..Len(queue) /\ p(k) \in 1..Len(queue) /\ p(j) < p(k)
      BY <1>0, <2>2, <2>3, <2>5
    <3>2. Room[j] = queue[p(j)] /\ Room[k] = queue[p(k)]
      BY <2>3
    <3>. QED  BY <2>5, <3>1, <3>2
  <2>. QED  BY <1>0, <2>1, <2>3, <2>4, <2>5
<1>. QED  BY <1>0, <1>1, <1>2

---------------------------------------------------------------------------
LEMMA InitInbox == Init => InboxInv
<1>. SUFFICES ASSUME Init PROVE InboxInv
  OBVIOUS
<1>1. queue \in Seq(Frame) /\ Len(queue) = 0
  BY EmptySeq DEF Init
<1>2. InboxTyped
  <2>. MaxFrames \in Nat /\ Cap \in Nat \ {0}
    BY InboxAssumption
  <2>0. 0 \in 0..MaxFrames /\ Len(queue) <= Cap
    BY <1>1
  <2>1. TypeOK
    BY <1>1, <2>0 DEF TypeOK, Init
  <2>2. 1..Len(queue) = {}
    BY <1>1
  <2>. QED  BY <2>1, <2>2 DEF InboxTyped, Init
<1>3. InOrder
  BY <1>1 DEF InOrder
<1>4. WakeInv
  BY DEF WakeInv, Init
<1>. QED  BY <1>2, <1>3, <1>4 DEF InboxInv

(* The steps that leave the queue alone leave its order alone. *)
LEMMA QueueUnchanged ==
  ASSUME InboxInv, UNCHANGED <<queue, dropped, pushed, last>>,
         closed' \in BOOLEAN, permit' \in BOOLEAN,
         drive' \in {"ready", "notifying", "closing", "done"},
         recv' \in [Receiver -> {"idle", "popping", "checking", "polling",
                                 "parked", "woken", "released"}],
         swept' \in [Receiver -> BOOLEAN],
         answer' \in [Receiver -> {"none", "frame", "closed"}]
  PROVE  InboxTyped' /\ InOrder'
<1>1. InboxTyped'
  BY DEF InboxInv, InboxTyped, TypeOK
<1>2. InOrder'
  BY DEF InboxInv, InOrder
<1>. QED  BY <1>1, <1>2

(* push: the frame goes behind all the others, and is the newest. *)
LEMMA PushKeeps ==
  ASSUME InboxInv, Push
  PROVE  InboxInv'
<1>1. TypeOK /\ InOrder /\ WakeInv /\ dropped <= pushed /\ last <= pushed
      /\ \A k \in 1..Len(queue) : queue[k].number <= pushed
  BY DEF InboxInv, InboxTyped
<1>2. queue \in Seq(Frame) /\ Len(queue) <= Cap /\ pushed \in Nat /\ MaxFrames \in Nat
      /\ Cap \in Nat /\ pushed < MaxFrames /\ pushed' = pushed + 1
  BY InboxAssumption, <1>1 DEF TypeOK, Push
<1>3. PICK keyframe \in BOOLEAN :
        queue' = Append(Room, [number |-> pushed + 1, keyframe |-> keyframe])
  BY DEF Push
<1>. DEFINE frame == [number |-> pushed + 1, keyframe |-> keyframe]
<1>. DEFINE room == Room
<1>4. frame \in Frame /\ frame.number = pushed + 1
  BY <1>2 DEF Frame
<1>5. /\ room \in Seq(Frame) /\ Len(room) < Cap
      /\ \A j \in 1..Len(room) : \E k \in 1..Len(queue) : room[j] = queue[k]
      /\ \A j, k \in 1..Len(room) : j < k => room[j].number < room[k].number
  BY <1>1, <1>2, RoomProperties DEF InOrder
<1>. HIDE DEF room, frame
<1>6. /\ queue' \in Seq(Frame) /\ Len(queue') = Len(room) + 1 /\ queue'[Len(room) + 1] = frame
      /\ \A j \in 1..Len(room) : queue'[j] = room[j]
  BY <1>3, <1>4, <1>5, AppendProperties DEF room, frame
<1>7. Len(room) \in Nat /\ 1..Len(queue') = 1..Len(room) \union {Len(room) + 1}
  BY <1>5, <1>6, LenProperties
<1>8. \A j \in 1..Len(room) :
        /\ room[j].number <= pushed /\ last < room[j].number /\ room[j].number \in Nat
  <2>1. ASSUME NEW k \in 1..Len(queue)
        PROVE  queue[k].number <= pushed /\ last < queue[k].number /\ queue[k].number \in Nat
    <3>1. queue[k] \in Frame
      BY <1>2
    <3>. QED  BY <1>1, <3>1 DEF InOrder, Frame
  <2>. QED  BY <1>5, <2>1
<1>9. InboxTyped'
  <2>1. dropped' \in 0..MaxFrames /\ dropped' <= pushed' /\ pushed' \in 0..MaxFrames
    BY <1>1, <1>2 DEF Push, TypeOK
  <2>2. last' = last /\ last <= pushed' /\ last \in 0..MaxFrames
    BY <1>1, <1>2 DEF Push, TypeOK
  <2>3. \A k \in 1..Len(queue') : queue'[k].number <= pushed'
    BY <1>2, <1>4, <1>6, <1>7, <1>8
  <2>4. Len(queue') <= Cap
    BY <1>2, <1>5, <1>6, <1>7
  <2>5. /\ closed' \in BOOLEAN /\ permit' \in BOOLEAN /\ drive' = "notifying"
        /\ recv' = recv /\ swept' = swept /\ answer' = answer
    BY <1>1 DEF Push, TypeOK
  <2>. QED  BY <1>1, <1>6, <2>1, <2>2, <2>3, <2>4, <2>5 DEF InboxTyped, TypeOK
<1>10. InOrder'
  <2>1. ASSUME NEW j \in 1..Len(queue'), NEW k \in 1..Len(queue'), j < k
        PROVE  queue'[j].number < queue'[k].number
    <3>1. j \in 1..Len(room)
      BY <1>7, <2>1
    <3>2. CASE k \in 1..Len(room)
      BY <1>5, <1>6, <2>1, <3>1, <3>2
    <3>3. CASE k = Len(room) + 1
      BY <1>2, <1>4, <1>6, <1>8, <3>1, <3>3
    <3>. QED  BY <1>7, <3>2, <3>3
  <2>2. \A k \in 1..Len(queue') : last < queue'[k].number
    BY <1>1, <1>2, <1>4, <1>6, <1>7, <1>8 DEF TypeOK
  <2>3. last' = last
    BY DEF Push
  <2>. QED  BY <2>1, <2>2, <2>3 DEF InOrder
<1>11. WakeInv'
  BY <1>1 DEF WakeInv, Push
<1>. QED  BY <1>9, <1>10, <1>11 DEF InboxInv

(* The other steps of the session task: notify_one, and the two halves of close. *)
LEMMA NotifyKeeps ==
  ASSUME InboxInv, NotifyOne \/ Close \/ NotifyWaiters
  PROVE  InboxInv'
<1>1. TypeOK /\ WakeInv
  BY DEF InboxInv, InboxTyped
<1>2. CASE NotifyOne
  <2>1. CASE \E r \in Receiver : recv[r] = "parked"
    <3>1. PICK r \in Receiver : recv[r] = "parked" /\ recv' = [recv EXCEPT ![r] = "woken"]
      BY <1>2, <2>1 DEF NotifyOne
    <3>2. UNCHANGED <<queue, dropped, closed, pushed, swept, answer, last, permit>>
          /\ drive = "notifying" /\ drive' = "ready"
      BY <1>2, <2>1 DEF NotifyOne
    <3>3. recv'[r] = "woken" /\ \A s \in Receiver : s # r => recv'[s] = recv[s]
      BY <1>1, <3>1 DEF TypeOK
    <3>4. InboxTyped' /\ InOrder'
      BY <1>1, <3>1, <3>2, QueueUnchanged DEF TypeOK
    <3>5. WakeInv'
      BY <1>1, <3>2, <3>3 DEF WakeInv, WillLook
    <3>. QED  BY <3>4, <3>5 DEF InboxInv
  <2>2. CASE ~ \E r \in Receiver : recv[r] = "parked"
    <3>1. UNCHANGED <<queue, dropped, closed, pushed, swept, answer, last, recv>>
          /\ permit' = TRUE /\ drive = "notifying" /\ drive' = "ready"
      BY <1>2, <2>2 DEF NotifyOne
    <3>2. InboxTyped' /\ InOrder'
      BY <1>1, <3>1, QueueUnchanged DEF TypeOK
    <3>3. WakeInv'
      BY <1>1, <2>2, <3>1 DEF WakeInv
    <3>. QED  BY <3>2, <3>3 DEF InboxInv
  <2>. QED  BY <2>1, <2>2
<1>3. CASE Close
  <2>1. UNCHANGED <<queue, dropped, permit, pushed, recv, swept, answer, last>>
        /\ closed' = TRUE /\ drive = "ready" /\ drive' = "closing"
    BY <1>3 DEF Close
  <2>2. InboxTyped' /\ InOrder'
    BY <1>1, <2>1, QueueUnchanged DEF TypeOK
  <2>3. WakeInv'
    BY <1>1, <2>1 DEF WakeInv, WillLook
  <2>. QED  BY <2>2, <2>3 DEF InboxInv
<1>4. CASE NotifyWaiters
  <2>1. UNCHANGED <<queue, dropped, closed, permit, pushed, answer, last>>
        /\ drive = "closing" /\ drive' = "done"
        /\ recv' = [r \in Receiver |-> IF recv[r] = "parked" THEN "released" ELSE recv[r]]
        /\ swept' = [r \in Receiver |-> recv[r] # "idle"]
    BY <1>4 DEF NotifyWaiters, inboxVars
  <2>2. \A r \in Receiver :
          /\ recv'[r] = IF recv[r] = "parked" THEN "released" ELSE recv[r]
          /\ swept'[r] <=> recv[r] # "idle"
    BY <2>1
  <2>3. recv' \in [Receiver -> {"idle", "popping", "checking", "polling",
                                "parked", "woken", "released"}]
    BY <1>1, <2>1 DEF TypeOK
  <2>4. InboxTyped' /\ InOrder'
    BY <1>1, <2>1, <2>3, QueueUnchanged DEF TypeOK
  <2>5. \A r \in Receiver : WillLook(r) => WillLook(r)'
    BY <2>2 DEF WillLook
  <2>6. WakeInv'
    BY <1>1, <2>1, <2>2, <2>5 DEF WakeInv
  <2>. QED  BY <2>4, <2>6 DEF InboxInv
<1>. QED  BY <1>2, <1>3, <1>4
---------------------------------------------------------------------------
(* Pop: the front goes, which is older than all the rest. *)
LEMMA PopKeeps ==
  ASSUME InboxInv, NEW r \in Receiver, Pop(r)
  PROVE  InboxInv'
<1>1. TypeOK /\ InOrder /\ WakeInv /\ dropped <= pushed /\ last <= pushed
      /\ \A k \in 1..Len(queue) : queue[k].number <= pushed
  BY DEF InboxInv, InboxTyped
<1>2. UNCHANGED <<dropped, closed, permit, drive, pushed, swept>> /\ recv[r] = "popping"
  BY DEF Pop
<1>3. CASE queue = <<>>
  <2>1. UNCHANGED <<queue, answer, last>> /\ recv' = [recv EXCEPT ![r] = "checking"]
    BY <1>3 DEF Pop, Goto
  <2>2. /\ recv' \in [Receiver -> {"idle", "popping", "checking", "polling",
                                   "parked", "woken", "released"}]
        /\ recv'[r] = "checking" /\ \A s \in Receiver : s # r => recv'[s] = recv[s]
    BY <1>1, <2>1 DEF TypeOK
  <2>3. InboxTyped' /\ InOrder'
    BY <1>1, <1>2, <2>1, <2>2, QueueUnchanged DEF TypeOK
  <2>4. WakeInv'
    BY <1>1, <1>2, <1>3, <2>1, <2>2 DEF WakeInv
  <2>. QED  BY <2>3, <2>4 DEF InboxInv
<1>4. CASE queue # <<>>
  <2>1. /\ queue' = Tail(queue) /\ last' = Head(queue).number
        /\ answer' = [answer EXCEPT ![r] = "frame"] /\ recv' = [recv EXCEPT ![r] = "idle"]
    BY <1>4 DEF Pop, Goto
  <2>2. /\ recv' \in [Receiver -> {"idle", "popping", "checking", "polling",
                                   "parked", "woken", "released"}]
        /\ recv'[r] = "idle" /\ \A s \in Receiver : s # r => recv'[s] = recv[s]
        /\ answer' \in [Receiver -> {"none", "frame", "closed"}]
    BY <1>1, <2>1 DEF TypeOK
  <2>3. /\ queue \in Seq(Frame) /\ Len(queue) \in Nat /\ Len(queue) <= Cap /\ Len(queue) >= 1
        /\ Head(queue) = queue[1]
    BY <1>1, <1>4, EmptySeq DEF TypeOK
  <2>4. /\ queue' \in Seq(Frame) /\ Len(queue') = Len(queue) - 1
        /\ \A k \in 1..Len(queue') : queue'[k] = queue[k + 1]
    BY <1>4, <2>1, <2>3, HeadTailProperties
  <2>5. last' = queue[1].number /\ last' \in Nat /\ last' <= pushed
    <3>1. 1 \in 1..Len(queue) /\ queue[1] \in Frame
      BY <2>3
    <3>. QED  BY <1>1, <2>1, <2>3, <3>1 DEF Frame
  <2>6. \A k \in 1..Len(queue') : k + 1 \in 1..Len(queue) /\ 1 < k + 1
    BY <2>3, <2>4
  <2>7. InboxTyped'
    <3>1. Len(queue') <= Cap
      BY InboxAssumption, <2>3, <2>4
    <3>2. last' \in 0..MaxFrames
      <4>1. pushed \in 0..MaxFrames /\ MaxFrames \in Nat
        BY InboxAssumption, <1>1 DEF TypeOK
      <4>. QED  BY <2>5, <4>1
    <3>3. \A k \in 1..Len(queue') : queue'[k].number <= pushed
      BY <1>1, <2>4, <2>6
    <3>. QED  BY <1>1, <1>2, <2>2, <2>4, <2>5, <3>1, <3>2, <3>3 DEF InboxTyped, TypeOK
  <2>8. InOrder'
    <3>1. ASSUME NEW j \in 1..Len(queue'), NEW k \in 1..Len(queue'), j < k
          PROVE  queue'[j].number < queue'[k].number
      BY <1>1, <2>4, <2>6, <3>1 DEF InOrder
    <3>2. ASSUME NEW k \in 1..Len(queue')
          PROVE  last' < queue'[k].number
      <4>1. 1 \in 1..Len(queue) /\ k + 1 \in 1..Len(queue) /\ 1 < k + 1
        BY <2>3, <2>6
      <4>. QED  BY <1>1, <2>4, <2>5, <4>1 DEF InOrder
    <3>. QED  BY <3>1, <3>2 DEF InOrder
  <2>9. WakeInv'
    BY <1>1, <1>2, <2>2 DEF WakeInv, WillLook
  <2>. QED  BY <2>7, <2>8, <2>9 DEF InboxInv
<1>. QED  BY <1>3, <1>4

(* A new turn of the loop looks at the queue first. *)
LEMMA StartTurnKeeps ==
  ASSUME InboxInv, NEW r \in Receiver, StartTurn(r), permit' \in BOOLEAN, permit' => permit,
         answer' \in [Receiver -> {"none", "frame", "closed"}],
         UNCHANGED <<queue, dropped, closed, drive, pushed, last>>
  PROVE  InboxInv'
<1>1. TypeOK /\ WakeInv
  BY DEF InboxInv, InboxTyped
<1>2. recv' = [recv EXCEPT ![r] = "popping"] /\ swept' = [swept EXCEPT ![r] = FALSE]
  BY DEF StartTurn, Goto
<1>3. /\ recv' \in [Receiver -> {"idle", "popping", "checking", "polling",
                                 "parked", "woken", "released"}]
      /\ swept' \in [Receiver -> BOOLEAN]
      /\ recv'[r] = "popping"
      /\ \A s \in Receiver : s # r => recv'[s] = recv[s] /\ swept'[s] = swept[s]
  BY <1>1, <1>2 DEF TypeOK
<1>4. InboxTyped' /\ InOrder'
  BY <1>1, <1>3, QueueUnchanged DEF TypeOK
<1>5. WakeInv'
  <2>1. WillLook(r)'
    BY <1>3 DEF WillLook
  <2>. QED  BY <1>1, <1>3, <2>1 DEF WakeInv
<1>. QED  BY <1>4, <1>5 DEF InboxInv

LEMMA RecvKeeps ==
  ASSUME InboxInv, NEW r \in Receiver, Call(r) \/ CheckClosed(r) \/ Poll(r) \/ Resume(r)
  PROVE  InboxInv'
<1>1. TypeOK /\ WakeInv
  BY DEF InboxInv, InboxTyped
<1>2. CASE Call(r) \/ Resume(r)
  <2>1. StartTurn(r) /\ UNCHANGED <<queue, dropped, closed, permit, drive, pushed, last>>
    BY <1>2 DEF Call, Resume, inboxVars
  <2>2. answer' \in [Receiver -> {"none", "frame", "closed"}]
    BY <1>1, <1>2 DEF Call, Resume, TypeOK
  <2>. QED  BY <1>1, <2>1, <2>2, StartTurnKeeps DEF TypeOK
<1>3. CASE CheckClosed(r)
  <2>1. UNCHANGED <<queue, dropped, closed, permit, drive, pushed, swept, last>>
        /\ recv[r] = "checking"
    BY <1>3 DEF CheckClosed, inboxVars
  <2>2. recv' = [recv EXCEPT ![r] = IF closed THEN "idle" ELSE "polling"]
        /\ answer' \in [Receiver -> {"none", "frame", "closed"}]
    BY <1>1, <1>3 DEF CheckClosed, Goto, TypeOK
  <2>3. /\ recv' \in [Receiver -> {"idle", "popping", "checking", "polling",
                                   "parked", "woken", "released"}]
        /\ recv'[r] = IF closed THEN "idle" ELSE "polling"
        /\ \A s \in Receiver : s # r => recv'[s] = recv[s]
    BY <1>1, <2>2 DEF TypeOK
  <2>4. InboxTyped' /\ InOrder'
    BY <1>1, <2>1, <2>2, <2>3, QueueUnchanged DEF TypeOK
  <2>5. \A s \in Receiver : WillLook(s) => WillLook(s)'
    BY <2>1, <2>3 DEF WillLook
  <2>6. WakeInv'
    BY <1>1, <2>1, <2>3, <2>5 DEF WakeInv
  <2>. QED  BY <2>4, <2>6 DEF InboxInv
<1>4. CASE Poll(r)
  <2>1. UNCHANGED <<queue, dropped, closed, drive, pushed, answer, last>>
        /\ permit' = FALSE /\ recv[r] = "polling"
    BY <1>4 DEF Poll
  <2>2. CASE permit \/ swept[r]
    BY <1>1, <1>4, <2>1, <2>2, StartTurnKeeps DEF Poll, TypeOK
  <2>3. CASE ~(permit \/ swept[r])
    <3>1. recv' = [recv EXCEPT ![r] = "parked"] /\ swept' = swept
      BY <1>4, <2>3 DEF Poll, Goto
    <3>2. /\ recv' \in [Receiver -> {"idle", "popping", "checking", "polling",
                                     "parked", "woken", "released"}]
          /\ recv'[r] = "parked" /\ \A s \in Receiver : s # r => recv'[s] = recv[s]
      BY <1>1, <3>1 DEF TypeOK
    <3>3. InboxTyped' /\ InOrder'
      BY <1>1, <2>1, <3>1, <3>2, QueueUnchanged DEF TypeOK
    <3>4. \A s \in Receiver : WillLook(s) => s # r /\ WillLook(s)'
      BY <2>1, <2>3, <3>1, <3>2 DEF WillLook
    <3>5. WakeInv'
      BY <1>1, <2>1, <2>3, <3>1, <3>2, <3>4 DEF WakeInv
    <3>. QED  BY <3>3, <3>5 DEF InboxInv
  <2>. QED  BY <2>2, <2>3
<1>. QED  BY <1>2, <1>3, <1>4

(* A recv that is dropped hands its wake-up on. *)
LEMMA CancelKeeps ==
  ASSUME InboxInv, NEW r \in Receiver, Cancel(r)
  PROVE  InboxInv'
<1>1. TypeOK /\ WakeInv
  BY DEF InboxInv, InboxTyped
<1>2. UNCHANGED <<queue, dropped, closed, drive, pushed, swept, answer, last>>
      /\ recv[r] \in {"parked", "woken", "released"}
  BY DEF Cancel
<1>3. CASE recv[r] = "woken" /\ \E s \in Receiver : recv[s] = "parked"
  <2>1. PICK s \in Receiver :
          recv[s] = "parked" /\ recv' = [recv EXCEPT ![r] = "idle", ![s] = "woken"]
    BY <1>3 DEF Cancel
  <2>2. permit' = permit
    BY <1>3 DEF Cancel
  <2>3. /\ recv' \in [Receiver -> {"idle", "popping", "checking", "polling",
                                   "parked", "woken", "released"}]
        /\ recv'[s] = "woken" /\ recv'[r] = "idle"
        /\ \A t \in Receiver : t # r /\ t # s => recv'[t] = recv[t]
    BY <1>1, <1>3, <2>1 DEF TypeOK
  <2>4. InboxTyped' /\ InOrder'
    BY <1>1, <1>2, <2>2, <2>3, QueueUnchanged DEF TypeOK
  <2>5. WakeInv'
    BY <1>1, <1>2, <2>2, <2>3 DEF WakeInv, WillLook
  <2>. QED  BY <2>4, <2>5 DEF InboxInv
<1>4. CASE ~(recv[r] = "woken" /\ \E s \in Receiver : recv[s] = "parked")
  <2>1. /\ recv' = [recv EXCEPT ![r] = "idle"] /\ permit' \in BOOLEAN
        /\ permit' = permit \/ \A s \in Receiver : recv[s] # "parked"
    BY <1>1, <1>4 DEF Cancel, Goto, TypeOK
  <2>2. /\ recv' \in [Receiver -> {"idle", "popping", "checking", "polling",
                                   "parked", "woken", "released"}]
        /\ recv'[r] = "idle" /\ \A s \in Receiver : s # r => recv'[s] = recv[s]
    BY <1>1, <2>1 DEF TypeOK
  <2>3. InboxTyped' /\ InOrder'
    BY <1>1, <1>2, <2>1, <2>2, QueueUnchanged DEF TypeOK
  <2>4. WakeInv'
    BY <1>1, <1>2, <2>1, <2>2 DEF WakeInv, WillLook
  <2>. QED  BY <2>3, <2>4 DEF InboxInv
<1>. QED  BY <1>3, <1>4

(* Every step preserves the invariant. *)
LEMMA NextKeepsInbox ==
  ASSUME InboxInv, [Next]_vars
  PROVE  InboxInv'
<1>1. CASE UNCHANGED vars
  <2>1. UNCHANGED <<queue, dropped, closed, permit, drive, pushed, recv, swept, answer, last>>
    BY <1>1 DEF vars, inboxVars
  <2>2. InboxTyped' /\ InOrder'
    BY <2>1, QueueUnchanged DEF InboxInv, InboxTyped, TypeOK
  <2>3. WakeInv'
    BY <2>1 DEF InboxInv, WakeInv, WillLook
  <2>. QED  BY <2>2, <2>3 DEF InboxInv
<1>2. CASE DriveNext
  BY <1>2, PushKeeps, NotifyKeeps DEF DriveNext
<1>3. ASSUME NEW r \in Receiver, Call(r) \/ RecvNext(r) \/ Cancel(r)
      PROVE  InboxInv'
  BY <1>3, PopKeeps, RecvKeeps, CancelKeeps DEF RecvNext
<1>. QED  BY <1>1, <1>2, <1>3 DEF Next

---------------------------------------------------------------------------
(* The inductive invariant holds in every reachable state. *)
THEOREM InboxInvHolds == Spec => []InboxInv
<1>1. Init => InboxInv
  BY InitInbox
<1>2. InboxInv /\ [Next]_vars => InboxInv'
  BY NextKeepsInbox
<1>. QED  BY <1>1, <1>2, PTL DEF Spec

(* Frames come out of recv in the order the engine delivered them, for      *)
(* every capacity, kind of track and number of callers.                     *)
THEOREM InboxInOrder == Spec => []InOrder
<1>1. Spec => []InboxInv
  BY InboxInvHolds
<1>2. InboxInv => InOrder
  BY DEF InboxInv
<1>. QED  BY <1>1, <1>2, PTL

(* No wake-up is lost, whatever the number of callers and whichever of them *)
(* are cancelled.                                                           *)
THEOREM InboxNoLostWakeup == Spec => []NoLostWakeup
<1>. SUFFICES  Spec => []NoLostWakeup
  OBVIOUS
<1>1. Spec => []InboxInv
  BY InboxInvHolds
<1>2. ASSUME InboxInv
      PROVE  NoLostWakeup
  <2>1. WakeInv /\ TypeOK
    BY <1>2 DEF InboxInv, InboxTyped
  <2>2. ASSUME \A r \in Receiver : recv[r] = "parked", queue # <<>>
        PROVE  drive = "notifying"
    BY InboxAssumption, <2>1, <2>2 DEF WakeInv, WillLook
  <2>3. ASSUME \E r \in Receiver : recv[r] = "parked", closed
        PROVE  drive = "closing"
    BY <2>1, <2>3 DEF WakeInv
  <2>. QED  BY <2>2, <2>3 DEF NoLostWakeup
<1>. QED  BY <1>1, <1>2, PTL
(* The newest keyframe a video queue holds survives every push. *)
LEMMA PushKeepsNewestKeyframe ==
  ASSUME Cap > 1, InboxInv, Push, Video,
         NEW k \in 1..Len(queue), queue[k].keyframe,
         \A j \in (k + 1)..Len(queue) : ~queue[j].keyframe
  PROVE  \E j \in 1..Len(queue') : queue'[j] = queue[k]
<1>1. queue \in Seq(Frame) /\ Len(queue) \in Nat /\ Len(queue) <= Cap /\ Cap \in Nat
  BY InboxAssumption, LenProperties DEF InboxInv, InboxTyped, TypeOK
<1>2. PICK keyframe \in BOOLEAN :
        queue' = Append(Room, [number |-> pushed + 1, keyframe |-> keyframe])
  BY DEF Push
<1>. DEFINE frame == [number |-> pushed + 1, keyframe |-> keyframe]
<1>. DEFINE room == Room
<1>3. frame \in Frame
  BY InboxAssumption DEF Frame, Push, InboxInv, InboxTyped, TypeOK
<1>4. room \in Seq(Frame) /\ Len(room) \in Nat
  BY <1>1, RoomProperties, LenProperties
<1>5. Len(queue') = Len(room) + 1 /\ \A j \in 1..Len(room) : queue'[j] = room[j]
  <2>. HIDE DEF room, frame
  <2>1. queue' = Append(room, frame)
    BY <1>2 DEF room, frame
  <2>. QED  BY <1>3, <1>4, <2>1, AppendProperties
<1>6. \E j \in 1..Len(room) : room[j] = queue[k]
  <2>1. CASE Len(queue) < Cap
    BY <1>1, <2>1 DEF Room
  <2>2. CASE Len(queue) >= Cap
    <3>1. queue # <<>> /\ Len(queue) > 1 /\ room = RemoveAt(queue, Victim)
      BY <1>1, <2>2, EmptySeq DEF Room
    <3>2. Victim \in 1..Len(queue) /\ Victim # k
      BY <1>1, <3>1, VictimProperties
    <3>. HIDE DEF room, frame
    <3>3. /\ Len(room) = Len(queue) - 1
          /\ \A j \in 1..Len(room) : room[j] = IF j < Victim THEN queue[j] ELSE queue[j + 1]
      <4>1. queue \in Seq(Frame) /\ Victim \in 1..Len(queue)
        BY <1>1, <3>2
      <4>2. /\ Len(RemoveAt(queue, Victim)) = Len(queue) - 1
            /\ \A j \in 1..(Len(queue) - 1) :
                 RemoveAt(queue, Victim)[j] = IF j < Victim THEN queue[j] ELSE queue[j + 1]
        BY <4>1, RemoveAtProperties
      <4>. QED  BY <3>1, <4>2
    <3>4. CASE k < Victim
      BY <1>1, <3>2, <3>3, <3>4
    <3>5. CASE k > Victim
      <4>1. k - 1 \in 1..Len(room) /\ ~(k - 1 < Victim) /\ (k - 1) + 1 = k
        BY <1>1, <3>2, <3>3, <3>5
      <4>. QED  BY <3>3, <4>1
    <3>. QED  BY <3>2, <3>4, <3>5
  <2>. QED  BY <1>1, <2>1, <2>2
<1>. QED
  <2>. HIDE DEF room
  <2>. QED  BY <1>4, <1>5, <1>6

(* "A full video queue drops the oldest delta and keeps the newest          *)
(* keyframe", for every capacity of two or more.                            *)
THEOREM InboxKeepsKeyframe ==
  Cap > 1 => (Spec => NewestKeyframeKept)
<1>. SUFFICES ASSUME Cap > 1 PROVE Spec => NewestKeyframeKept
  OBVIOUS
<1>. DEFINE Kept ==
  Video /\ pushed' # pushed =>
    \A k \in 1..Len(queue) :
      /\ queue[k].keyframe
      /\ \A j \in (k+1)..Len(queue) : ~queue[j].keyframe
      => \E j \in 1..Len(queue') : queue'[j] = queue[k]
<1>1. Spec => []InboxInv
  BY InboxInvHolds
<1>2. ASSUME InboxInv, [Next]_vars
      PROVE  Kept
  <2>1. CASE Push
    BY <1>2, <2>1, PushKeepsNewestKeyframe
  <2>2. CASE ~Push
    <3>1. pushed' = pushed
      BY <1>2, <2>2 DEF Next, DriveNext, RecvNext, NotifyOne, Close, NotifyWaiters, Call, Pop,
                        CheckClosed, Poll, Resume, Cancel, vars
    <3>. QED  BY <3>1
  <2>. QED  BY <2>1, <2>2
<1>3. InboxInv /\ [Next]_vars => [Kept]_vars
  BY <1>2
<1>. QED  BY <1>1, <1>3, PTL DEF Spec, NewestKeyframeKept

---------------------------------------------------------------------------
(* The handshake and the cipher *)

Key == Keys \union {NoKey}
Settled == {"Plain", "Sealed"}

Ciphers ==
  [key : Key, seals : Sides, opens : Sides, counter : Nat, started : BOOLEAN,
   max : Nat, mask : SUBSET (0..(ReplayWindow - 1))]

Packets == [key : Key, direction : Sides, counter : Nat, frame : Nat]

SecureTyped ==
  /\ encrypt \in [Sides -> BOOLEAN]
  /\ stage \in [Sides -> Settled \union {"Start", "Wait", "Failed"}]
  /\ localKey \in Key
  /\ hello \in [Sides -> Seq(Key)]
  /\ cipher \in [Sides -> Ciphers]
  /\ sealed \in [Sides -> Nat]
  /\ network \in [Sides -> SUBSET Packets]
  /\ received \in [Sides -> Seq(Nat)]

(* What the Hellos under way say, and what a settled side knows of the key. *)
HelloInv ==
  /\ stage["Dialer"] = "Start" =>
       hello["Dialer"] = <<>> /\ stage["Listener"] \in {"Start", "Failed"}
  /\ hello["Dialer"] \in {<<>>, <<localKey>>}
  /\ hello["Listener"] \in {<<>>, <<NoKey>>}
  /\ stage["Listener"] = "Start" => hello["Listener"] = <<>>
  /\ stage["Dialer"] \in Settled \union {"Wait"} => (encrypt["Dialer"] <=> localKey # NoKey)
  /\ \A s \in Sides : stage[s] = "Plain" => ~encrypt[s] /\ localKey = NoKey
  /\ \A s \in Sides : stage[s] = "Sealed" => encrypt[s] /\ localKey # NoKey
  /\ \A s \in Sides : stage[s] \in Settled => cipher[s].key = localKey

(* What is on the network was sealed by the side that sent it. *)
SealInv ==
  \A s \in Sides :
    /\ cipher[s].seals = s /\ cipher[s].opens = Peer(s)
    /\ cipher[s].counter = sealed[s]
    /\ stage[s] # "Sealed" =>
         network[s] = {} /\ received[s] = <<>> /\ ~cipher[s].started /\ sealed[s] = 0
    /\ \A p \in network[s] :
         p.key = cipher[s].key /\ p.direction = s /\ p.counter = p.frame

(* The window of a cipher that has opened the counters of a set. *)
Tracks(c, opened) ==
  /\ ~c.started => opened = {}
  /\ c.started =>
       /\ \A n \in opened : n <= c.max
       /\ \A b \in 0..(ReplayWindow - 1) : b \in c.mask <=> c.max - b \in opened

Opened(s) == {received[s][i] : i \in 1..Len(received[s])}

WindowInv == OpenedOnce /\ \A s \in Sides : Tracks(cipher[s], Opened(s))

SecureInv == SecureTyped /\ HelloInv /\ SealInv /\ WindowInv

---------------------------------------------------------------------------
(* accept_counter: a counter it accepts was not opened before, and opening  *)
(* it keeps the window exact, however far it jumps.                         *)
LEMMA AcceptKeepsWindow ==
  ASSUME NEW c \in Ciphers, NEW n \in Nat, NEW opened \in SUBSET Nat,
         Accepts(c, n), Tracks(c, opened)
  PROVE  /\ n \notin opened
         /\ AfterAccept(c, n) \in Ciphers
         /\ Tracks(AfterAccept(c, n), opened \union {n})
<1>. ReplayWindow \in Nat \ {0}
  BY CipherAssumption
<1>. DEFINE d == AfterAccept(c, n)
<1>0. c.max \in Nat /\ c.started \in BOOLEAN /\ c.mask \subseteq 0..(ReplayWindow - 1)
  BY DEF Ciphers
<1>1. CASE ~c.started
  <2>1. d = [c EXCEPT !.started = TRUE, !.max = n, !.mask = {0}]
    BY <1>1 DEF AfterAccept
  <2>2. {0} \in SUBSET (0..(ReplayWindow - 1))
    OBVIOUS
  <2>3. d \in Ciphers /\ d.started /\ d.max = n /\ d.mask = {0}
    BY <2>1, <2>2 DEF Ciphers
  <2>4. opened = {}
    BY <1>1 DEF Tracks
  <2>. QED  BY <2>3, <2>4 DEF Tracks
<1>2. CASE c.started /\ n > c.max
  <2>. DEFINE m == ShiftedMask(c.mask, n - c.max) \union {0}
  <2>1. d = [c EXCEPT !.max = n, !.mask = m]
    BY <1>2 DEF AfterAccept
  <2>2. m \subseteq 0..(ReplayWindow - 1)
    BY DEF ShiftedMask
  <2>3. d \in Ciphers /\ d.started = c.started /\ d.max = n /\ d.mask = m
    BY <2>1, <2>2 DEF Ciphers
  <2>4. n \notin opened /\ \A k \in opened : k <= n
    <3>1. \A k \in opened : k <= c.max
      BY <1>2 DEF Tracks
    <3>2. \A k \in opened : k \in Nat /\ k < n
      BY <1>0, <1>2, <3>1
    <3>. QED  BY <3>2
  <2>5. ASSUME NEW b \in 0..(ReplayWindow - 1)
        PROVE  b \in m <=> n - b \in opened \union {n}
    <3>1. CASE b = 0
      BY <3>1
    <3>2. CASE b # 0 /\ b < n - c.max
      <4>1. b \notin m
        BY <1>0, <1>2, <3>2 DEF ShiftedMask
      <4>2. n - b > c.max /\ n - b # n
        BY <1>0, <1>2, <3>2
      <4>. QED  BY <1>0, <1>2, <4>1, <4>2 DEF Tracks
    <3>3. CASE b # 0 /\ b >= n - c.max
      <4>. DEFINE a == b - (n - c.max)
      <4>1. a \in 0..(ReplayWindow - 1) /\ b = a + (n - c.max) /\ n - b = c.max - a
        BY <1>0, <1>2, <3>3
      <4>2. b \in m <=> a \in c.mask
        BY <1>0, <1>2, <3>3, <4>1 DEF ShiftedMask
      <4>3. a \in c.mask <=> n - b \in opened
        BY <1>2, <4>1 DEF Tracks
      <4>. QED  BY <3>3, <4>2, <4>3
    <3>. QED  BY <1>0, <1>2, <3>1, <3>2, <3>3
  <2>. QED  BY <1>2, <2>3, <2>4, <2>5 DEF Tracks
<1>3. CASE c.started /\ n <= c.max
  <2>. DEFINE b0 == c.max - n
  <2>1. b0 \in 0..(ReplayWindow - 1) /\ b0 \notin c.mask /\ c.max - b0 = n
    BY <1>0, <1>3 DEF Accepts, Behind
  <2>2. d = [c EXCEPT !.mask = c.mask \union {b0}]
    BY <1>0, <1>3 DEF AfterAccept, Behind
  <2>3. d \in Ciphers /\ d.started = c.started /\ d.max = c.max /\ d.mask = c.mask \union {b0}
    BY <1>0, <2>1, <2>2 DEF Ciphers
  <2>4. n \notin opened
    BY <1>3, <2>1 DEF Tracks
  <2>5. ASSUME NEW b \in 0..(ReplayWindow - 1)
        PROVE  b \in d.mask <=> c.max - b \in opened \union {n}
    <3>1. b = b0 <=> c.max - b = n
      BY <1>0
    <3>2. b \in c.mask <=> c.max - b \in opened
      BY <1>3 DEF Tracks
    <3>. QED  BY <2>3, <3>1, <3>2
  <2>6. \A k \in opened \union {n} : k <= c.max
    BY <1>3 DEF Tracks
  <2>. QED  BY <1>3, <2>3, <2>4, <2>5, <2>6 DEF Tracks
<1>. QED  BY <1>0, <1>1, <1>2, <1>3

(* Appending what a sequence does not hold leaves it without repetition. *)
LEMMA AppendOnce ==
  ASSUME NEW q \in Seq(Nat), NEW n \in Nat,
         \A i \in 1..Len(q) : q[i] # n,
         \A i, j \in 1..Len(q) : q[i] = q[j] => i = j
  PROVE  /\ {Append(q, n)[i] : i \in 1..Len(Append(q, n))} = {q[i] : i \in 1..Len(q)} \union {n}
         /\ \A i, j \in 1..Len(Append(q, n)) : Append(q, n)[i] = Append(q, n)[j] => i = j
<1>. DEFINE r == Append(q, n)
<1>1. Len(q) \in Nat /\ Len(r) = Len(q) + 1 /\ r[Len(q) + 1] = n
  BY AppendProperties, LenProperties
<1>2. \A i \in 1..Len(q) : r[i] = q[i]
  BY AppendProperties
<1>3. 1..Len(r) = 1..Len(q) \union {Len(q) + 1}
  BY <1>1
<1>. QED  BY <1>1, <1>2, <1>3

(* Each side has one peer, which is the other. *)
LEMMA PeerIsOther ==
  \A s \in Sides : Peer(s) \in Sides /\ Peer(s) # s /\ \A t \in Sides : t = s \/ t = Peer(s)
  BY DEF Sides, Peer

(* A new cipher has used no counter and opened nothing. *)
LEMMA NewCipherTyped ==
  ASSUME NEW key \in Key, NEW s \in Sides
  PROVE  LET c == NewCipher(key, s = "Dialer")
         IN  /\ c \in Ciphers /\ c.key = key /\ c.seals = s /\ c.opens = Peer(s)
             /\ c.counter = 0 /\ ~c.started
  BY CipherAssumption DEF NewCipher, Directions, Ciphers, Sides, Peer

(* The session begins in the invariant. *)
LEMMA InitSecure == SecureInit => SecureInv
<1>. SUFFICES ASSUME SecureInit PROVE SecureInv
  OBVIOUS
<1>. NoKey \in Key
  BY DEF Key
<1>1. \A s \in Sides :
        /\ cipher[s] \in Ciphers /\ cipher[s].seals = s /\ cipher[s].opens = Peer(s)
        /\ cipher[s].counter = 0 /\ ~cipher[s].started
  BY NewCipherTyped DEF SecureInit
<1>2. SecureTyped
  <2>1. cipher \in [Sides -> Ciphers]
    BY <1>1 DEF SecureInit
  <2>2. hello \in [Sides -> Seq(Key)] /\ received \in [Sides -> Seq(Nat)]
    BY EmptySeq DEF SecureInit
  <2>. QED  BY <2>1, <2>2 DEF SecureTyped, SecureInit
<1>3. HelloInv
  BY DEF HelloInv, SecureInit, Sides, Settled
<1>4. SealInv
  BY <1>1 DEF SealInv, SecureInit
<1>5. WindowInv
  <2>1. \A s \in Sides : received[s] = <<>> /\ Opened(s) = {}
    BY EmptySeq DEF SecureInit, Opened
  <2>. QED  BY <1>1, <2>1, EmptySeq DEF WindowInv, OpenedOnce, Tracks
<1>. QED  BY <1>2, <1>3, <1>4, <1>5 DEF SecureInv

---------------------------------------------------------------------------
(* What was opened depends on the ciphers and the frames received alone. *)
LEMMA WindowUnchanged ==
  ASSUME WindowInv, cipher' = cipher, received' = received
  PROVE  WindowInv'
<1>1. OpenedOnce'
  BY DEF WindowInv, OpenedOnce
<1>2. \A t \in Sides : Opened(t)' = Opened(t)
  BY DEF Opened
<1>3. \A t \in Sides : Tracks(cipher'[t], Opened(t)')
  BY <1>2 DEF WindowInv
<1>. QED  BY <1>1, <1>3 DEF WindowInv

(* Steps of the handshake touch neither what was sealed nor what was        *)
(* opened, and build a cipher only for a side that has not settled.         *)
LEMMA SettleKeepsMedia ==
  ASSUME SecureInv, NEW s \in Sides, NEW peerKey \in Key, stage[s] \in {"Start", "Wait"},
         Settle(s, peerKey), UNCHANGED <<encrypt, localKey, mediaVars>>
  PROVE  /\ stage' \in [Sides -> Settled \union {"Start", "Wait", "Failed"}]
         /\ cipher' \in [Sides -> Ciphers]
         /\ cipher'[s].key = IF s = "Dialer" THEN localKey ELSE peerKey
         /\ stage'[s] = StageFor(s, peerKey)
         /\ SealInv' /\ WindowInv'
<1>. DEFINE key == IF s = "Dialer" THEN localKey ELSE peerKey
<1>. DEFINE c == NewCipher(key, s = "Dialer")
<1>1. key \in Key
  BY DEF SecureInv, SecureTyped
<1>2. /\ c \in Ciphers /\ c.key = key /\ c.seals = s /\ c.opens = Peer(s)
      /\ c.counter = 0 /\ ~c.started
  BY <1>1, NewCipherTyped
<1>3. /\ cipher' = [cipher EXCEPT ![s] = c] /\ cipher \in [Sides -> Ciphers]
      /\ stage' = [stage EXCEPT ![s] = StageFor(s, peerKey)]
      /\ stage \in [Sides -> Settled \union {"Start", "Wait", "Failed"}]
  BY DEF Settle, SecureInv, SecureTyped
<1>4. StageFor(s, peerKey) \in Settled \union {"Failed"}
  BY DEF StageFor, Settled
<1>5. /\ cipher' \in [Sides -> Ciphers] /\ cipher'[s] = c
      /\ stage'[s] = StageFor(s, peerKey)
      /\ stage' \in [Sides -> Settled \union {"Start", "Wait", "Failed"}]
      /\ \A t \in Sides : t # s => cipher'[t] = cipher[t] /\ stage'[t] = stage[t]
  BY <1>2, <1>3, <1>4
<1>6. /\ network' = network /\ received' = received /\ sealed' = sealed
  BY DEF mediaVars
<1>7. network[s] = {} /\ received[s] = <<>> /\ sealed[s] = 0
  BY DEF SecureInv, SealInv
<1>8. SealInv'
  <2>. SUFFICES ASSUME NEW t \in Sides
       PROVE /\ cipher'[t].seals = t /\ cipher'[t].opens = Peer(t)
             /\ cipher'[t].counter = sealed[t]
             /\ stage'[t] # "Sealed" =>
                  network[t] = {} /\ received[t] = <<>> /\ ~cipher'[t].started /\ sealed[t] = 0
             /\ \A p \in network[t] :
                  p.key = cipher'[t].key /\ p.direction = t /\ p.counter = p.frame
    BY <1>6 DEF SealInv
  <2>1. CASE t = s
    BY <1>2, <1>5, <1>7, <2>1
  <2>2. CASE t # s
    BY <1>5, <2>2 DEF SecureInv, SealInv
  <2>. QED  BY <2>1, <2>2
<1>9. WindowInv'
  <2>1. OpenedOnce' /\ \A t \in Sides : Opened(t)' = Opened(t)
    BY <1>6 DEF SecureInv, WindowInv, OpenedOnce, Opened
  <2>2. Opened(s) = {}
    BY <1>7, EmptySeq DEF Opened
  <2>3. Tracks(c, {})
    BY <1>2 DEF Tracks
  <2>4. \A t \in Sides : Tracks(cipher'[t], Opened(t))
    BY <1>5, <2>2, <2>3 DEF SecureInv, WindowInv
  <2>. QED  BY <2>1, <2>4 DEF WindowInv
<1>. QED  BY <1>2, <1>5, <1>8, <1>9

LEMMA DialKeeps ==
  ASSUME SecureInv, Dial
  PROVE  SecureInv'
<1>. USE DEF Sides
<1>1. /\ stage["Dialer"] = "Start" /\ hello["Dialer"] = <<>>
      /\ stage["Listener"] \in {"Start", "Failed"}
  BY DEF Dial, SecureInv, HelloInv
<1>2. /\ localKey' \in Key /\ (encrypt["Dialer"] <=> localKey' # NoKey)
      /\ encrypt' = encrypt /\ cipher' = cipher
      /\ network' = network /\ received' = received /\ sealed' = sealed
  BY SecureAssumption DEF Dial, Key, mediaVars
<1>3. /\ hello' \in [Sides -> Seq(Key)]
      /\ hello'["Dialer"] = <<localKey'>> /\ hello'["Listener"] = hello["Listener"]
  <2>1. Append(hello["Dialer"], localKey') = <<localKey'>>
    BY <1>1, EmptySeq, AppendProperties
  <2>2. <<localKey'>> \in Seq(Key)
    BY <1>2
  <2>. QED  BY <2>1, <2>2 DEF Dial, SecureInv, SecureTyped
<1>4. /\ stage' \in [Sides -> Settled \union {"Start", "Wait", "Failed"}]
      /\ stage'["Dialer"] = "Wait" /\ stage'["Listener"] = stage["Listener"]
  BY DEF Dial, SecureInv, SecureTyped
<1>5. SecureTyped'
  BY <1>2, <1>3, <1>4 DEF SecureInv, SecureTyped
<1>6. HelloInv'
  BY <1>1, <1>2, <1>3, <1>4 DEF SecureInv, HelloInv, Settled
<1>7. SealInv'
  BY <1>1, <1>2, <1>4 DEF SecureInv, SealInv
<1>8. WindowInv'
  BY <1>2, WindowUnchanged DEF SecureInv
<1>. QED  BY <1>5, <1>6, <1>7, <1>8 DEF SecureInv

LEMMA AnswerKeeps ==
  ASSUME SecureInv, Answer
  PROVE  SecureInv'
<1>. DEFINE peerKey == Head(hello["Dialer"])
<1>1. /\ stage["Listener"] = "Start" /\ stage["Dialer"] # "Start"
      /\ hello["Dialer"] = <<localKey>> /\ hello["Listener"] = <<>>
  BY DEF Answer, SecureInv, HelloInv
<1>2. peerKey = localKey /\ peerKey \in Key
  BY <1>1 DEF SecureInv, SecureTyped
<1>3. /\ hello' \in [Sides -> Seq(Key)]
      /\ hello'["Dialer"] = <<>> /\ hello'["Listener"] = <<NoKey>>
  <2>1. Append(hello["Listener"], NoKey) = <<NoKey>> /\ Tail(hello["Dialer"]) = <<>>
    BY <1>1
  <2>2. <<NoKey>> \in Seq(Key) /\ <<>> \in Seq(Key)
    BY DEF Key
  <2>. QED  BY <2>1, <2>2 DEF Answer, SecureInv, SecureTyped, Sides
<1>4. encrypt' = encrypt /\ localKey' = localKey /\ UNCHANGED mediaVars
  BY DEF Answer
<1>5. /\ stage' \in [Sides -> Settled \union {"Start", "Wait", "Failed"}]
      /\ cipher' \in [Sides -> Ciphers]
      /\ cipher'["Listener"].key = localKey
      /\ stage'["Listener"] = StageFor("Listener", localKey)
      /\ SealInv' /\ WindowInv'
  BY <1>1, <1>2, <1>4, SettleKeepsMedia DEF Answer, Sides
<1>6. stage'["Dialer"] = stage["Dialer"] /\ cipher'["Dialer"] = cipher["Dialer"]
  BY DEF Answer, Settle, SecureInv, SecureTyped, Sides
<1>7. SecureTyped'
  BY <1>3, <1>4, <1>5 DEF SecureInv, SecureTyped, mediaVars
<1>8. HelloInv'
  <2>1. /\ StageFor("Listener", localKey) = "Plain" => ~encrypt["Listener"] /\ localKey = NoKey
        /\ StageFor("Listener", localKey) = "Sealed" => encrypt["Listener"] /\ localKey # NoKey
        /\ StageFor("Listener", localKey) # "Start"
    BY DEF StageFor
  <2>. QED  BY <1>1, <1>3, <1>4, <1>5, <1>6, <2>1 DEF SecureInv, HelloInv, Sides
<1>. QED  BY <1>5, <1>7, <1>8 DEF SecureInv

LEMMA ConcludeKeeps ==
  ASSUME SecureInv, Conclude
  PROVE  SecureInv'
<1>1. /\ stage["Dialer"] = "Wait" /\ stage["Listener"] # "Start"
      /\ hello["Listener"] = <<NoKey>> /\ (encrypt["Dialer"] <=> localKey # NoKey)
  BY DEF Conclude, SecureInv, HelloInv, Settled
<1>2. Head(hello["Listener"]) = NoKey /\ NoKey \in Key
  BY <1>1 DEF Key
<1>3. /\ hello' \in [Sides -> Seq(Key)]
      /\ hello'["Dialer"] = hello["Dialer"] /\ hello'["Listener"] = <<>>
  <2>1. Tail(hello["Listener"]) = <<>> /\ <<>> \in Seq(Key)
    BY <1>1
  <2>. QED  BY <2>1 DEF Conclude, SecureInv, SecureTyped, Sides
<1>4. encrypt' = encrypt /\ localKey' = localKey /\ UNCHANGED mediaVars
  BY DEF Conclude
<1>5. /\ stage' \in [Sides -> Settled \union {"Start", "Wait", "Failed"}]
      /\ cipher' \in [Sides -> Ciphers]
      /\ cipher'["Dialer"].key = localKey
      /\ stage'["Dialer"] = StageFor("Dialer", NoKey)
      /\ SealInv' /\ WindowInv'
  BY <1>1, <1>2, <1>4, SettleKeepsMedia DEF Conclude, Sides
<1>6. stage'["Listener"] = stage["Listener"] /\ cipher'["Listener"] = cipher["Listener"]
  BY DEF Conclude, Settle, SecureInv, SecureTyped, Sides
<1>7. SecureTyped'
  BY <1>3, <1>4, <1>5 DEF SecureInv, SecureTyped, mediaVars
<1>8. HelloInv'
  <2>1. /\ StageFor("Dialer", NoKey) = "Plain" => ~encrypt["Dialer"]
        /\ StageFor("Dialer", NoKey) = "Sealed" => encrypt["Dialer"]
        /\ StageFor("Dialer", NoKey) # "Start"
    BY DEF StageFor
  <2>. QED  BY <1>1, <1>3, <1>4, <1>5, <1>6, <2>1 DEF SecureInv, HelloInv, Sides
<1>. QED  BY <1>5, <1>7, <1>8 DEF SecureInv

LEMMA FailKeeps ==
  ASSUME SecureInv, NEW s \in Sides, Fail(s)
  PROVE  SecureInv'
<1>1. /\ stage' = [stage EXCEPT ![s] = "Failed"] /\ stage[s] \in {"Start", "Wait"}
      /\ encrypt' = encrypt /\ localKey' = localKey /\ hello' = hello /\ cipher' = cipher
      /\ network' = network /\ received' = received /\ sealed' = sealed
  BY DEF Fail, mediaVars
<1>2. /\ stage' \in [Sides -> Settled \union {"Start", "Wait", "Failed"}]
      /\ stage'[s] = "Failed" /\ \A t \in Sides : t # s => stage'[t] = stage[t]
  BY <1>1 DEF SecureInv, SecureTyped
<1>3. SecureTyped'
  BY <1>1, <1>2 DEF SecureInv, SecureTyped
<1>4. HelloInv'
  <2>1. \A t \in Sides : stage'[t] = stage[t] \/ stage'[t] = "Failed"
    BY <1>2
  <2>2. /\ stage'["Dialer"] = stage["Dialer"] \/ stage'["Dialer"] = "Failed"
        /\ stage'["Listener"] = stage["Listener"] \/ stage'["Listener"] = "Failed"
    BY <2>1 DEF Sides
  <2>3. HelloInv
    BY DEF SecureInv
  <2>4. \A t \in Sides :
          /\ stage'[t] = "Plain" => ~encrypt[t] /\ localKey = NoKey
          /\ stage'[t] = "Sealed" => encrypt[t] /\ localKey # NoKey
          /\ stage'[t] \in Settled => cipher[t].key = localKey
    BY <2>1, <2>3 DEF HelloInv, Settled
  <2>5. /\ hello' = hello /\ localKey' = localKey /\ encrypt' = encrypt /\ cipher' = cipher
    BY <1>1
  <2>6. (\A t \in Sides : stage'[t] = "Plain" => ~encrypt'[t] /\ localKey' = NoKey)
        /\ (\A t \in Sides : stage'[t] = "Sealed" => encrypt'[t] /\ localKey' # NoKey)
        /\ (\A t \in Sides : stage'[t] \in Settled => cipher'[t].key = localKey')
    BY <2>4, <2>5
  <2>7. /\ stage'["Dialer"] = "Start" =>
             hello'["Dialer"] = <<>> /\ stage'["Listener"] \in {"Start", "Failed"}
        /\ hello'["Dialer"] \in {<<>>, <<localKey'>>}
        /\ hello'["Listener"] \in {<<>>, <<NoKey>>}
        /\ stage'["Listener"] = "Start" => hello'["Listener"] = <<>>
    BY <2>2, <2>3, <2>5 DEF HelloInv
  <2>8. stage'["Dialer"] \in Settled \union {"Wait"} => (encrypt'["Dialer"] <=> localKey' # NoKey)
    BY <2>2, <2>3, <2>5 DEF HelloInv, Settled
  <2>. QED  BY <2>6, <2>7, <2>8 DEF HelloInv
<1>5. SealInv'
  BY <1>1, <1>2 DEF SecureInv, SealInv
<1>6. WindowInv'
  BY <1>1, WindowUnchanged DEF SecureInv
<1>. QED  BY <1>3, <1>4, <1>5, <1>6 DEF SecureInv

(* seal, then push_frame: a frame goes out under a counter of its own. *)
LEMMA SealKeeps ==
  ASSUME SecureInv, NEW s \in Sides, SealFrame(s)
  PROVE  SecureInv'
<1>. DEFINE packet == SealedFrame(cipher[s], sealed[s])
<1>1. /\ cipher' = [cipher EXCEPT ![s] = AfterSeal(cipher[s])]
      /\ sealed' = [sealed EXCEPT ![s] = sealed[s] + 1]
      /\ stage[s] = "Sealed"
      /\ network' = network \/ network' = [network EXCEPT ![s] = network[s] \union {packet}]
      /\ encrypt' = encrypt /\ stage' = stage /\ localKey' = localKey /\ hello' = hello
      /\ received' = received
  BY DEF SealFrame, shakeVars
<1>2. cipher[s] \in Ciphers /\ sealed[s] \in Nat
  BY DEF SecureInv, SecureTyped
<1>3. /\ AfterSeal(cipher[s]) \in Ciphers
      /\ AfterSeal(cipher[s]).counter = cipher[s].counter + 1
      /\ \A f \in {"key", "seals", "opens", "started", "max", "mask"} :
           AfterSeal(cipher[s])[f] = cipher[s][f]
  BY <1>2 DEF AfterSeal, Ciphers
<1>4. /\ cipher' \in [Sides -> Ciphers] /\ sealed' \in [Sides -> Nat]
      /\ cipher'[s] = AfterSeal(cipher[s]) /\ sealed'[s] = sealed[s] + 1
      /\ \A t \in Sides : t # s => cipher'[t] = cipher[t] /\ sealed'[t] = sealed[t]
  BY <1>1, <1>2, <1>3 DEF SecureInv, SecureTyped
<1>5. \A t \in Sides :
        /\ cipher'[t].key = cipher[t].key /\ cipher'[t].seals = cipher[t].seals
        /\ cipher'[t].opens = cipher[t].opens /\ cipher'[t].started = cipher[t].started
        /\ cipher'[t].max = cipher[t].max /\ cipher'[t].mask = cipher[t].mask
        /\ cipher[t].counter = sealed[t] => cipher'[t].counter = sealed'[t]
  BY <1>3, <1>4
<1>6. /\ packet \in Packets /\ packet.key = cipher[s].key /\ packet.direction = s
      /\ packet.counter = packet.frame
  BY <1>2 DEF SealedFrame, Packets, Ciphers, SecureInv, SealInv
<1>7. /\ network' \in [Sides -> SUBSET Packets]
      /\ \A t \in Sides : \A p \in network'[t] : p \in network[t] \/ (t = s /\ p = packet)
      /\ \A t \in Sides : t # s => network'[t] = network[t]
  <2>1. network \in [Sides -> SUBSET Packets]
    BY DEF SecureInv, SecureTyped
  <2>2. CASE network' = network
    BY <2>1, <2>2
  <2>3. CASE network' = [network EXCEPT ![s] = network[s] \union {packet}]
    <3>1. network[s] \union {packet} \in SUBSET Packets
      BY <1>6, <2>1
    <3>2. /\ network'[s] = network[s] \union {packet}
          /\ \A t \in Sides : t # s => network'[t] = network[t]
      BY <2>1, <2>3
    <3>3. network' \in [Sides -> SUBSET Packets]
      BY <2>1, <2>3, <3>1
    <3>. QED  BY <3>2, <3>3
  <2>. QED  BY <1>1, <2>2, <2>3
<1>8. SecureTyped'
  BY <1>1, <1>4, <1>7 DEF SecureInv, SecureTyped
<1>9. HelloInv'
  BY <1>1, <1>5 DEF SecureInv, HelloInv
<1>10. SealInv'
  <2>. SUFFICES ASSUME NEW t \in Sides
       PROVE /\ cipher'[t].seals = t /\ cipher'[t].opens = Peer(t)
             /\ cipher'[t].counter = sealed'[t]
             /\ stage[t] # "Sealed" =>
                  network'[t] = {} /\ received[t] = <<>> /\ ~cipher'[t].started /\ sealed'[t] = 0
             /\ \A p \in network'[t] :
                  p.key = cipher'[t].key /\ p.direction = t /\ p.counter = p.frame
    BY <1>1 DEF SealInv
  <2>1. /\ cipher[t].seals = t /\ cipher[t].opens = Peer(t) /\ cipher[t].counter = sealed[t]
        /\ stage[t] # "Sealed" =>
             network[t] = {} /\ received[t] = <<>> /\ ~cipher[t].started /\ sealed[t] = 0
        /\ \A p \in network[t] : p.key = cipher[t].key /\ p.direction = t /\ p.counter = p.frame
    BY DEF SecureInv, SealInv
  <2>2. stage[t] # "Sealed" => t # s
    BY <1>1
  <2>3. \A p \in network'[t] : p.key = cipher'[t].key /\ p.direction = t /\ p.counter = p.frame
    BY <1>5, <1>6, <1>7, <2>1
  <2>. QED  BY <1>4, <1>5, <1>7, <2>1, <2>2, <2>3
<1>11. WindowInv'
  <2>1. OpenedOnce' /\ \A t \in Sides : Opened(t)' = Opened(t)
    BY <1>1 DEF SecureInv, WindowInv, OpenedOnce, Opened
  <2>2. \A t \in Sides : Tracks(cipher'[t], Opened(t))
    BY <1>5 DEF SecureInv, WindowInv, Tracks
  <2>. QED  BY <2>1, <2>2 DEF WindowInv
<1>. QED  BY <1>8, <1>9, <1>10, <1>11 DEF SecureInv

(* What a sealed side finds on the network was sealed with its own key: the *)
(* other side has settled too.                                              *)
LEMMA PacketsOpen ==
  ASSUME SecureInv, NEW s \in Sides, stage[s] = "Sealed", NEW p \in network[Peer(s)]
  PROVE  Opens(cipher[s], p) /\ p \in Packets /\ p.frame = p.counter
<1>1. Peer(s) \in Sides
  BY PeerIsOther
<1>2. /\ stage[Peer(s)] = "Sealed" /\ p.key = cipher[Peer(s)].key
      /\ p.direction = Peer(s) /\ p.counter = p.frame /\ cipher[s].opens = Peer(s)
  BY <1>1 DEF SecureInv, SealInv
<1>3. cipher[s].key = localKey /\ cipher[Peer(s)].key = localKey
  BY <1>1, <1>2 DEF SecureInv, HelloInv, Settled
<1>. QED  BY <1>1, <1>2, <1>3 DEF Opens, SecureInv, SecureTyped

(* emit: what is opened goes to the application and into the window. *)
LEMMA OpenKeeps ==
  ASSUME SecureInv, NEW s \in Sides, OpenFrame(s)
  PROVE  SecureInv'
<1>1. PICK packet \in network[Peer(s)] :
        /\ stage[s] = "Sealed" /\ Accepts(cipher[s], packet.counter)
        /\ cipher' = [cipher EXCEPT ![s] = AfterAccept(cipher[s], packet.counter)]
        /\ received' = IF Opens(cipher[s], packet)
                       THEN [received EXCEPT ![s] = Append(received[s], packet.frame)]
                       ELSE received
        /\ encrypt' = encrypt /\ stage' = stage /\ localKey' = localKey /\ hello' = hello
        /\ sealed' = sealed /\ network' = network
  BY DEF OpenFrame, shakeVars
<1>. DEFINE n == packet.counter
<1>. DEFINE c == AfterAccept(cipher[s], n)
<1>2. /\ n \in Nat /\ received' = [received EXCEPT ![s] = Append(received[s], n)]
  BY <1>1, PacketsOpen DEF Packets
<1>3. cipher[s] \in Ciphers /\ received[s] \in Seq(Nat) /\ Opened(s) \in SUBSET Nat
  BY DEF SecureInv, SecureTyped, Opened
<1>4. Tracks(cipher[s], Opened(s)) /\ OpenedOnce
  BY DEF SecureInv, WindowInv
<1>5. n \notin Opened(s) /\ c \in Ciphers /\ Tracks(c, Opened(s) \union {n})
  BY <1>1, <1>2, <1>3, <1>4, AcceptKeepsWindow
<1>6. /\ c.key = cipher[s].key /\ c.seals = cipher[s].seals /\ c.opens = cipher[s].opens
      /\ c.counter = cipher[s].counter
  BY <1>3 DEF AfterAccept, Ciphers
<1>7. /\ cipher' \in [Sides -> Ciphers] /\ cipher'[s] = c
      /\ \A t \in Sides : t # s => cipher'[t] = cipher[t]
  BY <1>1, <1>5 DEF SecureInv, SecureTyped
<1>8. /\ received' \in [Sides -> Seq(Nat)] /\ received'[s] = Append(received[s], n)
      /\ \A t \in Sides : t # s => received'[t] = received[t]
  BY <1>2, <1>3, AppendProperties DEF SecureInv, SecureTyped
<1>9. SecureTyped'
  BY <1>1, <1>7, <1>8 DEF SecureInv, SecureTyped
<1>10. HelloInv'
  <2>1. \A t \in Sides : cipher'[t].key = cipher[t].key
    BY <1>6, <1>7
  <2>. QED  BY <1>1, <2>1 DEF SecureInv, HelloInv
<1>11. SealInv'
  <2>1. \A t \in Sides :
          /\ cipher'[t].key = cipher[t].key /\ cipher'[t].seals = cipher[t].seals
          /\ cipher'[t].opens = cipher[t].opens /\ cipher'[t].counter = cipher[t].counter
          /\ stage[t] # "Sealed" => cipher'[t] = cipher[t] /\ received'[t] = received[t]
    BY <1>1, <1>6, <1>7, <1>8
  <2>. QED  BY <1>1, <2>1 DEF SecureInv, SealInv
<1>12. WindowInv'
  <2>1. \A i \in 1..Len(received[s]) : received[s][i] # n
    BY <1>5 DEF Opened
  <2>2. \A i, j \in 1..Len(received[s]) : received[s][i] = received[s][j] => i = j
    BY <1>4 DEF OpenedOnce
  <2>3. /\ Opened(s)' = Opened(s) \union {n}
        /\ \A i, j \in 1..Len(received'[s]) : received'[s][i] = received'[s][j] => i = j
    BY <1>2, <1>3, <1>8, <2>1, <2>2, AppendOnce DEF Opened
  <2>4. \A t \in Sides : t # s => Opened(t)' = Opened(t)
    BY <1>8 DEF Opened
  <2>5. \A t \in Sides : Tracks(cipher'[t], Opened(t)')
    BY <1>5, <1>7, <2>3, <2>4 DEF SecureInv, WindowInv
  <2>6. OpenedOnce'
    BY <1>8, <2>3 DEF SecureInv, WindowInv, OpenedOnce
  <2>. QED  BY <2>5, <2>6 DEF WindowInv
<1>. QED  BY <1>9, <1>10, <1>11, <1>12 DEF SecureInv

(* Every step preserves the invariant. *)
LEMMA NextKeeps ==
  ASSUME SecureInv, [SecureNext]_secureVars
  PROVE  SecureInv'
<1>1. CASE UNCHANGED secureVars
  <2>1. SecureTyped' /\ HelloInv'
    BY <1>1 DEF secureVars, shakeVars, mediaVars, SecureInv, SecureTyped, HelloInv
  <2>2. SealInv'
    BY <1>1 DEF secureVars, shakeVars, mediaVars, SecureInv, SealInv
  <2>3. WindowInv'
    BY <1>1, WindowUnchanged DEF secureVars, mediaVars, SecureInv
  <2>. QED  BY <2>1, <2>2, <2>3 DEF SecureInv
<1>2. CASE Dial
  BY <1>2, DialKeeps
<1>3. CASE Answer
  BY <1>3, AnswerKeeps
<1>4. CASE Conclude
  BY <1>4, ConcludeKeeps
<1>5. ASSUME NEW s \in Sides, ReadClosed(s) \/ Fail(s)
      PROVE  SecureInv'
  BY <1>5, FailKeeps DEF ReadClosed
<1>6. ASSUME NEW s \in Sides, SealFrame(s)
      PROVE  SecureInv'
  BY <1>6, SealKeeps
<1>7. ASSUME NEW s \in Sides, OpenFrame(s)
      PROVE  SecureInv'
  BY <1>7, OpenKeeps
<1>. QED  BY <1>1, <1>2, <1>3, <1>4, <1>5, <1>6, <1>7 DEF SecureNext

---------------------------------------------------------------------------
(* The inductive invariant holds in every reachable state. *)
THEOREM SecureInvHolds == SecureSpec => []SecureInv
<1>1. SecureInv /\ [SecureNext]_secureVars => SecureInv'
  BY NextKeeps
<1>. QED  BY InitSecure, <1>1, PTL DEF SecureSpec

(* Two sides that settled chose the same mode and the same key, and open    *)
(* what the other seals, for every set of keys.                             *)
THEOREM AgreementCorrect == SecureSpec => []AgreeOnCipher
<1>1. ASSUME SecureInv
      PROVE  AgreeOnCipher
  <2>1. ASSUME NEW s \in Sides, stage[s] \in Settled
        PROVE  /\ encrypt[s] = (stage[s] = "Sealed")
               /\ stage[s] = "Sealed" <=> localKey # NoKey
               /\ cipher[s].key = localKey
    BY <1>1, <2>1 DEF SecureInv, SecureTyped, HelloInv, Settled, Sides
  <2>2. ASSUME \A s \in Sides : stage[s] \in Settled
        PROVE  /\ stage["Dialer"] = stage["Listener"]
               /\ cipher["Dialer"].key = cipher["Listener"].key
    BY <2>1, <2>2 DEF Settled, Sides
  <2>3. ASSUME \A s \in Sides : stage[s] \in Settled,
               NEW s \in Sides, NEW packet \in network[Peer(s)]
        PROVE  Opens(cipher[s], packet)
    <3>1. Peer(s) \in Sides /\ stage[Peer(s)] = "Sealed"
      BY <1>1, PeerIsOther DEF SecureInv, SealInv
    <3>2. stage[s] = "Sealed"
      BY <2>1, <2>3, <3>1 DEF Settled
    <3>. QED  BY <1>1, <3>2, PacketsOpen
  <2>. QED  BY <2>1, <2>2, <2>3 DEF AgreeOnCipher, Settled
<1>. QED  BY SecureInvHolds, <1>1, PTL

(* No two frames of a session are sealed under one nonce, whichever side    *)
(* and track they belong to and whether or not the engine sent the frame.   *)
THEOREM NoncesCorrect == SecureSpec => []NoncesUnique
<1>1. SecureInv => NoncesUnique
  BY DEF SecureInv, SealInv, NoncesUnique
<1>. QED  BY SecureInvHolds, <1>1, PTL

(* The replay window is exact, for every size of window and every order in  *)
(* which the network and the reassembler bring frames.                      *)
THEOREM ReplayCorrect == SecureSpec => []ReplayExact
<1>1. ASSUME SecureInv
      PROVE  ReplayExact
  <2>1. OpenedOnce
    BY <1>1 DEF SecureInv, WindowInv
  <2>2. WindowExact
    <3>. SUFFICES ASSUME NEW s \in Sides, cipher[s].started,
                         NEW b \in 0..(ReplayWindow - 1)
         PROVE  b \in cipher[s].mask
                  <=> \E i \in 1..Len(received[s]) : received[s][i] = cipher[s].max - b
      BY DEF WindowExact
    <3>1. b \in cipher[s].mask <=> cipher[s].max - b \in Opened(s)
      BY <1>1 DEF SecureInv, WindowInv, Tracks
    <3>. QED  BY <3>1 DEF Opened
  <2>. QED  BY <2>1, <2>2 DEF ReplayExact
<1>. QED  BY SecureInvHolds, <1>1, PTL

---------------------------------------------------------------------------
(* The NACK requester *)

(* What the requester's assumption says of its constants, as numbers. *)
LEMMA NackConstants ==
  /\ Space \in Nat \ {0} /\ Nacks!Half \in Nat /\ Nacks!Half > 1 /\ Space = 2 * Nacks!Half
  /\ MaxList \in Nat \ {0} /\ MaxAge \in Nat \ {0} /\ MaxRetries \in Nat \ {0}
  /\ Lifetime \in Nat \ {0} /\ Interval \in Nat \ {0} /\ MaskBits \in Nat \ {0}
  /\ MaxAge < Nacks!Half /\ MaskBits < Nacks!Half /\ Delay \in Nat
<1>1. Nacks!Half \in Int
  BY PartsAssumption DEF Nacks!NackAssumption, Nacks!Half
<1>. QED  BY <1>1, PartsAssumption DEF Nacks!NackAssumption

(* The least and the greatest round trip are among them and bound them. *)
LEMMA RttBounds ==
  /\ Nacks!MinRtt \in Nat \ {0} /\ Nacks!MaxRtt \in Nat
  /\ \A r \in Rtts : r \in Nat /\ Nacks!MinRtt <= r /\ r <= Nacks!MaxRtt
<1>1. Rtts \subseteq Nat \ {0} /\ Rtts # {} /\ IsFiniteSet(Rtts)
  BY PartsAssumption DEF Nacks!NackAssumption, Nacks!IsFiniteSet, IsFiniteSet
<1>2. PICK m \in Rtts : \A r \in Rtts : m <= r
  BY <1>1, LeastNumber
<1>3. PICK n \in Rtts : \A r \in Rtts : r <= n
  BY <1>1, GreatestOfFinite
<1>4. Nacks!MinRtt \in Rtts /\ \A r \in Rtts : Nacks!MinRtt <= r
  BY <1>2 DEF Nacks!MinRtt, Nacks!Min
<1>5. Nacks!MaxRtt \in Rtts /\ \A r \in Rtts : r <= Nacks!MaxRtt
  BY <1>3 DEF Nacks!MaxRtt, Nacks!Max
<1>. QED  BY <1>1, <1>4, <1>5

(* Wrap, a turn either way, without division. *)
LEMMA Wraps ==
  ASSUME NEW n \in Int, -Space <= n, n < 2 * Space
  PROVE  /\ Nacks!Wrap(n) = IF n < 0 THEN n + Space ELSE IF n < Space THEN n ELSE n - Space
         /\ Nacks!Wrap(n) \in Nacks!Seqs /\ Nacks!Wrap(n) \in Nat /\ Nacks!Wrap(n) < Space
<1>1. Nacks!Wrap(n) = IF n < 0 THEN n + Space ELSE IF n < Space THEN n ELSE n - Space
  BY NackConstants, WrapForm DEF Nacks!Wrap
<1>. QED  BY <1>1, NackConstants DEF Nacks!Seqs

(* How far b is behind a, and that a less that distance is b again. *)
LEMMA Distance ==
  ASSUME NEW a \in Nacks!Seqs, NEW b \in Nacks!Seqs
  PROVE  /\ Nacks!Wrap(a - b) = IF a >= b THEN a - b ELSE a - b + Space
         /\ Nacks!Wrap(a - b) \in Nat /\ Nacks!Wrap(a - b) < Space
         /\ Nacks!Wrap(a - Nacks!Wrap(a - b)) = b
<1>. DEFINE d == Nacks!Wrap(a - b)
<1>1. a \in Int /\ b \in Int /\ 0 <= a /\ 0 <= b /\ a < Space /\ b < Space /\ Space \in Nat
  BY NackConstants DEF Nacks!Seqs
<1>2. d = IF a >= b THEN a - b ELSE a - b + Space
  BY <1>1, Wraps
<1>. HIDE DEF d
<1>3. d \in Nat /\ d < Space
  BY <1>1, <1>2
<1>4. Nacks!Wrap(a - d) = IF a - d < 0 THEN a - d + Space ELSE a - d
  BY <1>1, <1>3, Wraps
<1>5. Nacks!Wrap(a - d) = b
  BY <1>1, <1>2, <1>4
<1>. QED  BY <1>2, <1>3, <1>5 DEF d

(* The number d behind a is d behind a. *)
LEMMA Ago ==
  ASSUME NEW a \in Nacks!Seqs, NEW d \in 0..(Space - 1)
  PROVE  Nacks!Wrap(a - d) \in Nacks!Seqs /\ Nacks!Wrap(a - Nacks!Wrap(a - d)) = d
<1>1. d \in Nacks!Seqs
  BY DEF Nacks!Seqs
<1>2. -Space <= a - d /\ a - d < 2 * Space /\ a - d \in Int
  BY NackConstants DEF Nacks!Seqs
<1>. QED  BY <1>1, <1>2, Wraps, Distance

(* From the place of a newer packet every old distance has grown by the     *)
(* steps between the two, and the numbers passed over are the nearest.      *)
LEMMA Later ==
  ASSUME NEW a \in Nacks!Seqs, NEW steps \in 1..(Nacks!Half - 1),
         NEW seq, seq = Nacks!Wrap(a + steps)
  PROVE  /\ seq \in Nacks!Seqs /\ Nacks!Wrap(seq - a) = steps
         /\ \A d \in Nat : d + steps < Space => Nacks!Wrap(seq - (d + steps)) = Nacks!Wrap(a - d)
         /\ \A j \in 1..(steps - 1) : Nacks!Wrap(seq - j) = Nacks!Wrap(a + (steps - j))
         /\ \A s \in Nacks!Seqs : Nacks!Wrap(a - s) + steps < Space =>
              Nacks!Wrap(seq - s) = Nacks!Wrap(a - s) + steps
<1>1. a \in Int /\ 0 <= a /\ a < Space /\ Space \in Nat
  BY NackConstants DEF Nacks!Seqs
<1>2. /\ steps \in Int /\ 1 <= steps /\ steps < Nacks!Half
      /\ Nacks!Half \in Int /\ Space = 2 * Nacks!Half
  BY NackConstants
<1>3. seq = IF a + steps < Space THEN a + steps ELSE a + steps - Space
  BY <1>1, <1>2, Wraps
<1>4. seq \in Int /\ 0 <= seq /\ seq < Space /\ seq \in Nacks!Seqs
  BY <1>1, <1>2, <1>3 DEF Nacks!Seqs
<1>5. Nacks!Wrap(seq - a) = steps
  BY <1>1, <1>2, <1>3, <1>4, Wraps
<1>6. ASSUME NEW d \in Nat, d + steps < Space
      PROVE  Nacks!Wrap(seq - (d + steps)) = Nacks!Wrap(a - d)
  <2>1. Nacks!Wrap(a - d) = IF a - d < 0 THEN a - d + Space ELSE a - d
    BY <1>1, <1>2, <1>6, Wraps
  <2>2. Nacks!Wrap(seq - (d + steps)) =
          IF seq - (d + steps) < 0 THEN seq - (d + steps) + Space ELSE seq - (d + steps)
    BY <1>1, <1>2, <1>4, <1>6, Wraps
  <2>. QED  BY ONLY d \in Nat, <1>1, <1>2, <1>3, <1>6, <2>1, <2>2
<1>7. ASSUME NEW j \in 1..(steps - 1)
      PROVE  Nacks!Wrap(seq - j) = Nacks!Wrap(a + (steps - j))
  <2>1. j \in Int /\ 1 <= j /\ j < steps
    OBVIOUS
  <2>2. Nacks!Wrap(seq - j) = IF seq - j < 0 THEN seq - j + Space ELSE seq - j
    BY <1>1, <1>2, <1>4, <2>1, Wraps
  <2>3. Nacks!Wrap(a + (steps - j)) =
          IF a + (steps - j) < Space THEN a + (steps - j) ELSE a + (steps - j) - Space
    BY <1>1, <1>2, <2>1, Wraps
  <2>. QED  BY ONLY <1>1, <1>2, <1>3, <2>1, <2>2, <2>3
<1>8. ASSUME NEW s \in Nacks!Seqs, Nacks!Wrap(a - s) + steps < Space
      PROVE  Nacks!Wrap(seq - s) = Nacks!Wrap(a - s) + steps
  <2>1. Nacks!Wrap(a - s) = IF a >= s THEN a - s ELSE a - s + Space
    BY Distance
  <2>2. Nacks!Wrap(seq - s) = IF seq >= s THEN seq - s ELSE seq - s + Space
    BY <1>4, Distance
  <2>3. s \in Int /\ 0 <= s /\ s < Space
    BY <1>1 DEF Nacks!Seqs
  <2>. QED  BY ONLY <1>1, <1>2, <1>3, <1>8, <2>1, <2>2, <2>3
<1>. QED  BY <1>4, <1>5, <1>6, <1>7, <1>8

(* The packets that carry requests. *)
NackPacket == [base : Nacks!Seqs, mask : SUBSET (0..(MaskBits - 1))]

(* The numbers that go into the first packet of pack. *)
FirstOf(seqs) == {Nacks!Min(seqs)} \union Nacks!Reach(seqs, Nacks!Min(seqs))

(* The first packet of pack. *)
FirstPacket(seqs) ==
  [base |-> Nacks!Min(seqs),
   mask |-> {s - Nacks!Min(seqs) - 1 : s \in Nacks!Reach(seqs, Nacks!Min(seqs))}
              \intersect 0..(MaskBits - 1)]

(* The first packet is well-formed and says exactly the numbers it took:    *)
(* the mask reaches each of them, and no base plus offset wraps.            *)
LEMMA FirstPacketExact ==
  ASSUME NEW seqs \in SUBSET Nacks!Seqs, seqs # {}
  PROVE  /\ FirstOf(seqs) \in SUBSET seqs /\ FirstOf(seqs) # {}
         /\ FirstPacket(seqs) \in NackPacket
         /\ Nacks!SequencesOf(FirstPacket(seqs)) = FirstOf(seqs)
<1>. DEFINE m == Nacks!Min(seqs)
            reach == Nacks!Reach(seqs, m)
            mask == {s - m - 1 : s \in reach} \intersect 0..(MaskBits - 1)
<1>0. Space \in Nat /\ MaskBits \in Nat /\ MaskBits < Space
  BY NackConstants
<1>1. seqs \in SUBSET Nat
  BY <1>0 DEF Nacks!Seqs
<1>2. m \in seqs
  <2>1. \E n \in seqs : \A k \in seqs : n <= k
    BY <1>1, LeastNumber
  <2>. QED  BY <2>1 DEF Nacks!Min
<1>. HIDE DEF m
<1>3. m \in Nat /\ m < Space
  BY <1>0, <1>2 DEF Nacks!Seqs
<1>4. /\ reach \in SUBSET seqs
      /\ \A s \in reach : s \in Nat /\ s < Space /\ m < s /\ s - m <= MaskBits
  BY <1>0 DEF Nacks!Reach, Nacks!Seqs
<1>5. \A s \in seqs : m < s /\ s - m <= MaskBits => s \in reach
  BY DEF Nacks!Reach
<1>. HIDE DEF reach
<1>6. \A s \in reach : s - m - 1 \in mask
  BY <1>0, <1>3, <1>4
<1>7. \A i \in mask : i \in Nat /\ \E s \in reach : i = s - m - 1
  OBVIOUS
<1>8. mask \in SUBSET (0..(MaskBits - 1))
  OBVIOUS
<1>. HIDE DEF mask
<1>9. \A i \in mask : m + i + 1 \in reach /\ Nacks!Wrap(m + i + 1) = m + i + 1
  <2>. SUFFICES ASSUME NEW i \in mask
                PROVE  m + i + 1 \in reach /\ Nacks!Wrap(m + i + 1) = m + i + 1
    OBVIOUS
  <2>1. PICK s \in reach : i = s - m - 1
    BY <1>7
  <2>2. s \in Nat /\ s < Space /\ m + i + 1 = s
    BY <1>3, <1>4, <2>1
  <2>3. Nacks!Wrap(s) = s
    BY <1>0, <2>2, Wraps
  <2>. QED  BY <2>1, <2>2, <2>3
<1>10. {m} \union {Nacks!Wrap(m + i + 1) : i \in mask} = {m} \union reach
  <2>1. ASSUME NEW s \in reach  PROVE \E i \in mask : Nacks!Wrap(m + i + 1) = s
    <3>1. s - m - 1 \in mask /\ m + (s - m - 1) + 1 = s
      BY <1>3, <1>4, <1>6
    <3>. QED  BY <1>9, <3>1
  <2>. QED  BY <1>9, <2>1
<1>11. FirstOf(seqs) = {m} \union reach
  BY DEF FirstOf, m, reach
<1>12. FirstPacket(seqs) = [base |-> m, mask |-> mask]
  BY DEF FirstPacket, m, reach, mask
<1>13. Nacks!SequencesOf(FirstPacket(seqs)) = {m} \union {Nacks!Wrap(m + i + 1) : i \in mask}
  BY <1>12 DEF Nacks!SequencesOf
<1>14. FirstPacket(seqs) \in NackPacket
  BY <1>2, <1>8, <1>12 DEF NackPacket
<1>. QED  BY <1>2, <1>4, <1>10, <1>11, <1>13, <1>14

(* The equation pack is defined by. *)
Packs(f, S) ==
  \A T \in SUBSET S : f[T] = IF T = {} THEN {} ELSE {FirstPacket(T)} \union f[T \ FirstOf(T)]

(* Pack satisfies its equation: each turn leaves fewer numbers. *)
LEMMA PackEquation ==
  ASSUME NEW S \in SUBSET Nacks!Seqs
  PROVE  \E f : Packs(f, S) /\ Nacks!Pack(S) = f[S]
<1>. DEFINE D == SUBSET S
            V == SUBSET NackPacket
            N == Cardinality(S)
            size == [T \in D |-> Cardinality(T)]
            stop == {{}}
            base == [T \in D |-> {}]
            rest == [T \in D |-> T \ FirstOf(T)]
            H == [p \in D \X V |-> IF p[1] = {} THEN {} ELSE {FirstPacket(p[1])} \union p[2]]
            Def(f) == f = [T \in D |-> IF T = {} THEN {}
                                       ELSE {FirstPacket(T)} \union f[T \ FirstOf(T)]]
            g == CHOOSE f : Def(f)
<1>1. IsFiniteSet(S)
  <2>1. IsFiniteSet(Nacks!Seqs)
    BY NackConstants, FS_Interval DEF Nacks!Seqs
  <2>. QED  BY <2>1, FS_Subset
<1>2. /\ N \in Nat
      /\ \A T \in D : IsFiniteSet(T) /\ Cardinality(T) \in 0..N
  BY <1>1, FS_Subset, FS_CardinalityType
<1>3. size \in [D -> 0..N] /\ base \in [D -> V]
  BY <1>2
<1>4. ASSUME NEW T \in D, T \notin stop  PROVE rest[T] \in D /\ size[rest[T]] < size[T]
  <2>1. FirstOf(T) \in SUBSET T /\ FirstOf(T) # {}
    BY <1>4, FirstPacketExact
  <2>2. T \ FirstOf(T) \in SUBSET T /\ T \ FirstOf(T) # T
    BY <2>1
  <2>3. Cardinality(T \ FirstOf(T)) < Cardinality(T)
    BY <1>2, <2>2, FS_Subset
  <2>. QED  BY <2>2, <2>3
<1>5. H \in [D \X V -> V]
  <2>1. ASSUME NEW p \in D \X V
        PROVE  (IF p[1] = {} THEN {} ELSE {FirstPacket(p[1])} \union p[2]) \in V
    <3>1. p[1] \in D /\ p[2] \in V /\ p[1] \in SUBSET Nacks!Seqs
      OBVIOUS
    <3>2. p[1] # {} => FirstPacket(p[1]) \in NackPacket
      BY <3>1, FirstPacketExact
    <3>. QED  BY <3>1, <3>2
  <2>. QED  BY <2>1
<1>6. PICK f \in [D -> V] : Descends(f, D, stop, base, rest, H)
  <2>1. /\ N \in Nat /\ size \in [D -> 0..N] /\ base \in [D -> V] /\ H \in [D \X V -> V]
        /\ Shrinks(D, stop, rest, size)
    BY <1>2, <1>3, <1>4, <1>5 DEF Shrinks
  <2>. HIDE DEF D, V, N, size, stop, base, rest, H
  <2>. QED  BY ONLY <2>1, MeasuredRecursion
<1>7. ASSUME NEW T \in D
      PROVE  f[T] = IF T = {} THEN {} ELSE {FirstPacket(T)} \union f[T \ FirstOf(T)]
  <2>1. CASE T = {}
    BY <1>6, <2>1 DEF Descends
  <2>2. CASE T # {}
    <3>1. rest[T] = T \ FirstOf(T) /\ rest[T] \in D /\ f[rest[T]] \in V
      BY <1>4, <2>2
    <3>2. H[<<T, f[rest[T]]>>] = {FirstPacket(T)} \union f[rest[T]]
      <4>. DEFINE v == f[rest[T]]
      <4>1. <<T, v>> \in D \X V
        BY <3>1
      <4>. HIDE DEF v
      <4>. QED  BY <2>2, <4>1
    <3>3. T \notin stop
      BY <2>2
    <3>4. f[T] = H[<<T, f[rest[T]]>>]
      <4>. HIDE DEF H, rest, stop, base
      <4>. QED  BY <1>6, <3>3 DEF Descends
    <3>. QED  BY <2>2, <3>1, <3>2, <3>4
  <2>. QED  BY <2>1, <2>2
<1>8. Def(f)
  <2>. DEFINE h == [T \in D |-> IF T = {} THEN {}
                                ELSE {FirstPacket(T)} \union f[T \ FirstOf(T)]]
  <2>1. \A T \in D : f[T] = h[T]
    BY <1>7
  <2>2. h = [T \in D |-> h[T]] /\ f = [T \in D |-> f[T]]
    OBVIOUS
  <2>. HIDE DEF h
  <2>3. f = h
    BY <2>1, <2>2
  <2>. QED  BY <2>3 DEF h
<1>9. Def(g)
  <2>1. \E h : Def(h)
    BY <1>8
  <2>. HIDE DEF Def
  <2>. QED  BY <2>1
<1>10. Nacks!Pack(S) = g[S]
  BY DEF Nacks!Pack, FirstOf, FirstPacket
<1>11. Packs(g, S)
  <2>1. \A T \in D : g[T] = IF T = {} THEN {} ELSE {FirstPacket(T)} \union g[T \ FirstOf(T)]
    <3>. HIDE DEF g
    <3>. QED  BY <1>9
  <2>. HIDE DEF g
  <2>. QED  BY <2>1 DEF Packs
<1>. QED  BY <1>10, <1>11

(* The packets name these numbers and no other, each in one packet. *)
Names(packets, seqs) ==
  /\ packets \subseteq NackPacket
  /\ UNION {Nacks!SequencesOf(nack) : nack \in packets} = seqs
  /\ \A a, b \in packets : Nacks!SequencesOf(a) \intersect Nacks!SequencesOf(b) # {} => a = b

(* Pack and sequences are inverse to each other, for every set of numbers:  *)
(* nothing is dropped, invented or named twice.                             *)
LEMMA PackExact ==
  ASSUME NEW S \in SUBSET Nacks!Seqs
  PROVE  Names(Nacks!Pack(S), S)
<1>1. PICK f : Packs(f, S) /\ Nacks!Pack(S) = f[S]
  BY PackEquation
<1>. DEFINE J == {T \in SUBSET S : Names(f[T], T)}
<1>2. ASSUME NEW T \in SUBSET S, \A U \in SUBSET T : U # T => U \in J  PROVE T \in J
  <2>1. CASE T = {}
    <3>1. f[T] = {}
      BY <1>1, <2>1 DEF Packs
    <3>. QED  BY <2>1, <3>1 DEF Names
  <2>2. CASE T # {}
    <3>. DEFINE head == FirstOf(T)
                p == FirstPacket(T)
                rest == T \ head
                others == f[rest]
    <3>1. /\ head \in SUBSET T /\ head # {} /\ p \in NackPacket
          /\ Nacks!SequencesOf(p) = head
      BY <2>2, FirstPacketExact
    <3>2. f[T] = {p} \union others
      BY <1>1, <2>2 DEF Packs
    <3>. HIDE DEF head, p
    <3>3. rest \in SUBSET T /\ rest # T
      BY <3>1
    <3>4. Names(others, rest)
      BY <1>2, <3>3
    <3>. HIDE DEF others
    <3>5. \A b \in others : Nacks!SequencesOf(b) \subseteq rest
      BY <3>4 DEF Names
    <3>6. UNION {Nacks!SequencesOf(nack) : nack \in f[T]} = head \union rest
      BY <3>1, <3>2, <3>4 DEF Names
    <3>7. head \union rest = T
      BY <3>1
    <3>8. ASSUME NEW a \in f[T], NEW b \in f[T],
                 Nacks!SequencesOf(a) \intersect Nacks!SequencesOf(b) # {}
          PROVE  a = b
      <4>1. a = p /\ b \in others => FALSE
        BY <3>1, <3>5, <3>8
      <4>2. b = p /\ a \in others => FALSE
        BY <3>1, <3>5, <3>8
      <4>3. a \in others /\ b \in others => a = b
        BY <3>4, <3>8 DEF Names
      <4>. QED  BY <3>2, <4>1, <4>2, <4>3
    <3>. QED  BY <3>1, <3>2, <3>4, <3>6, <3>7, <3>8 DEF Names
  <2>. QED  BY <2>1, <2>2
<1>3. IsFiniteSet(S)
  <2>1. IsFiniteSet(Nacks!Seqs)
    BY NackConstants, FS_Interval DEF Nacks!Seqs
  <2>. QED  BY <2>1, FS_Subset
<1>4. S \in J
  <2>. HIDE DEF J
  <2>. QED  BY <1>2, <1>3, StrongSubsetInduction
<1>. QED  BY <1>1, <1>4

(* An entry of the table and the hole it stands for agree about time and    *)
(* requests; what it has waited and has to wait is a least round trip for   *)
(* every request, as long as the age is exact.                              *)
Matches(entry, hole) ==
  /\ hole.age = entry.age /\ hole.asked = entry.retries
  /\ entry.age < Lifetime =>
       Delay + entry.retries * Nacks!MinRtt <= entry.age + entry.wait

(* The table keeps its types. *)
ListTyped(list) ==
  DOMAIN list \subseteq Nacks!Seqs /\ \A s \in DOMAIN list : list[s] \in Nacks!Info

(* The holes keep their types. *)
HolesTyped(some) ==
  DOMAIN some \subseteq 1..(Nacks!Half - 1) /\ \A d \in DOMAIN some : some[d] \in Nacks!Hole

(* Every number the table lists is a hole, whose history it matches. *)
ListsHoles(list, some, at) ==
  \A s \in DOMAIN list : /\ Nacks!Wrap(at - s) \in DOMAIN some
                         /\ Matches(list[s], some[Nacks!Wrap(at - s)])

(* Why a hole need not be in the table. *)
GivenUp(hole, d) ==
  hole.excused \/ d > MaxAge \/ hole.age + 2 * Nacks!MaxRtt >= Lifetime

(* A hole is in the table or was given up. *)
HolesListed(list, some, at) ==
  \A d \in DOMAIN some : Nacks!Wrap(at - d) \in DOMAIN list \/ GivenUp(some[d], d)

(* The requests for one hole, as RequestsSpaced has it. *)
Spaced(hole) ==
  /\ hole.asked <= MaxRetries
  /\ hole.asked > 0 => Delay + (hole.asked - 1) * Nacks!MinRtt <= hole.age

(* The table and the holes behind the newest packet belong together. *)
ListsMissing(list, some, at) ==
  /\ ListTyped(list) /\ HolesTyped(some)
  /\ ListsHoles(list, some, at) /\ HolesListed(list, some, at)
  /\ \A d \in DOMAIN some : Spaced(some[d])

(* The inductive invariant of the requester. *)
NackInv ==
  /\ newest \in Nacks!Seqs \union {Nacks!None} /\ top \in Nacks!Seqs
  /\ newest = Nacks!None => DOMAIN pending = {} /\ DOMAIN holes = {}
  /\ newest # Nacks!None => newest = top
  /\ Cardinality(DOMAIN pending) <= MaxList
  /\ rtt \in Rtts /\ sinceNack \in 0..Interval /\ nacks \subseteq NackPacket
  /\ ListsMissing(pending, holes, top)

(* The fields of an entry are numbers. *)
LEMMA EntryFields ==
  ASSUME NEW entry \in Nacks!Info
  PROVE  /\ entry.age \in 0..Lifetime /\ entry.wait \in Nat /\ entry.retries \in 0..MaxRetries
         /\ entry.age \in Nat /\ entry.retries \in Nat
<1>1. \A n \in 0..Nacks!Max({Nacks!MaxRtt, Delay}) : n \in Nat
  OBVIOUS
<1>. QED  BY <1>1, NackConstants DEF Nacks!Info

(* The fields of a hole are numbers. *)
LEMMA HoleFields ==
  ASSUME NEW hole \in Nacks!Hole
  PROVE  /\ hole.age \in 0..Lifetime /\ hole.asked \in 0..(MaxRetries + 1)
         /\ hole.excused \in BOOLEAN /\ hole.age \in Nat /\ hole.asked \in Nat
BY NackConstants DEF Nacks!Hole

(* The longest wait an entry can have bounds the delay and every round      *)
(* trip.                                                                    *)
LEMMA WaitBound ==
  /\ Delay \in 0..Nacks!Max({Nacks!MaxRtt, Delay})
  /\ \A r \in Rtts : r \in 0..Nacks!Max({Nacks!MaxRtt, Delay})
  /\ \A n \in 1..Nacks!Max({Nacks!MaxRtt, Delay}) :
       n - 1 \in 0..Nacks!Max({Nacks!MaxRtt, Delay})
<1>. DEFINE most == Nacks!Max({Nacks!MaxRtt, Delay})
<1>1. Nacks!MaxRtt \in Nat /\ Delay \in Nat
  BY NackConstants, RttBounds
<1>2. most = IF Nacks!MaxRtt >= Delay THEN Nacks!MaxRtt ELSE Delay
  <2>1. \A m \in {Nacks!MaxRtt, Delay} :
          (\A n \in {Nacks!MaxRtt, Delay} : m >= n)
            <=> m = IF Nacks!MaxRtt >= Delay THEN Nacks!MaxRtt ELSE Delay
    BY <1>1
  <2>. QED  BY <1>1, <2>1 DEF Nacks!Max
<1>. HIDE DEF most
<1>3. most \in Nat /\ Delay <= most /\ Nacks!MaxRtt <= most
  BY <1>1, <1>2
<1>4. \A r \in Rtts : r \in 0..most
  BY <1>1, <1>3, RttBounds
<1>5. \A n \in 1..most : n - 1 \in 0..most
  BY <1>3
<1>6. Delay \in 0..most
  BY <1>1, <1>3
<1>. QED  BY <1>4, <1>5, <1>6 DEF most

(* A new entry and a new hole match. *)
LEMMA NewEntries ==
  /\ Nacks!NewGap \in Nacks!Info /\ Nacks!NewHole \in Nacks!Hole
  /\ Matches(Nacks!NewGap, Nacks!NewHole) /\ Spaced(Nacks!NewHole)
<1>1. /\ Nacks!NewGap.age = 0 /\ Nacks!NewGap.wait = Delay /\ Nacks!NewGap.retries = 0
      /\ Nacks!NewHole.age = 0 /\ Nacks!NewHole.asked = 0
  BY DEF Nacks!NewGap, Nacks!NewHole
<1>2. Nacks!NewGap \in Nacks!Info
  BY NackConstants, WaitBound DEF Nacks!NewGap, Nacks!Info
<1>3. Nacks!NewHole \in Nacks!Hole
  BY NackConstants DEF Nacks!NewHole, Nacks!Hole
<1>4. 0 * Nacks!MinRtt = 0
  BY RttBounds
<1>5. Matches(Nacks!NewGap, Nacks!NewHole)
  BY <1>1, <1>4, NackConstants DEF Matches
<1>. QED  BY <1>1, <1>2, <1>3, <1>5, NackConstants DEF Spaced

(* A keyframe request excuses every hole, and changes nothing else. *)
LEMMA ExcuseAll ==
  ASSUME NEW list, ListTyped(list), NEW some, HolesTyped(some), NEW at,
         ListsHoles(list, some, at), \A d \in DOMAIN some : Spaced(some[d])
  PROVE  ListsMissing(list, Nacks!Excuse(some), at)
<1>. DEFINE new == Nacks!Excuse(some)
<1>1. /\ DOMAIN new = DOMAIN some
      /\ \A d \in DOMAIN some :
           /\ new[d] \in Nacks!Hole /\ new[d].age = some[d].age
           /\ new[d].asked = some[d].asked /\ new[d].excused
  BY DEF Nacks!Excuse, HolesTyped, Nacks!Hole
<1>. HIDE DEF new
<1>2. HolesTyped(new)
  BY <1>1 DEF HolesTyped
<1>3. ListsHoles(list, new, at)
  BY <1>1 DEF ListsHoles, Matches
<1>4. HolesListed(list, new, at)
  BY <1>1 DEF HolesListed, GivenUp
<1>5. \A d \in DOMAIN new : Spaced(new[d])
  BY <1>1 DEF Spaced
<1>. QED  BY <1>2, <1>3, <1>4, <1>5 DEF ListsMissing, new

(* The table may be given up when a keyframe was asked for. *)
LEMMA NothingListed ==
  ASSUME NEW some, HolesTyped(some), NEW at, \A d \in DOMAIN some : Spaced(some[d])
  PROVE  ListsMissing(<<>>, Nacks!Excuse(some), at)
<1>1. DOMAIN <<>> = {}
  OBVIOUS
<1>2. ListTyped(<<>>) /\ ListsHoles(<<>>, some, at)
  BY <1>1 DEF ListTyped, ListsHoles
<1>. QED  BY <1>2, ExcuseAll

(* What is left when one entry goes. *)
LEMMA WithoutOne ==
  ASSUME NEW f, NEW s
  PROVE  /\ DOMAIN Nacks!Without(f, {s}) = DOMAIN f \ {s}
         /\ \A t \in DOMAIN f \ {s} : Nacks!Without(f, {s})[t] = f[t]
BY DEF Nacks!Without

(* A table over the sequence space is finite, and so smaller with less in   *)
(* it.                                                                      *)
LEMMA ListIsSmall ==
  ASSUME NEW S \in SUBSET Nacks!Seqs, NEW T \in SUBSET S
  PROVE  Cardinality(T) \in Nat /\ Cardinality(S) \in Nat /\ Cardinality(T) <= Cardinality(S)
<1>1. IsFiniteSet(Nacks!Seqs)
  BY NackConstants, FS_Interval DEF Nacks!Seqs
<1>. QED  BY <1>1, FS_Subset, FS_CardinalityType

(* A packet from behind takes its own entry and its own hole, and no other. *)
LEMMA BehindTracks ==
  ASSUME top \in Nacks!Seqs, ListsMissing(pending, holes, top), NEW back \in 0..(Nacks!Half - 1)
  PROVE  ListsMissing(Nacks!Cleared(Nacks!Wrap(top - back)), Nacks!Without(holes, {back}), top)
<1>. DEFINE seq == Nacks!Wrap(top - back)
            list == Nacks!Cleared(seq)
            some == Nacks!Without(holes, {back})
<1>0. Nacks!Half - 1 < Space /\ back \in 0..(Space - 1)
  BY NackConstants
<1>1. /\ DOMAIN list = DOMAIN pending \ {seq} /\ DOMAIN some = DOMAIN holes \ {back}
      /\ \A s \in DOMAIN list : list[s] = pending[s]
      /\ \A d \in DOMAIN some : some[d] = holes[d]
  BY WithoutOne DEF Nacks!Cleared
<1>2. seq \in Nacks!Seqs /\ Nacks!Wrap(top - seq) = back
  BY <1>0, Ago
<1>. HIDE DEF seq, list, some
<1>3. ListTyped(list) /\ HolesTyped(some) /\ \A d \in DOMAIN some : Spaced(some[d])
  BY <1>1 DEF ListsMissing, ListTyped, HolesTyped
<1>4. ListsHoles(list, some, top)
  <2>. SUFFICES ASSUME NEW s \in DOMAIN list  PROVE Nacks!Wrap(top - s) # back
    BY <1>1 DEF ListsMissing, ListsHoles
  <2>1. s \in Nacks!Seqs /\ s # seq
    BY <1>1 DEF ListsMissing, ListTyped
  <2>2. Nacks!Wrap(top - Nacks!Wrap(top - s)) = s
    BY <2>1, Distance
  <2>. QED  BY <2>1, <2>2 DEF seq
<1>5. HolesListed(list, some, top)
  <2>. SUFFICES ASSUME NEW d \in DOMAIN some, Nacks!Wrap(top - d) = seq  PROVE FALSE
    BY <1>1 DEF ListsMissing, HolesListed
  <2>1. d \in 0..(Space - 1) /\ d # back
    BY <1>1, NackConstants DEF ListsMissing, HolesTyped
  <2>2. Nacks!Wrap(top - Nacks!Wrap(top - d)) = d
    BY <2>1, Ago
  <2>. QED  BY <1>2, <2>1, <2>2
<1>. QED  BY <1>3, <1>4, <1>5 DEF ListsMissing, seq, list, some

(* The holes seen from a newer packet: the old ones further behind, one new *)
(* hole for each packet passed over.                                        *)
LEMMA MovedHoles ==
  ASSUME HolesTyped(holes), \A d \in DOMAIN holes : Spaced(holes[d]),
         NEW steps \in 1..(Nacks!Half - 1)
  PROVE  /\ HolesTyped(Nacks!Moved(steps))
         /\ \A d \in DOMAIN Nacks!Moved(steps) : Spaced(Nacks!Moved(steps)[d])
         /\ \A d \in DOMAIN holes : d + steps < Nacks!Half =>
              d + steps \in DOMAIN Nacks!Moved(steps) /\ Nacks!Moved(steps)[d + steps] = holes[d]
         /\ \A d \in 1..(steps - 1) :
              d \in DOMAIN Nacks!Moved(steps) /\ Nacks!Moved(steps)[d] = Nacks!NewHole
         /\ \A d \in DOMAIN Nacks!Moved(steps) :
              d \in 1..(steps - 1) \/ \E e \in DOMAIN holes : d = e + steps
<1>. DEFINE half == Nacks!Half
            old == {d \in DOMAIN holes : d + steps < half}
            places == {e + steps : e \in old} \union 1..(steps - 1)
            m == Nacks!Moved(steps)
<1>0. half \in Nat /\ steps \in Nat /\ 1 <= steps /\ steps < half
  BY NackConstants
<1>1. \A d \in DOMAIN holes : d \in Nat /\ 1 <= d /\ d < half /\ holes[d] \in Nacks!Hole
  BY <1>0 DEF HolesTyped
<1>2. m = [d \in places |-> IF d < steps THEN Nacks!NewHole ELSE holes[d - steps]]
  BY DEF Nacks!Moved
<1>3. /\ DOMAIN m = places
      /\ \A d \in places : m[d] = IF d < steps THEN Nacks!NewHole ELSE holes[d - steps]
  BY <1>2
<1>. HIDE DEF m, half
<1>4. ASSUME NEW d \in DOMAIN holes, d + steps < half
      PROVE  d + steps \in places /\ m[d + steps] = holes[d]
  <2>1. d + steps \in places
    BY <1>4
  <2>2. ~(d + steps < steps) /\ (d + steps) - steps = d
    BY <1>0, <1>1
  <2>. HIDE DEF places
  <2>. QED  BY <1>3, <2>1, <2>2
<1>5. ASSUME NEW d \in 1..(steps - 1)  PROVE d \in places /\ m[d] = Nacks!NewHole
  BY <1>0, <1>3
<1>6. ASSUME NEW d \in places
      PROVE  \/ d \in 1..(steps - 1)
             \/ \E e \in DOMAIN holes : e + steps < half /\ d = e + steps
  OBVIOUS
<1>. HIDE DEF places
<1>7. ASSUME NEW d \in places  PROVE d \in 1..(half - 1) /\ m[d] \in Nacks!Hole /\ Spaced(m[d])
  <2>1. CASE d \in 1..(steps - 1)
    BY <1>0, <1>5, <2>1, NewEntries
  <2>2. ASSUME NEW e \in DOMAIN holes, e + steps < half, d = e + steps
        PROVE  d \in 1..(half - 1) /\ m[d] \in Nacks!Hole /\ Spaced(m[d])
    BY <1>0, <1>1, <1>4, <2>2
  <2>. QED  BY <1>6, <2>1, <2>2
<1>8. HolesTyped(m)
  BY <1>3, <1>7 DEF HolesTyped, half
<1>9. \A d \in DOMAIN m : Spaced(m[d])
  BY <1>3, <1>7
<1>. QED  BY <1>3, <1>4, <1>5, <1>6, <1>8, <1>9 DEF m, half

(* A newer packet lists what it passed over, and what was listed before     *)
(* keeps its times.                                                         *)
LEMMA AheadTracks ==
  ASSUME top \in Nacks!Seqs, ListsMissing(pending, holes, top),
         NEW steps \in 1..(Nacks!Half - 1),
         \A s \in DOMAIN pending : Nacks!Wrap(top - s) + steps < Nacks!Half,
         NEW seq, seq = Nacks!Wrap(top + steps)
  PROVE  ListsMissing(Nacks!WithGaps(Nacks!Cleared(seq), Nacks!Gap(top, seq)),
                      Nacks!Moved(steps), seq)
<1>. DEFINE half == Nacks!Half
            list == Nacks!Cleared(seq)
            gap == Nacks!Gap(top, seq)
            new == Nacks!WithGaps(list, gap)
            moved == Nacks!Moved(steps)
<1>0. /\ half \in Nat /\ Space = 2 * half /\ Space \in Nat
      /\ steps \in Nat /\ 1 <= steps /\ steps < half
  BY NackConstants
<1>1. /\ seq \in Nacks!Seqs /\ Nacks!Wrap(seq - top) = steps
      /\ \A d \in Nat : d + steps < Space => Nacks!Wrap(seq - (d + steps)) = Nacks!Wrap(top - d)
      /\ \A j \in 1..(steps - 1) : Nacks!Wrap(seq - j) = Nacks!Wrap(top + (steps - j))
      /\ \A s \in Nacks!Seqs : Nacks!Wrap(top - s) + steps < Space =>
           Nacks!Wrap(seq - s) = Nacks!Wrap(top - s) + steps
  BY Later
<1>2. /\ HolesTyped(moved) /\ \A d \in DOMAIN moved : Spaced(moved[d])
      /\ \A d \in DOMAIN holes : d + steps < half =>
           d + steps \in DOMAIN moved /\ moved[d + steps] = holes[d]
      /\ \A d \in 1..(steps - 1) : d \in DOMAIN moved /\ moved[d] = Nacks!NewHole
      /\ \A d \in DOMAIN moved : d \in 1..(steps - 1) \/ \E e \in DOMAIN holes : d = e + steps
  <2>1. /\ HolesTyped(holes) /\ \A d \in DOMAIN holes : Spaced(holes[d])
        /\ steps \in 1..(Nacks!Half - 1)
    BY DEF ListsMissing
  <2>. QED  BY ONLY <2>1, MovedHoles, SMTT(30)
<1>3. DOMAIN list = DOMAIN pending \ {seq} /\ \A s \in DOMAIN list : list[s] = pending[s]
  <2>1. list = Nacks!Without(pending, {seq})
    BY DEF Nacks!Cleared
  <2>. HIDE DEF list
  <2>2. /\ DOMAIN Nacks!Without(pending, {seq}) = DOMAIN pending \ {seq}
        /\ \A s \in DOMAIN pending \ {seq} : Nacks!Without(pending, {seq})[s] = pending[s]
    BY ONLY WithoutOne
  <2>. QED  BY ONLY <2>1, <2>2
<1>4. gap = {Nacks!Wrap(top + k) : k \in 1..(steps - 1)}
  BY <1>1 DEF Nacks!Gap
<1>5. /\ DOMAIN new = DOMAIN list \union gap
      /\ \A s \in DOMAIN list : new[s] = list[s]
      /\ \A s \in gap : s \notin DOMAIN list => new[s] = Nacks!NewGap
  BY DEF Nacks!WithGaps
<1>6. ASSUME NEW s \in gap
      PROVE  \E j \in 1..(steps - 1) : s = Nacks!Wrap(seq - j)
  <2>1. PICK k \in 1..(steps - 1) : s = Nacks!Wrap(top + k)
    BY <1>4
  <2>2. steps - k \in 1..(steps - 1) /\ steps - (steps - k) = k
    BY <1>0
  <2>. QED  BY <1>1, <2>1, <2>2
<1>7. ASSUME NEW j \in 1..(steps - 1)
      PROVE  /\ Nacks!Wrap(seq - j) \in gap /\ Nacks!Wrap(seq - j) \in Nacks!Seqs
             /\ Nacks!Wrap(seq - Nacks!Wrap(seq - j)) = j
  <2>1. steps - j \in 1..(steps - 1) /\ j \in 0..(Space - 1)
    BY <1>0
  <2>. QED  BY <1>1, <1>4, <2>1, Ago
<1>8. \A s \in DOMAIN pending :
        /\ s \in Nacks!Seqs /\ pending[s] \in Nacks!Info
        /\ Nacks!Wrap(top - s) \in DOMAIN holes
        /\ Matches(pending[s], holes[Nacks!Wrap(top - s)])
  BY DEF ListsMissing, ListTyped, ListsHoles
<1>9. \A d \in DOMAIN holes : d \in Nat /\ 1 <= d /\ d < half
  BY <1>0 DEF ListsMissing, HolesTyped
<1>. HIDE DEF half, list, gap, new, moved
<1>10. ListTyped(new)
  <2>. SUFFICES ASSUME NEW s \in DOMAIN new  PROVE s \in Nacks!Seqs /\ new[s] \in Nacks!Info
    BY DEF ListTyped
  <2>1. CASE s \in DOMAIN list
    BY <1>3, <1>5, <1>8, <2>1
  <2>2. CASE s \in gap /\ s \notin DOMAIN list
    BY <1>5, <1>6, <1>7, <2>2, NewEntries
  <2>. QED  BY <1>5, <2>1, <2>2
<1>11. ListsHoles(new, moved, seq)
  <2>. SUFFICES ASSUME NEW s \in DOMAIN new
                PROVE  /\ Nacks!Wrap(seq - s) \in DOMAIN moved
                       /\ Matches(new[s], moved[Nacks!Wrap(seq - s)])
    BY DEF ListsHoles
  <2>1. CASE s \in DOMAIN list
    <3>. DEFINE d == Nacks!Wrap(top - s)
    <3>1. s \in DOMAIN pending /\ new[s] = pending[s]
      BY <1>3, <1>5, <2>1
    <3>2. d \in DOMAIN holes /\ d + steps < half /\ Matches(pending[s], holes[d])
      BY <1>8, <3>1 DEF half
    <3>3. Nacks!Wrap(seq - s) = d + steps
      BY <1>0, <1>1, <1>8, <1>9, <3>1, <3>2
    <3>. QED  BY <1>2, <3>1, <3>2, <3>3
  <2>2. CASE s \in gap /\ s \notin DOMAIN list
    <3>1. PICK j \in 1..(steps - 1) : s = Nacks!Wrap(seq - j)
      BY <1>6, <2>2
    <3>2. Nacks!Wrap(seq - s) = j /\ j \in DOMAIN moved /\ moved[j] = Nacks!NewHole
      BY <1>2, <1>7, <3>1
    <3>. QED  BY <1>5, <2>2, <3>2, NewEntries
  <2>. QED  BY <1>5, <2>1, <2>2
<1>12. HolesListed(new, moved, seq)
  <2>. SUFFICES ASSUME NEW d \in DOMAIN moved
                PROVE  Nacks!Wrap(seq - d) \in DOMAIN new \/ GivenUp(moved[d], d)
    BY DEF HolesListed
  <2>1. CASE d \in 1..(steps - 1)
    BY <1>5, <1>7, <2>1
  <2>2. ASSUME NEW e \in DOMAIN holes, d = e + steps
        PROVE  Nacks!Wrap(seq - d) \in DOMAIN new \/ GivenUp(moved[d], d)
    <3>1. d < half /\ d \in Nat
      BY <1>0, <1>2, <1>9, <2>2 DEF HolesTyped, half
    <3>2. moved[d] = holes[e] /\ e \in Nat /\ 1 <= e
      BY <1>2, <1>9, <2>2, <3>1
    <3>3. Nacks!Wrap(seq - d) = Nacks!Wrap(top - e)
      BY <1>0, <1>1, <2>2, <3>1, <3>2
    <3>4. CASE Nacks!Wrap(top - e) \in DOMAIN pending
      <4>1. Nacks!Wrap(seq - d) # seq
        <5>1. d \in 0..(Space - 1) /\ 0 \in 0..(Space - 1) /\ d # 0
          BY <1>0, <2>2, <3>1, <3>2
        <5>2. Nacks!Wrap(seq - Nacks!Wrap(seq - d)) = d
          BY <1>1, <5>1, Ago
        <5>3. Nacks!Wrap(seq - seq) = 0
          BY <1>0, <1>1, Distance DEF Nacks!Seqs
        <5>. QED  BY <5>1, <5>2, <5>3
      <4>. QED  BY <1>3, <1>5, <3>3, <3>4, <4>1
    <3>5. CASE GivenUp(holes[e], e)
      <4>1. e > MaxAge => d > MaxAge
        BY <1>0, <2>2, <3>2, NackConstants
      <4>. QED  BY <3>2, <3>5, <4>1 DEF GivenUp
    <3>. QED  BY <3>4, <3>5 DEF ListsMissing, HolesListed
  <2>. QED  BY <1>2, <2>1, <2>2
<1>. QED  BY <1>2, <1>10, <1>11, <1>12 DEF ListsMissing, new, list, gap, moved

(* One request: the entry waits a round trip again, and the hole counts it. *)
LEMMA AskedEntry ==
  ASSUME NEW entry \in Nacks!Info, NEW hole \in Nacks!Hole, Matches(entry, hole),
         entry.wait = 0, entry.age + 2 * rtt < Lifetime, entry.retries < MaxRetries,
         rtt \in Rtts,
         NEW asked, asked = Nacks!Ask(entry),
         NEW told, told = [hole EXCEPT !.asked = Nacks!AtMost(@ + 1, MaxRetries + 1)]
  PROVE  /\ asked \in Nacks!Info /\ told \in Nacks!Hole
         /\ Matches(asked, told) /\ Spaced(told)
         /\ told.age = hole.age /\ told.excused = hole.excused
         /\ asked.retries = entry.retries + 1
<1>. DEFINE a == entry.age
            r == entry.retries
            least == Nacks!MinRtt
<1>1. /\ a \in Nat /\ a \in 0..Lifetime /\ r \in Nat /\ hole.age = a /\ hole.asked = r
  BY EntryFields DEF Matches
<1>2. /\ rtt \in Nat /\ least \in Nat /\ least <= rtt /\ MaxRetries \in Nat /\ Lifetime \in Nat
      /\ Delay \in Nat
  BY NackConstants, RttBounds
<1>3. Delay + r * least <= a
  BY <1>1, <1>2 DEF Matches
<1>4. asked = [entry EXCEPT !.retries = @ + 1, !.wait = rtt]
  BY DEF Nacks!Ask
<1>5. asked.age = a /\ asked.retries = r + 1 /\ asked.wait = rtt
  BY <1>4 DEF Nacks!Info
<1>6. rtt \in 0..Nacks!Max({Nacks!MaxRtt, Delay})
  BY WaitBound
<1>7. r + 1 \in 0..MaxRetries
  BY <1>1, <1>2
<1>8. asked \in Nacks!Info
  BY <1>4, <1>6, <1>7 DEF Nacks!Info
<1>9. Nacks!AtMost(hole.asked + 1, MaxRetries + 1) = r + 1
  BY <1>1, <1>2 DEF Nacks!AtMost
<1>10. told = [hole EXCEPT !.asked = r + 1]
  BY <1>9
<1>11. told.age = a /\ told.asked = r + 1 /\ told.excused = hole.excused
  BY <1>1, <1>10 DEF Nacks!Hole
<1>12. told \in Nacks!Hole
  BY <1>1, <1>2, <1>7, <1>10 DEF Nacks!Hole
<1>. HIDE DEF a, r, least
<1>13. r * least \in Nat /\ (r + 1) * least = r * least + least /\ (r + 1) - 1 = r
  BY <1>1, <1>2
<1>14. Delay + (r + 1) * least <= a + rtt
  BY <1>1, <1>2, <1>3, <1>13
<1>15. Matches(asked, told)
  BY <1>5, <1>11, <1>14 DEF Matches, least
<1>16. Spaced(told)
  BY <1>2, <1>3, <1>7, <1>11, <1>13 DEF Spaced, least
<1>. QED  BY <1>1, <1>5, <1>8, <1>11, <1>12, <1>15, <1>16 DEF a, r

(* poll_nacks drops what it has given up, asks for what is due, and asks    *)
(* for nothing else.                                                        *)
LEMMA PollTracks ==
  ASSUME NackInv, Nacks!PollNacks
  PROVE  /\ nacks' \subseteq NackPacket /\ Names(nacks', Nacks!Due)
         /\ ListsMissing(pending', holes', top) /\ DOMAIN pending' \subseteq DOMAIN pending
         /\ DOMAIN holes' = DOMAIN holes
         /\ \A s \in DOMAIN pending' :
              pending'[s] = IF s \in Nacks!Due THEN Nacks!Ask(pending[s]) ELSE pending[s]
         /\ \A s \in Nacks!Due : /\ s \in DOMAIN pending' /\ pending[s].retries \in Nat
                                 /\ Nacks!Ask(pending[s]).retries = pending[s].retries + 1
<1>. DEFINE due == Nacks!Due
            Heard(d) == \E nack \in nacks' : Nacks!Wrap(top - d) \in Nacks!SequencesOf(nack)
            told(d) == [holes[d] EXCEPT !.asked = Nacks!AtMost(@ + 1, MaxRetries + 1)]
            counted == [d \in DOMAIN holes |-> IF Heard(d) THEN told(d) ELSE holes[d]]
<1>1. /\ top \in Nacks!Seqs /\ rtt \in Rtts /\ ListsMissing(pending, holes, top)
      /\ (DOMAIN pending # {} => newest = top)
  BY DEF NackInv
<1>2. \A s \in DOMAIN pending :
        /\ s \in Nacks!Seqs /\ pending[s] \in Nacks!Info
        /\ Nacks!Wrap(top - s) \in DOMAIN holes
        /\ Matches(pending[s], holes[Nacks!Wrap(top - s)])
  BY <1>1 DEF ListsMissing, ListTyped, ListsHoles
<1>3. \A d \in DOMAIN holes : /\ d \in Nat /\ d \in 0..(Space - 1) /\ holes[d] \in Nacks!Hole
                              /\ Spaced(holes[d])
  BY <1>1, NackConstants DEF ListsMissing, HolesTyped
<1>4. /\ nacks' = Nacks!Pack(due)
      /\ DOMAIN pending' = DOMAIN pending \ Nacks!Pruned
      /\ \A s \in DOMAIN pending' :
           pending'[s] = IF s \in due THEN Nacks!Ask(pending[s]) ELSE pending[s]
      /\ holes' = Nacks!Told(counted, Nacks!AsksKeyframe)
  BY DEF Nacks!PollNacks
<1>5. /\ due \subseteq DOMAIN pending'
      /\ \A s \in due : pending[s].wait = 0
  BY <1>4 DEF Nacks!Due
<1>6. ASSUME NEW s \in DOMAIN pending'
      PROVE  /\ s \in DOMAIN pending
             /\ pending[s].age + 2 * rtt < Lifetime /\ pending[s].retries < MaxRetries
  <2>1. s \in DOMAIN pending /\ s \notin Nacks!Pruned
    BY <1>4
  <2>2. ~(pending[s].age + 2 * rtt >= Lifetime) /\ ~(pending[s].retries >= MaxRetries)
    BY <2>1 DEF Nacks!Pruned, Nacks!TooLate, Nacks!OutOfTries
  <2>3. pending[s].age \in Nat /\ pending[s].retries \in Nat /\ rtt \in Nat
    BY <1>1, <1>2, <2>1, EntryFields, RttBounds
  <2>. QED  BY <2>1, <2>2, <2>3, NackConstants
<1>7. due \in SUBSET Nacks!Seqs
  BY <1>2, <1>5, <1>6
<1>8. Names(nacks', due)
  BY <1>4, <1>7, PackExact
<1>9. ASSUME NEW d \in DOMAIN holes  PROVE Heard(d) <=> Nacks!Wrap(top - d) \in due
  BY <1>8 DEF Names
<1>10. ASSUME NEW s \in due
       PROVE  /\ s \in DOMAIN pending' /\ pending[s].retries \in Nat
              /\ LET d == Nacks!Wrap(top - s)
                     asked == Nacks!Ask(pending[s])
                 IN /\ asked \in Nacks!Info /\ told(d) \in Nacks!Hole
                    /\ Matches(asked, told(d)) /\ Spaced(told(d))
                    /\ told(d).age = holes[d].age /\ told(d).excused = holes[d].excused
                    /\ asked.retries = pending[s].retries + 1
  <2>. DEFINE d == Nacks!Wrap(top - s)
              asked == Nacks!Ask(pending[s])
              t == told(d)
  <2>1. s \in DOMAIN pending' /\ s \in DOMAIN pending /\ d \in DOMAIN holes
    BY <1>2, <1>5, <1>6
  <2>2. /\ pending[s].age + 2 * rtt < Lifetime /\ pending[s].retries < MaxRetries
        /\ pending[s].wait = 0 /\ Matches(pending[s], holes[d])
        /\ pending[s] \in Nacks!Info /\ holes[d] \in Nacks!Hole
    BY <1>2, <1>3, <1>5, <1>6, <2>1
  <2>3. pending[s].retries \in Nat
    BY <2>2, EntryFields
  <2>4. t = [holes[d] EXCEPT !.asked = Nacks!AtMost(@ + 1, MaxRetries + 1)]
    OBVIOUS
  <2>. HIDE DEF t
  <2>5. /\ asked \in Nacks!Info /\ t \in Nacks!Hole /\ Matches(asked, t) /\ Spaced(t)
        /\ t.age = holes[d].age /\ t.excused = holes[d].excused
        /\ asked.retries = pending[s].retries + 1
    BY <1>1, <2>2, <2>4, AskedEntry
  <2>. QED  BY <2>1, <2>3, <2>5 DEF t
<1>11. ASSUME NEW d \in DOMAIN holes
       PROVE  /\ counted[d] \in Nacks!Hole /\ Spaced(counted[d])
              /\ counted[d].age = holes[d].age /\ counted[d].excused = holes[d].excused
              /\ counted[d] = IF Nacks!Wrap(top - d) \in due THEN told(d) ELSE holes[d]
  <2>1. counted[d] = IF Nacks!Wrap(top - d) \in due THEN told(d) ELSE holes[d]
    BY <1>9
  <2>2. Nacks!Wrap(top - Nacks!Wrap(top - d)) = d
    BY <1>1, <1>3, Ago
  <2>. HIDE DEF counted, due, told
  <2>3. CASE Nacks!Wrap(top - d) \in due
    BY <1>10, <2>1, <2>2, <2>3
  <2>4. CASE Nacks!Wrap(top - d) \notin due
    BY <1>3, <2>1, <2>4
  <2>. QED  BY <2>1, <2>3, <2>4
<1>12. DOMAIN counted = DOMAIN holes
  OBVIOUS
<1>. HIDE DEF counted, due, told, Heard
<1>13. ListTyped(pending')
  BY <1>2, <1>4, <1>6, <1>10 DEF ListTyped
<1>14. HolesTyped(counted) /\ \A d \in DOMAIN counted : Spaced(counted[d])
  BY <1>1, <1>11, <1>12 DEF HolesTyped, ListsMissing
<1>15. ListsHoles(pending', counted, top)
  <2>. SUFFICES ASSUME NEW s \in DOMAIN pending'
                PROVE  /\ Nacks!Wrap(top - s) \in DOMAIN counted
                       /\ Matches(pending'[s], counted[Nacks!Wrap(top - s)])
    BY DEF ListsHoles
  <2>. DEFINE d == Nacks!Wrap(top - s)
  <2>1. s \in Nacks!Seqs /\ d \in DOMAIN holes /\ Matches(pending[s], holes[d])
    BY <1>2, <1>6
  <2>2. Nacks!Wrap(top - d) = s
    BY <1>1, <2>1, Distance
  <2>. HIDE DEF d
  <2>3. CASE s \in due
    BY <1>4, <1>10, <1>11, <1>12, <2>1, <2>2, <2>3 DEF d
  <2>4. CASE s \notin due
    BY <1>4, <1>11, <1>12, <2>1, <2>2, <2>4 DEF d
  <2>. QED  BY <2>3, <2>4
<1>16. CASE Nacks!AsksKeyframe
  <2>1. holes' = Nacks!Excuse(counted)
    BY <1>4, <1>16 DEF Nacks!Told
  <2>2. ListsMissing(pending', holes', top)
    BY <1>13, <1>14, <1>15, <2>1, ExcuseAll
  <2>3. DOMAIN holes' = DOMAIN holes
    BY <1>12, <2>1 DEF Nacks!Excuse
  <2>. QED  BY <1>4, <1>8, <1>10, <2>2, <2>3 DEF Names, due
<1>17. CASE ~Nacks!AsksKeyframe
  <2>1. holes' = counted
    BY <1>4, <1>17 DEF Nacks!Told
  <2>2. HolesListed(pending', counted, top)
    <3>. SUFFICES ASSUME NEW d \in DOMAIN holes, Nacks!Wrap(top - d) \notin DOMAIN pending'
                  PROVE  GivenUp(counted[d], d)
      BY <1>12 DEF HolesListed
    <3>. DEFINE s == Nacks!Wrap(top - d)
    <3>1. Nacks!Wrap(top - s) = d
      BY <1>1, <1>3, Ago
    <3>2. CASE s \in DOMAIN pending
      <4>1. newest = top /\ Matches(pending[s], holes[d])
        BY <1>1, <1>2, <3>1, <3>2
      <4>2. Nacks!TooFar(s) \/ Nacks!TooLate(s)
        BY <1>4, <1>17, <3>2 DEF Nacks!Pruned, Nacks!AsksKeyframe
      <4>3. CASE Nacks!TooFar(s)
        BY <3>1, <4>1, <4>3 DEF Nacks!TooFar, GivenUp
      <4>4. CASE Nacks!TooLate(s)
        <5>1. pending[s].age + 2 * rtt >= Lifetime /\ pending[s].age = holes[d].age
          BY <4>1, <4>4 DEF Nacks!TooLate, Matches
        <5>2. rtt <= Nacks!MaxRtt /\ rtt \in Nat /\ Nacks!MaxRtt \in Nat /\ holes[d].age \in Nat
          BY <1>1, <1>3, RttBounds, HoleFields
        <5>3. holes[d].age + 2 * Nacks!MaxRtt >= Lifetime
          BY <5>1, <5>2, NackConstants
        <5>. QED  BY <1>11, <5>3 DEF GivenUp
      <4>. QED  BY <4>2, <4>3, <4>4
    <3>3. CASE s \notin DOMAIN pending
      BY <1>1, <1>11, <3>3 DEF ListsMissing, HolesListed, GivenUp
    <3>. QED  BY <3>2, <3>3
  <2>3. ListsMissing(pending', holes', top)
    BY <1>13, <1>14, <1>15, <2>1, <2>2 DEF ListsMissing
  <2>. QED  BY <1>4, <1>8, <1>10, <1>12, <2>1, <2>3 DEF Names, due
<1>. QED  BY <1>16, <1>17

(* As time passes entries and holes age together. *)
LEMMA PassTracks ==
  ASSUME NackInv, Nacks!Pass
  PROVE  /\ ListsMissing(pending', holes', top) /\ DOMAIN pending' = DOMAIN pending
         /\ DOMAIN holes' = DOMAIN holes
         /\ \A s \in DOMAIN pending : pending'[s].retries = pending[s].retries
<1>1. ListsMissing(pending, holes, top)
  BY DEF NackInv
<1>2. /\ DOMAIN pending' = DOMAIN pending /\ DOMAIN holes' = DOMAIN holes
      /\ \A s \in DOMAIN pending : pending'[s] =
           [pending[s] EXCEPT !.age = Nacks!AtMost(@ + 1, Lifetime),
                              !.wait = Nacks!AtLeast(@ - 1, 0)]
      /\ \A d \in DOMAIN holes : holes'[d] =
           [holes[d] EXCEPT !.age = Nacks!AtMost(@ + 1, Lifetime)]
  BY DEF Nacks!Pass
<1>3. ASSUME NEW s \in DOMAIN pending
      PROVE  /\ pending'[s] \in Nacks!Info
             /\ pending'[s].age = Nacks!AtMost(pending[s].age + 1, Lifetime)
             /\ pending'[s].wait = Nacks!AtLeast(pending[s].wait - 1, 0)
             /\ pending'[s].retries = pending[s].retries
  <2>. DEFINE e == pending[s]
              later == Nacks!AtMost(e.age + 1, Lifetime)
              left == Nacks!AtLeast(e.wait - 1, 0)
  <2>1. e \in Nacks!Info
    BY <1>1 DEF ListsMissing, ListTyped
  <2>2. pending'[s] = [e EXCEPT !.age = later, !.wait = left]
    BY <1>2
  <2>3. /\ e.age \in 0..Lifetime /\ e.wait \in 0..Nacks!Max({Nacks!MaxRtt, Delay})
        /\ e.wait \in Nat
    BY <2>1, EntryFields DEF Nacks!Info
  <2>. HIDE DEF e
  <2>4. later \in 0..Lifetime
    BY <2>3, NackConstants DEF Nacks!AtMost
  <2>5. left \in 0..Nacks!Max({Nacks!MaxRtt, Delay})
    <3>1. \/ left = e.wait
          \/ left = e.wait - 1 /\ e.wait \in 1..Nacks!Max({Nacks!MaxRtt, Delay})
      BY <2>3 DEF Nacks!AtLeast
    <3>. HIDE DEF left
    <3>. QED  BY <2>3, <3>1, WaitBound
  <2>. HIDE DEF later, left
  <2>6. [e EXCEPT !.age = later, !.wait = left] \in Nacks!Info
    BY <2>1, <2>4, <2>5 DEF Nacks!Info
  <2>7. /\ pending'[s].age = later /\ pending'[s].wait = left
        /\ pending'[s].retries = e.retries
    BY <2>1, <2>2 DEF Nacks!Info
  <2>. QED  BY <2>2, <2>6, <2>7 DEF e, later, left
<1>4. ASSUME NEW d \in DOMAIN holes
      PROVE  /\ holes'[d] \in Nacks!Hole
             /\ holes'[d].age = Nacks!AtMost(holes[d].age + 1, Lifetime)
             /\ holes'[d].asked = holes[d].asked /\ holes'[d].excused = holes[d].excused
             /\ holes[d].age <= holes'[d].age /\ holes[d].age \in Nat /\ holes'[d].age \in Nat
             /\ holes[d].asked \in Nat /\ Spaced(holes'[d])
  <2>. DEFINE h == holes[d]
              later == Nacks!AtMost(h.age + 1, Lifetime)
  <2>1. h \in Nacks!Hole /\ Spaced(h)
    BY <1>1 DEF ListsMissing, HolesTyped
  <2>2. holes'[d] = [h EXCEPT !.age = later]
    BY <1>2
  <2>3. h.age \in 0..Lifetime /\ h.asked \in Nat /\ h.age \in Nat
    BY <2>1, HoleFields
  <2>. HIDE DEF h
  <2>4. later \in 0..Lifetime /\ later \in Nat /\ h.age <= later
    BY <2>3, NackConstants DEF Nacks!AtMost
  <2>. HIDE DEF later
  <2>5. [h EXCEPT !.age = later] \in Nacks!Hole
    BY <2>1, <2>4 DEF Nacks!Hole
  <2>6. holes'[d].age = later /\ holes'[d].asked = h.asked /\ holes'[d].excused = h.excused
    BY <2>1, <2>2 DEF Nacks!Hole
  <2>7. Spaced(holes'[d])
    <3>. DEFINE due == Delay + (h.asked - 1) * Nacks!MinRtt
    <3>1. h.asked > 0 => due \in Int
      <4>1. h.asked - 1 \in Int /\ Nacks!MinRtt \in Int /\ Delay \in Int
        BY <2>3, RttBounds, NackConstants
      <4>2. (h.asked - 1) * Nacks!MinRtt \in Int
        BY <4>1
      <4>. QED  BY <4>1, <4>2
    <3>2. h.asked <= MaxRetries /\ (h.asked > 0 => due <= h.age)
      BY <2>1 DEF Spaced
    <3>. HIDE DEF due
    <3>3. h.asked > 0 => due <= later
      BY <2>3, <2>4, <3>1, <3>2
    <3>. QED  BY <2>6, <3>2, <3>3 DEF Spaced, due
  <2>. QED  BY <2>2, <2>3, <2>4, <2>5, <2>6, <2>7 DEF h, later
<1>5. ListTyped(pending') /\ HolesTyped(holes') /\ \A d \in DOMAIN holes' : Spaced(holes'[d])
  BY <1>1, <1>2, <1>3, <1>4 DEF ListsMissing, ListTyped, HolesTyped
<1>6. ListsHoles(pending', holes', top)
  <2>. SUFFICES ASSUME NEW s \in DOMAIN pending
                PROVE  Matches(pending'[s], holes'[Nacks!Wrap(top - s)])
    BY <1>1, <1>2 DEF ListsMissing, ListsHoles
  <2>. DEFINE d == Nacks!Wrap(top - s)
  <2>1. d \in DOMAIN holes /\ Matches(pending[s], holes[d]) /\ pending[s] \in Nacks!Info
    BY <1>1 DEF ListsMissing, ListTyped, ListsHoles
  <2>. HIDE DEF d
  <2>2. holes'[d].age = pending'[s].age /\ holes'[d].asked = pending'[s].retries
    BY <1>3, <1>4, <2>1 DEF Matches
  <2>3. ASSUME pending'[s].age < Lifetime
        PROVE  Delay + pending'[s].retries * Nacks!MinRtt <= pending'[s].age + pending'[s].wait
    <3>. DEFINE a == pending[s].age
                w == pending[s].wait
                floor == Delay + pending[s].retries * Nacks!MinRtt
    <3>1. a \in 0..Lifetime /\ w \in Nat /\ pending[s].retries \in Nat
      BY <2>1, EntryFields
    <3>2. floor \in Nat
      <4>1. pending[s].retries * Nacks!MinRtt \in Nat
        BY <3>1, RttBounds
      <4>. QED  BY <4>1, NackConstants
    <3>3. /\ pending'[s].age = Nacks!AtMost(a + 1, Lifetime)
          /\ pending'[s].wait = Nacks!AtLeast(w - 1, 0)
          /\ Delay + pending'[s].retries * Nacks!MinRtt = floor
      BY <1>3
    <3>4. a < Lifetime => floor <= a + w
      BY <2>1 DEF Matches
    <3>. HIDE DEF a, w, floor
    <3>5. pending'[s].age = a + 1 /\ a < Lifetime
      BY <2>3, <3>1, <3>3, NackConstants DEF Nacks!AtMost
    <3>6. pending'[s].wait >= w - 1 /\ pending'[s].wait \in Int
      BY <3>1, <3>3 DEF Nacks!AtLeast
    <3>. QED  BY <3>1, <3>2, <3>3, <3>4, <3>5, <3>6
  <2>. QED  BY <2>2, <2>3 DEF Matches, d
<1>7. HolesListed(pending', holes', top)
  <2>. SUFFICES ASSUME NEW d \in DOMAIN holes, GivenUp(holes[d], d)
                PROVE  GivenUp(holes'[d], d)
    BY <1>1, <1>2 DEF ListsMissing, HolesListed
  <2>1. holes[d].age + 2 * Nacks!MaxRtt >= Lifetime => holes'[d].age + 2 * Nacks!MaxRtt >= Lifetime
    BY <1>4, RttBounds, NackConstants
  <2>. QED  BY <1>4, <2>1 DEF GivenUp
<1>. QED  BY <1>2, <1>3, <1>5, <1>6, <1>7 DEF ListsMissing

(* The requester starts with nothing to ask for. *)
LEMMA InitNack == Nacks!Init => NackInv
<1>. SUFFICES ASSUME Nacks!Init  PROVE NackInv
  OBVIOUS
<1>1. DOMAIN <<>> = {} /\ pending = <<>> /\ holes = <<>>
  BY DEF Nacks!Init
<1>2. Cardinality({}) = 0
  BY FS_EmptySet
<1>3. ListsMissing(pending, holes, top)
  BY <1>1 DEF ListsMissing, ListTyped, HolesTyped, ListsHoles, HolesListed
<1>. QED  BY <1>1, <1>2, <1>3, NackConstants DEF NackInv, Nacks!Init, Nacks!Seqs

(* A packet that is not ahead of the newest only takes its entry out. *)
LEMMA NotAhead ==
  ASSUME NackInv, NEW seq \in Nacks!Seqs, ~Nacks!IsAhead(seq)
  PROVE  /\ ~Nacks!Overflows(seq) /\ Nacks!Listed(seq) = Nacks!Cleared(seq)
         /\ DOMAIN Nacks!Cleared(seq) \subseteq DOMAIN pending
         /\ Cardinality(DOMAIN Nacks!Cleared(seq)) <= MaxList
<1>1. DOMAIN Nacks!Cleared(seq) \in SUBSET DOMAIN pending
  BY WithoutOne DEF Nacks!Cleared
<1>2. DOMAIN pending \in SUBSET Nacks!Seqs
  BY DEF NackInv, ListsMissing, ListTyped
<1>3. Cardinality(DOMAIN Nacks!Cleared(seq)) <= MaxList
  BY <1>1, <1>2, ListIsSmall, NackConstants DEF NackInv
<1>4. Nacks!Listed(seq) = Nacks!Cleared(seq)
  BY DEF Nacks!Listed
<1>5. Nacks!Cardinality(DOMAIN Nacks!Cleared(seq)) = Cardinality(DOMAIN Nacks!Cleared(seq))
  BY DEF Nacks!Cardinality, Cardinality
<1>6. Cardinality(DOMAIN Nacks!Cleared(seq)) \in Nat
  BY <1>1, <1>2, ListIsSmall
<1>7. ~(Nacks!Cardinality(DOMAIN Nacks!Cleared(seq)) > MaxList)
  BY <1>3, <1>5, <1>6, NackConstants
<1>8. ~Nacks!Overflows(seq)
  BY <1>4, <1>7 DEF Nacks!Overflows, Nacks!IsHuge
<1>. QED  BY <1>1, <1>3, <1>4, <1>8

(* The first packet keeps the requester's invariant. *)
LEMMA FirstKeepsNack == NackInv /\ Nacks!First => NackInv'
<1>. SUFFICES ASSUME NackInv, Nacks!First  PROVE NackInv'
  OBVIOUS
<1>1. PICK seq \in Nacks!Seqs : Nacks!OnReceived(seq) /\ top' = seq
  BY DEF Nacks!First
<1>2. /\ newest = Nacks!None /\ nacks' = {} /\ rtt' = rtt /\ sinceNack' = sinceNack
      /\ holes' = holes
  BY DEF Nacks!First
<1>3. DOMAIN pending = {} /\ DOMAIN holes = {}
  BY <1>2 DEF NackInv
<1>4. ~Nacks!IsAhead(seq)
  BY <1>2 DEF Nacks!IsAhead
<1>5. newest' = seq /\ pending' = Nacks!Cleared(seq)
  BY <1>1, <1>2, <1>4, NotAhead DEF Nacks!OnReceived
<1>6. DOMAIN pending' = {} /\ Cardinality(DOMAIN pending') <= MaxList
  BY <1>3, <1>4, <1>5, NotAhead
<1>7. ListsMissing(pending', holes', top')
  BY <1>2, <1>3, <1>6 DEF ListsMissing, ListTyped, HolesTyped, ListsHoles, HolesListed
<1>8. seq # Nacks!None
  BY NackConstants DEF Nacks!Seqs, Nacks!None
<1>. QED  BY <1>1, <1>2, <1>5, <1>6, <1>7, <1>8 DEF NackInv

(* A newer packet keeps the requester's invariant. *)
LEMMA AheadKeepsNack == NackInv /\ Nacks!Ahead => NackInv'
<1>. SUFFICES ASSUME NackInv, Nacks!Ahead  PROVE NackInv'
  OBVIOUS
<1>1. PICK steps \in 1..(Nacks!Half - 1) :
        LET seq == Nacks!Wrap(top + steps) IN
        /\ newest # Nacks!None
        /\ \A s \in DOMAIN pending : Nacks!Wrap(top - s) + steps < Nacks!Half
        /\ Nacks!OnReceived(seq) /\ top' = seq
        /\ holes' = Nacks!Told(Nacks!Moved(steps), Nacks!Overflows(seq))
        /\ nacks' = {} /\ UNCHANGED <<rtt, sinceNack>>
  BY DEF Nacks!Ahead
<1>. DEFINE seq == Nacks!Wrap(top + steps)
            list == Nacks!WithGaps(Nacks!Cleared(seq), Nacks!Gap(top, seq))
            moved == Nacks!Moved(steps)
<1>2. newest = top /\ top \in Nacks!Seqs /\ ListsMissing(pending, holes, top)
  BY <1>1 DEF NackInv
<1>3. seq \in Nacks!Seqs /\ Nacks!Wrap(seq - top) = steps
  BY <1>2, Later
<1>4. Nacks!IsAhead(seq)
  BY <1>1, <1>2, <1>3, NackConstants DEF Nacks!IsAhead, Nacks!SeqAhead
<1>5. newest' = seq /\ top' = seq /\ nacks' = {} /\ rtt' = rtt /\ sinceNack' = sinceNack
  BY <1>1, <1>4 DEF Nacks!OnReceived
<1>6. Nacks!Listed(seq) = list
  BY <1>2, <1>4 DEF Nacks!Listed
<1>7. ListsMissing(list, moved, seq)
  <2>1. \A s \in DOMAIN pending : Nacks!Wrap(top - s) + steps < Nacks!Half
    BY <1>1
  <2>. QED  BY <1>2, <2>1, AheadTracks
<1>8. ListsMissing(pending', holes', top') /\ Cardinality(DOMAIN pending') <= MaxList
  <2>1. CASE Nacks!Overflows(seq)
    <3>1. pending' = <<>> /\ holes' = Nacks!Excuse(moved)
      BY <1>1, <2>1 DEF Nacks!OnReceived, Nacks!Told
    <3>2. ListsMissing(<<>>, Nacks!Excuse(moved), seq)
      BY <1>7, NothingListed DEF ListsMissing
    <3>3. DOMAIN <<>> = {} /\ Cardinality({}) = 0
      BY FS_EmptySet
    <3>. QED  BY <1>5, <3>1, <3>2, <3>3, NackConstants
  <2>2. CASE ~Nacks!Overflows(seq)
    <3>1. pending' = list /\ holes' = moved
      BY <1>1, <1>6, <2>2 DEF Nacks!OnReceived, Nacks!Told
    <3>2. ~(Nacks!Cardinality(DOMAIN list) > MaxList)
      BY <1>6, <2>2 DEF Nacks!Overflows
    <3>3. Nacks!Cardinality(DOMAIN list) = Cardinality(DOMAIN list)
      BY DEF Nacks!Cardinality, Cardinality
    <3>4. Cardinality(DOMAIN list) \in Nat
      BY <1>7, ListIsSmall DEF ListsMissing, ListTyped
    <3>. QED  BY <1>5, <1>7, <3>1, <3>2, <3>3, <3>4, NackConstants
  <2>. QED  BY <2>1, <2>2
<1>9. seq # Nacks!None
  BY <1>3, NackConstants DEF Nacks!Seqs, Nacks!None
<1>. HIDE DEF seq
<1>. QED  BY <1>3, <1>5, <1>8, <1>9 DEF NackInv

(* Less than half the space behind is not ahead, across the wrap. *)
LEMMA BehindIsNotAhead ==
  ASSUME top \in Nacks!Seqs, NEW back \in 0..(Nacks!Half - 1), newest = top
  PROVE  ~Nacks!IsAhead(Nacks!Wrap(top - back)) /\ Nacks!Wrap(top - back) \in Nacks!Seqs
<1>. DEFINE seq == Nacks!Wrap(top - back)
            half == Nacks!Half
<1>1. half \in Nat /\ Space = 2 * half /\ Space \in Nat /\ back \in Nat /\ back < half
  BY NackConstants
<1>2. top \in Int /\ 0 <= top /\ top < Space
  BY <1>1 DEF Nacks!Seqs
<1>3. seq = IF top - back < 0 THEN top - back + Space ELSE top - back
  <2>. HIDE DEF half
  <2>. QED  BY <1>1, <1>2, Wraps
<1>4. seq \in Nacks!Seqs
  <2>. HIDE DEF seq, half
  <2>. QED  BY <1>1, <1>2, <1>3 DEF Nacks!Seqs
<1>. HIDE DEF seq, half
<1>5. Nacks!Wrap(seq - top) = IF seq >= top THEN seq - top ELSE seq - top + Space
  BY <1>4, Distance
<1>6. Nacks!Wrap(seq - top) = 0 \/ ~(Nacks!Wrap(seq - top) < half)
  BY <1>1, <1>2, <1>3, <1>5
<1>7. ~Nacks!IsAhead(seq)
  BY <1>6 DEF Nacks!IsAhead, Nacks!SeqAhead, half
<1>. QED  BY <1>4, <1>7 DEF seq

(* A packet from behind keeps the requester's invariant. *)
LEMMA BehindKeepsNack == NackInv /\ Nacks!Behind => NackInv'
<1>. SUFFICES ASSUME NackInv, Nacks!Behind  PROVE NackInv'
  OBVIOUS
<1>1. PICK back \in 0..(Nacks!Half - 1) :
        LET seq == Nacks!Wrap(top - back) IN
        /\ newest # Nacks!None /\ Nacks!OnReceived(seq)
        /\ holes' = Nacks!Told(Nacks!Without(holes, {back}), Nacks!Overflows(seq))
        /\ nacks' = {} /\ UNCHANGED <<rtt, sinceNack, top>>
  BY DEF Nacks!Behind
<1>. DEFINE seq == Nacks!Wrap(top - back)
<1>2. newest = top /\ top \in Nacks!Seqs /\ ListsMissing(pending, holes, top)
  BY <1>1 DEF NackInv
<1>3. ~Nacks!IsAhead(seq) /\ seq \in Nacks!Seqs
  BY <1>2, BehindIsNotAhead
<1>4. /\ ~Nacks!Overflows(seq) /\ Nacks!Listed(seq) = Nacks!Cleared(seq)
      /\ Cardinality(DOMAIN Nacks!Cleared(seq)) <= MaxList
  BY <1>3, NotAhead
<1>5. /\ newest' = newest /\ pending' = Nacks!Cleared(seq)
      /\ holes' = Nacks!Without(holes, {back})
  BY <1>1, <1>3, <1>4 DEF Nacks!OnReceived, Nacks!Told
<1>6. ListsMissing(pending', holes', top)
  BY <1>2, <1>5, BehindTracks
<1>7. top' = top /\ rtt' = rtt /\ sinceNack' = sinceNack /\ nacks' = {}
  BY <1>1
<1>. HIDE DEF seq
<1>. QED  BY <1>1, <1>2, <1>4, <1>5, <1>6, <1>7 DEF NackInv

(* poll_nacks keeps the requester's invariant. *)
LEMMA PollKeepsNack == NackInv /\ Nacks!PollNacks => NackInv'
<1>. SUFFICES ASSUME NackInv, Nacks!PollNacks  PROVE NackInv'
  OBVIOUS
<1>1. /\ nacks' \subseteq NackPacket /\ ListsMissing(pending', holes', top)
      /\ DOMAIN pending' \subseteq DOMAIN pending /\ DOMAIN holes' = DOMAIN holes
  BY PollTracks
<1>2. newest' = newest /\ rtt' = rtt /\ top' = top /\ sinceNack' = 0 /\ 0 \in 0..Interval
  BY NackConstants DEF Nacks!PollNacks
<1>3. Cardinality(DOMAIN pending') <= MaxList
  <2>1. DOMAIN pending \in SUBSET Nacks!Seqs
    BY DEF NackInv, ListsMissing, ListTyped
  <2>. QED  BY <1>1, <2>1, ListIsSmall, NackConstants DEF NackInv
<1>. QED  BY <1>1, <1>2, <1>3 DEF NackInv

(* The passing of time keeps the requester's invariant. *)
LEMMA PassKeepsNack == NackInv /\ Nacks!Pass => NackInv'
<1>. SUFFICES ASSUME NackInv, Nacks!Pass  PROVE NackInv'
  OBVIOUS
<1>1. /\ ListsMissing(pending', holes', top) /\ DOMAIN pending' = DOMAIN pending
      /\ DOMAIN holes' = DOMAIN holes
  BY PassTracks
<1>2. /\ newest' = newest /\ rtt' = rtt /\ top' = top /\ nacks' = {}
      /\ sinceNack' = Nacks!AtMost(sinceNack + 1, Interval)
  BY DEF Nacks!Pass
<1>3. sinceNack' \in 0..Interval
  BY <1>2, NackConstants DEF NackInv, Nacks!AtMost
<1>. QED  BY <1>1, <1>2, <1>3 DEF NackInv

(* A new round trip keeps the requester's invariant. *)
LEMMA SetRttKeepsNack == NackInv /\ Nacks!SetRtt => NackInv'
BY DEF NackInv, Nacks!SetRtt

(* Every step of the requester keeps its invariant. *)
LEMMA NextKeepsNack == NackInv /\ [Nacks!Next]_nackState => NackInv'
<1>. SUFFICES ASSUME NackInv, [Nacks!Next]_nackState  PROVE NackInv'
  OBVIOUS
<1>1. CASE UNCHANGED nackState
  BY <1>1 DEF nackState, NackInv
<1>. QED  BY <1>1, FirstKeepsNack, AheadKeepsNack, BehindKeepsNack, PollKeepsNack,
             PassKeepsNack, SetRttKeepsNack DEF Nacks!Next

(* A step of the composition is one of the requester, or leaves it alone. *)
LEMMA PartsRunNack ==
  ASSUME [PartsNext]_partsVars
  PROVE  [Nacks!Next]_nackState
BY DEF PartsNext, partsVars, nackState, OnlyCipher, OnlyInbox, OnlyNack, OnlyParity, Nacks!Next

(* The requester's invariant, for every size of the sequence space, of the  *)
(* table and of the mask, and for every set of round trips.                 *)
THEOREM NackInvHolds == PartsSpec => []NackInv
<1>1. PartsInit => NackInv
  BY InitNack DEF PartsInit
<1>2. NackInv /\ [PartsNext]_partsVars => NackInv'
  BY PartsRunNack, NextKeepsNack
<1>. QED  BY <1>1, <1>2, PTL DEF PartsSpec

(* The requester knows what is missing, whatever the order, the loss and    *)
(* the repetition of the arrivals and across the wrap of the sequence       *)
(* numbers: its newest is the newest packet that arrived, what it lists     *)
(* never arrived, and what never arrived is listed or was given up.         *)
THEOREM ListExact == PartsSpec => []ListIsExact
<1>1. NackInv => ListIsExact
  <2>. SUFFICES ASSUME NackInv  PROVE ListIsExact
    OBVIOUS
  <2>1. Nacks!NewestIsTop
    BY DEF NackInv, Nacks!NewestIsTop
  <2>2. Nacks!PendingIsMissing
    BY DEF NackInv, ListsMissing, ListsHoles, Nacks!PendingIsMissing
  <2>3. Nacks!HolesAreListed
    BY DEF NackInv, ListsMissing, HolesListed, GivenUp, Nacks!HolesAreListed
  <2>. QED  BY <2>1, <2>2, <2>3 DEF ListIsExact, Nacks!ListIsExact
<1>. QED  BY <1>1, NackInvHolds, PTL

(* Requests for one packet are a least round trip apart, and no packet is   *)
(* asked for more than max_retries times.                                   *)
THEOREM SpacedRequests == PartsSpec => []RequestsSpaced
<1>1. NackInv => RequestsSpaced
  BY DEF NackInv, ListsMissing, Spaced, RequestsSpaced, Nacks!RequestsSpaced
<1>. QED  BY <1>1, NackInvHolds, PTL

(* No entry that stays is marked as asked for. *)
KeepsTries ==
  \A s \in DOMAIN pending' \intersect DOMAIN pending :
    pending'[s].retries = pending[s].retries

(* An arrival asks for nothing: an entry it finds keeps its tries. *)
LEMMA ReceivedKeepsTries ==
  ASSUME NackInv, NEW seq, Nacks!OnReceived(seq)
  PROVE  KeepsTries
<1>. DEFINE cleared == Nacks!Cleared(seq)
<1>1. /\ DOMAIN cleared = DOMAIN pending \ {seq}
      /\ \A s \in DOMAIN cleared : cleared[s] = pending[s]
  BY WithoutOne DEF Nacks!Cleared
<1>2. CASE pending' = <<>>
  BY <1>2 DEF KeepsTries
<1>3. CASE pending' = cleared
  BY <1>1, <1>3 DEF KeepsTries
<1>4. ASSUME Nacks!IsAhead(seq), pending' = Nacks!WithGaps(cleared, Nacks!Gap(newest, seq))
      PROVE  KeepsTries
  <2>. SUFFICES ASSUME NEW s \in DOMAIN pending' \intersect DOMAIN pending
                PROVE  pending'[s].retries = pending[s].retries
    BY DEF KeepsTries
  <2>1. CASE s \in DOMAIN cleared
    <3>1. pending'[s] = cleared[s]
      BY <1>4, <2>1 DEF Nacks!WithGaps
    <3>. QED  BY <1>1, <2>1, <3>1
  <2>2. CASE s \notin DOMAIN cleared
    <3>1. s = seq /\ s \in Nacks!Gap(newest, seq)
      BY <1>1, <1>4, <2>2 DEF Nacks!WithGaps
    <3>2. newest = top /\ top \in Nacks!Seqs /\ seq \in Nacks!Seqs
      BY <1>4, <3>1 DEF NackInv, Nacks!IsAhead, ListsMissing, ListTyped
    <3>. DEFINE n == Nacks!Wrap(seq - newest)
    <3>3. PICK k \in 1..(n - 1) : seq = Nacks!Wrap(newest + k)
      BY <3>1 DEF Nacks!Gap
    <3>4. n < Nacks!Half /\ n \in Nat
      BY <1>4, <3>2, Distance DEF Nacks!IsAhead, Nacks!SeqAhead
    <3>5. k \in 1..(Nacks!Half - 1) /\ k < n
      BY <3>3, <3>4, NackConstants
    <3>6. n = k
      BY <3>2, <3>3, <3>5, Later
    <3>. QED  BY <3>5, <3>6
  <2>. QED  BY <2>1, <2>2
<1>. QED  BY <1>2, <1>3, <1>4 DEF Nacks!OnReceived, Nacks!Listed

(* A step that sends no request and marks no entry names what it marks. *)
LEMMA NoneMarked ==
  ASSUME NackInv, nacks' = {}, KeepsTries
  PROVE  Nacks!NamesMarked
<1>1. \A s \in DOMAIN pending : pending[s].retries \in Nat
  BY EntryFields DEF NackInv, ListsMissing, ListTyped
<1>. QED  BY <1>1 DEF KeepsTries, Nacks!NamesMarked

(* Every step of the requester names in its packets what it marks. *)
LEMMA StepNamesMarked == NackInv /\ [Nacks!Next]_nackState => [Nacks!NamesMarked]_nackState
<1>. SUFFICES ASSUME NackInv, Nacks!Next  PROVE Nacks!NamesMarked
  OBVIOUS
<1>1. CASE Nacks!First \/ Nacks!Ahead \/ Nacks!Behind
  <2>1. nacks' = {} /\ \E seq : Nacks!OnReceived(seq)
    BY <1>1 DEF Nacks!First, Nacks!Ahead, Nacks!Behind
  <2>. QED  BY <2>1, ReceivedKeepsTries, NoneMarked
<1>2. CASE Nacks!PollNacks
  <2>1. /\ Names(nacks', Nacks!Due) /\ DOMAIN pending' \subseteq DOMAIN pending
        /\ \A s \in DOMAIN pending' :
             pending'[s] = IF s \in Nacks!Due THEN Nacks!Ask(pending[s]) ELSE pending[s]
        /\ \A s \in Nacks!Due : /\ s \in DOMAIN pending' /\ pending[s].retries \in Nat
                                 /\ Nacks!Ask(pending[s]).retries = pending[s].retries + 1
    BY <1>2, PollTracks
  <2>2. \A s \in DOMAIN pending : pending[s].retries \in Nat
    BY EntryFields DEF NackInv, ListsMissing, ListTyped
  <2>3. ASSUME NEW s \in DOMAIN pending'
        PROVE  pending'[s].retries > pending[s].retries <=> s \in Nacks!Due
    <3>1. CASE s \in Nacks!Due
      BY <2>1, <3>1
    <3>2. CASE s \notin Nacks!Due
      BY <2>1, <2>2, <2>3, <3>2
    <3>. QED  BY <3>1, <3>2
  <2>4. Nacks!Due = {s \in DOMAIN pending' \intersect DOMAIN pending :
                       pending'[s].retries > pending[s].retries}
    BY <2>1, <2>3
  <2>. QED  BY <2>1, <2>4 DEF Names, Nacks!NamesMarked
<1>3. CASE Nacks!SetRtt
  BY <1>3, NoneMarked DEF Nacks!SetRtt, KeepsTries
<1>4. CASE Nacks!Pass
  <2>1. KeepsTries
    BY <1>4, PassTracks DEF KeepsTries
  <2>2. nacks' = {}
    BY <1>4 DEF Nacks!Pass
  <2>. QED  BY <2>1, <2>2, NoneMarked
<1>. QED  BY <1>1, <1>2, <1>3, <1>4 DEF Nacks!Next

(* The NACK packets of a step name exactly the entries it marks as asked    *)
(* for, each in one packet: a retry is never spent on a request that is not *)
(* sent, nor a request sent that the retry limit does not count.            *)
THEOREM ExactRequests == PartsSpec => RequestsExact
<1>1. NackInv /\ [PartsNext]_partsVars => [Nacks!NamesMarked]_(Nacks!vars)
  BY PartsRunNack, StepNamesMarked DEF nackState, Nacks!vars
<1>2. PartsSpec => [][Nacks!NamesMarked]_(Nacks!vars)
  BY <1>1, NackInvHolds, PTL DEF PartsSpec
<1>3. PartsSpec => Nacks!RequestsExact
  BY <1>2 DEF Nacks!RequestsExact
<1>. QED  BY <1>3 DEF RequestsExact

---------------------------------------------------------------------------
(* The parity repair *)

(* What the assumption of the parity repair says of its constants. *)
LEMMA ParityConstants ==
  /\ FecSpace \in Nat \ {0} /\ BlockSize \in Nat \ {0} /\ BlockSize < FecSpace
  /\ Capacity \in Nat \ {0} /\ FecRates \subseteq 0..255 /\ MaxPushes \in Nat
  /\ Protected \subseteq Parity!FecSeqs
  /\ \A seq \in Parity!FecSeqs : seq \in Nat /\ seq < FecSpace
  /\ IsFiniteSet(Parity!FecSeqs)
<1>1. /\ FecSpace \in Nat \ {0} /\ BlockSize \in Nat \ {0} /\ BlockSize < FecSpace
      /\ Capacity \in Nat \ {0} /\ FecRates \subseteq 0..255 /\ MaxPushes \in Nat
      /\ Protected \subseteq Parity!FecSeqs
  BY PartsAssumption DEF Parity!FecAssumption
<1>2. \A seq \in Parity!FecSeqs : seq \in Nat /\ seq < FecSpace
  BY <1>1 DEF Parity!FecSeqs
<1>3. IsFiniteSet(Parity!FecSeqs)
  BY <1>1, FS_Interval DEF Parity!FecSeqs
<1>. QED  BY <1>1, <1>2, <1>3

(* The module counts as the library does. *)
LEMMA ParityCardinality == \A S : Parity!Cardinality(S) = Cardinality(S)
BY DEF Parity!Cardinality, Cardinality

(* How far a is ahead of b, without division, and that b and the distance   *)
(* make a.                                                                  *)
LEMMA ParityDistance ==
  ASSUME NEW a \in Parity!FecSeqs, NEW b \in Parity!FecSeqs
  PROVE  /\ Parity!Ahead(a, b) = IF a >= b THEN a - b ELSE a - b + FecSpace
         /\ Parity!Ahead(a, b) \in Nat /\ Parity!Ahead(a, b) < FecSpace
         /\ (b + Parity!Ahead(a, b)) % FecSpace = a
<1>. DEFINE d == Parity!Ahead(a, b)
<1>1. /\ a \in Int /\ b \in Int /\ 0 <= a /\ 0 <= b /\ a < FecSpace /\ b < FecSpace
      /\ FecSpace \in Nat \ {0}
  BY ParityConstants
<1>2. d = IF a >= b THEN a - b ELSE a - b + FecSpace
  <2>1. a - b \in Int /\ -FecSpace <= a - b /\ a - b < 2 * FecSpace
    BY <1>1
  <2>2. (a - b) % FecSpace =
          IF a - b < 0 THEN a - b + FecSpace
          ELSE IF a - b < FecSpace THEN a - b ELSE a - b - FecSpace
    BY ONLY <1>1, <2>1, WrapForm
  <2>. QED  BY <1>1, <2>2 DEF Parity!Ahead
<1>. HIDE DEF d
<1>3. d \in Nat /\ d < FecSpace
  BY <1>1, <1>2
<1>4. (b + d) % FecSpace = IF b + d < FecSpace THEN b + d ELSE b + d - FecSpace
  <2>1. d \in Int /\ b + d \in Int /\ -FecSpace <= b + d /\ b + d < 2 * FecSpace
    BY <1>1, <1>3
  <2>. DEFINE n == b + d
  <2>2. (b + d) % FecSpace =
          IF n < 0 THEN n + FecSpace ELSE IF n < FecSpace THEN n ELSE n - FecSpace
    <3>1. n \in Int /\ -FecSpace <= n /\ n < 2 * FecSpace /\ FecSpace \in Nat \ {0}
      BY <1>1, <2>1
    <3>. HIDE DEF n
    <3>2. n % FecSpace =
            IF n < 0 THEN n + FecSpace ELSE IF n < FecSpace THEN n ELSE n - FecSpace
      BY ONLY <3>1, WrapForm
    <3>. QED  BY <3>2 DEF n
  <2>. QED  BY <1>1, <1>3, <2>2
<1>5. (b + d) % FecSpace = a
  BY <1>1, <1>2, <1>4
<1>. QED  BY <1>2, <1>3, <1>5 DEF d

(* A block that is not empty gets a row when the rate is not zero. *)
LEMMA RateMakesRows ==
  ASSUME NEW count \in Nat, NEW rate \in 0..255
  PROVE  /\ Parity!NumFec(count, rate) \in Nat
         /\ count # 0 /\ rate # 0 => Parity!NumFec(count, rate) # 0
<1>. DEFINE rounded == (count * rate + 128) \div 256
<1>1. rounded \in Int
  <2>1. count * rate + 128 \in Int
    OBVIOUS
  <2>. QED  BY <2>1
<1>. HIDE DEF rounded
<1>2. Parity!NumFec(count, rate) =
        IF count = 0 \/ rate = 0 THEN 0
        ELSE IF rounded < 1 THEN 1 ELSE IF rounded > count THEN count ELSE rounded
  BY DEF Parity!NumFec, rounded
<1>. QED  BY <1>1, <1>2

(* window_base finds a sequence from which a mask reaches the whole block. *)
LEMMA BaseExists ==
  ASSUME NEW seqs \in Seq(Protected), Parity!HasBase(seqs)
  PROVE  /\ Parity!WindowBase(seqs) \in 1..Len(seqs)
         /\ seqs[Parity!WindowBase(seqs)] \in Protected
         /\ Parity!IsBase(seqs[Parity!WindowBase(seqs)], seqs)
<1>. DEFINE places == {k \in 1..Len(seqs) : Parity!IsBase(seqs[k], seqs)}
<1>1. places # {} /\ places \in SUBSET Nat
  BY DEF Parity!HasBase
<1>2. \E m \in places : \A n \in places : m <= n
  <2>. HIDE DEF places
  <2>. QED  BY <1>1, LeastNumber
<1>3. Parity!WindowBase(seqs) \in places
  BY <1>2 DEF Parity!WindowBase, Parity!Min
<1>. QED  BY <1>3

(* A row holds the datagrams its mask names, and the application pushed     *)
(* them.                                                                    *)
Sound(row) == row.payload = Parity!Members(row) /\ Parity!Members(row) \subseteq Protected

(* The bits of a block. *)
Bits(seqs) == {Parity!Ahead(seq, seqs[Parity!WindowBase(seqs)]) : seq \in Parity!ToSet(seqs)}

(* The row a bit is dealt to. *)
Turn(seqs, bit, count) == Cardinality({b \in Bits(seqs) : b < bit}) % count

(* The row that gets the turn r. *)
RowOf(seqs, count, r) ==
  [base |-> seqs[Parity!WindowBase(seqs)],
   mask |-> {bit \in Bits(seqs) : Turn(seqs, bit, count) = r},
   payload |-> {(seqs[Parity!WindowBase(seqs)] + b) % FecSpace :
                  b \in {bit \in Bits(seqs) : Turn(seqs, bit, count) = r}}]

(* flush makes a row of every turn that gets a bit. *)
LEMMA RowsAreDealt ==
  ASSUME NEW seqs, NEW rate
  PROVE  Parity!Rows(seqs, rate) =
           {RowOf(seqs, Parity!NumFec(Len(seqs), rate), r) :
              r \in {q \in 0..(Parity!NumFec(Len(seqs), rate) - 1) :
                       {bit \in Bits(seqs) :
                          Turn(seqs, bit, Parity!NumFec(Len(seqs), rate)) = q} # {}}}
BY ParityCardinality DEF Parity!Rows, RowOf, Turn, Bits

(* The bits of a block stand for its sequences, one for one. *)
LEMMA BitsOfBlock ==
  ASSUME NEW seqs \in Seq(Protected), Parity!HasBase(seqs)
  PROVE  LET base == seqs[Parity!WindowBase(seqs)] IN
         /\ base \in Parity!FecSeqs
         /\ \A bit \in Bits(seqs) : /\ bit \in Nat /\ bit < FecSpace
                                    /\ (base + bit) % FecSpace \in Protected
                                    /\ Parity!Ahead((base + bit) % FecSpace, base) = bit
         /\ \A seq \in Parity!ToSet(seqs) : /\ seq \in Protected
                                            /\ Parity!Ahead(seq, base) \in Bits(seqs)
                                            /\ (base + Parity!Ahead(seq, base)) % FecSpace = seq
         /\ \A bit \in Bits(seqs) : Cardinality({b \in Bits(seqs) : b < bit}) \in Nat
<1>. DEFINE base == seqs[Parity!WindowBase(seqs)]
<1>1. base \in Protected /\ base \in Parity!FecSeqs /\ Parity!IsBase(base, seqs)
  BY BaseExists, ParityConstants
<1>2. Bits(seqs) = {Parity!Ahead(seq, base) : seq \in Parity!ToSet(seqs)}
  BY DEF Bits
<1>3. \A seq \in Parity!ToSet(seqs) : seq \in Protected /\ seq \in Parity!FecSeqs
  BY ParityConstants DEF Parity!ToSet
<1>. HIDE DEF base
<1>4. ASSUME NEW seq \in Parity!ToSet(seqs)
      PROVE  /\ Parity!Ahead(seq, base) \in Nat /\ Parity!Ahead(seq, base) < FecSpace
             /\ Parity!Ahead(seq, base) < BlockSize
             /\ (base + Parity!Ahead(seq, base)) % FecSpace = seq
  BY <1>1, <1>3, ParityDistance DEF Parity!IsBase
<1>5. ASSUME NEW bit \in Bits(seqs)
      PROVE  /\ bit \in Nat /\ bit < FecSpace /\ bit < BlockSize
             /\ (base + bit) % FecSpace \in Protected
             /\ Parity!Ahead((base + bit) % FecSpace, base) = bit
  <2>1. PICK seq \in Parity!ToSet(seqs) : bit = Parity!Ahead(seq, base)
    BY <1>2
  <2>. QED  BY <1>3, <1>4, <2>1
<1>6. ASSUME NEW bit \in Bits(seqs)
      PROVE  Cardinality({b \in Bits(seqs) : b < bit}) \in Nat
  <2>1. {b \in Bits(seqs) : b < bit} \subseteq 0..(BlockSize - 1)
    BY <1>5, ParityConstants
  <2>2. IsFiniteSet(0..(BlockSize - 1))
    BY ParityConstants, FS_Interval
  <2>. QED  BY <2>1, <2>2, FS_Subset, FS_CardinalityType
<1>. QED  BY <1>1, <1>2, <1>3, <1>4, <1>5, <1>6 DEF base

(* The rows of a block are sound, and each of its sequences is in one of    *)
(* them: its bit is dealt to one turn, and no other bit is the same         *)
(* sequence, the wrap of the sequence space included.                       *)
LEMMA RowsExact ==
  ASSUME NEW seqs \in Seq(Protected), Parity!HasBase(seqs), NEW rate \in 0..255
  PROVE  /\ \A row \in Parity!Rows(seqs, rate) : Sound(row)
         /\ rate > 0 => \A seq \in Parity!ToSet(seqs) :
              Cardinality({row \in Parity!Rows(seqs, rate) : seq \in Parity!Members(row)}) = 1
<1>. DEFINE base == seqs[Parity!WindowBase(seqs)]
            bits == Bits(seqs)
            count == Parity!NumFec(Len(seqs), rate)
            turn(bit) == Turn(seqs, bit, count)
            mask(r) == {bit \in bits : turn(bit) = r}
            row(r) == RowOf(seqs, count, r)
            rowSet == Parity!Rows(seqs, rate)
<1>1. /\ base \in Parity!FecSeqs
      /\ \A bit \in bits : /\ bit \in Nat /\ bit < FecSpace
                           /\ (base + bit) % FecSpace \in Protected
                           /\ Parity!Ahead((base + bit) % FecSpace, base) = bit
      /\ \A seq \in Parity!ToSet(seqs) : /\ seq \in Protected
                                         /\ Parity!Ahead(seq, base) \in bits
                                         /\ (base + Parity!Ahead(seq, base)) % FecSpace = seq
      /\ \A bit \in bits : Cardinality({b \in bits : b < bit}) \in Nat
  BY BitsOfBlock
<1>2. rowSet = {row(r) : r \in {q \in 0..(count - 1) : mask(q) # {}}}
  BY RowsAreDealt
<1>3. count \in Nat /\ (rate > 0 => count > 0)
  <2>1. Len(seqs) \in Nat /\ Len(seqs) # 0 /\ rate \in 0..255 /\ (rate > 0 => rate # 0)
    BY DEF Parity!HasBase
  <2>2. count \in Nat /\ (rate # 0 => count # 0)
    BY ONLY <2>1, RateMakesRows
  <2>. HIDE DEF count
  <2>. QED  BY <2>1, <2>2
<1>4. \A r : Parity!Members(row(r)) = {(base + bit) % FecSpace : bit \in mask(r)}
  BY DEF Parity!Members, RowOf
<1>5. \A r : Parity!Members(row(r)) = row(r).payload
  BY <1>4 DEF RowOf
<1>. HIDE DEF base, bits, count, mask, row, rowSet
<1>6. ASSUME NEW r  PROVE Sound(row(r))
  <2>1. \A bit \in mask(r) : bit \in bits
    BY DEF mask
  <2>2. Parity!Members(row(r)) \subseteq Protected
    BY <1>1, <1>4, <2>1
  <2>. QED  BY <1>5, <2>2 DEF Sound
<1>7. ASSUME rate > 0, NEW seq \in Parity!ToSet(seqs)
      PROVE  Cardinality({q \in rowSet : seq \in Parity!Members(q)}) = 1
  <2>. DEFINE bit == Parity!Ahead(seq, base)
              r0 == turn(bit)
  <2>1. bit \in bits /\ (base + bit) % FecSpace = seq
    BY <1>1
  <2>2. r0 \in 0..(count - 1)
    <3>. DEFINE n == Cardinality({b \in bits : b < bit})
    <3>1. n \in Nat /\ r0 = n % count
      BY <1>1, <2>1 DEF Turn, bits
    <3>. HIDE DEF n, r0
    <3>. QED  BY <1>3, <1>7, <3>1
  <2>3. bit \in mask(r0)
    BY <2>1 DEF mask
  <2>4. row(r0) \in rowSet /\ seq \in Parity!Members(row(r0))
    <3>. HIDE DEF r0, bit
    <3>. QED  BY <1>2, <1>4, <2>1, <2>2, <2>3
  <2>5. ASSUME NEW q \in rowSet, seq \in Parity!Members(q)  PROVE q = row(r0)
    <3>1. PICK r : q = row(r)
      BY <1>2
    <3>2. PICK b \in mask(r) : seq = (base + b) % FecSpace
      BY <1>4, <2>5, <3>1
    <3>3. b \in bits /\ turn(b) = r
      BY DEF mask
    <3>4. b = bit
      BY <1>1, <3>2, <3>3
    <3>. QED  BY <3>1, <3>3, <3>4
  <2>. HIDE DEF r0
  <2>6. {q \in rowSet : seq \in Parity!Members(q)} = {row(r0)}
    BY <2>4, <2>5
  <2>. QED  BY <2>6, FS_Singleton
<1>8. \A q \in rowSet : Sound(q)
  BY <1>2, <1>6
<1>. QED  BY <1>7, <1>8 DEF rowSet

(* f has what the receiver stores after each row of a pass. *)
IsPass(f, store, list) ==
  /\ f[0] = store
  /\ \A k \in 1..Len(list) : f[k] = f[k - 1] \union Parity!Recovered(list[k], f[k - 1])

(* A pass goes from row to row. *)
LEMMA PassEquation ==
  ASSUME NEW list \in Seq(rows), NEW store \in SUBSET Parity!FecSeqs,
         \A row \in rows : Sound(row)
  PROVE  \E f : IsPass(f, store, list) /\ Parity!OnePass(store, list) = f[Len(list)]
<1>. DEFINE N == Len(list)
            D == 0..N
            V == SUBSET Parity!FecSeqs
            size == [k \in D |-> k]
            stop == {0}
            base == [k \in D |-> store]
            rest == [k \in D |-> k - 1]
            Turned(k, had) == IF k = 0 THEN store ELSE had \union Parity!Recovered(list[k], had)
            H == [p \in D \X V |-> Turned(p[1], p[2])]
            Def(f) == f = [k \in 0..Len(list) |->
                             IF k = 0 THEN store
                             ELSE f[k - 1] \union Parity!Recovered(list[k], f[k - 1])]
            g == CHOOSE f : Def(f)
<1>1. N \in Nat /\ \A k \in D : k \in Nat /\ (k # 0 => k - 1 \in D /\ list[k] \in rows)
  OBVIOUS
<1>2. size \in [D -> 0..N] /\ base \in [D -> V] /\ Shrinks(D, stop, rest, size)
  BY <1>1 DEF Shrinks
<1>3. ASSUME NEW k \in D, NEW had \in V  PROVE Turned(k, had) \in V
  <2>1. CASE k = 0
    BY <2>1
  <2>2. CASE k # 0
    <3>1. Parity!Recovered(list[k], had) \subseteq Parity!Members(list[k])
      BY DEF Parity!Recovered
    <3>2. Parity!Members(list[k]) \subseteq Parity!FecSeqs
      BY <1>1, <2>2, ParityConstants DEF Sound
    <3>. QED  BY <2>2, <3>1, <3>2
  <2>. QED  BY <2>1, <2>2
<1>4. H \in [D \X V -> V]
  <2>. HIDE DEF Turned, D, V
  <2>1. \A p \in D \X V : Turned(p[1], p[2]) \in V
    BY <1>3
  <2>. QED  BY <2>1
<1>5. PICK f \in [D -> V] : Descends(f, D, stop, base, rest, H)
  <2>1. N \in Nat
    BY <1>1
  <2>. HIDE DEF D, V, N, size, stop, base, rest, H
  <2>. QED  BY ONLY <1>2, <1>4, <2>1, MeasuredRecursion
<1>6. ASSUME NEW k \in D
      PROVE  f[k] = IF k = 0 THEN store
                    ELSE f[k - 1] \union Parity!Recovered(list[k], f[k - 1])
  <2>1. CASE k = 0
    BY <1>5, <2>1 DEF Descends
  <2>2. CASE k # 0
    <3>1. k - 1 \in D /\ rest[k] = k - 1 /\ k \notin stop
      BY <1>1, <2>2
    <3>2. f[k - 1] \in V
      <4>. HIDE DEF D, V
      <4>. QED  BY <3>1
    <3>3. f[k] = H[<<k, f[k - 1]>>]
      <4>. HIDE DEF H, rest, stop, base, D
      <4>. QED  BY <1>5, <3>1 DEF Descends
    <3>4. H[<<k, f[k - 1]>>] = Turned(k, f[k - 1])
      <4>. DEFINE had == f[k - 1]
      <4>1. had \in V /\ <<k, had>> \in D \X V
        BY <3>2
      <4>2. H[<<k, had>>] = Turned(k, had)
        <5>. HIDE DEF had, Turned, D, V
        <5>. QED  BY <4>1
      <4>. QED  BY <4>2
    <3>. QED  BY <2>2, <3>3, <3>4
  <2>. QED  BY <2>1, <2>2
<1>7. Def(f)
  <2>. DEFINE h == [k \in D |-> IF k = 0 THEN store
                                ELSE f[k - 1] \union Parity!Recovered(list[k], f[k - 1])]
  <2>1. \A k \in D : f[k] = h[k]
    BY <1>6
  <2>2. h = [k \in D |-> h[k]] /\ f = [k \in D |-> f[k]]
    OBVIOUS
  <2>. HIDE DEF h
  <2>3. f = h
    BY <2>1, <2>2
  <2>. QED  BY <2>3 DEF h
<1>8. Def(g)
  <2>1. \E h : Def(h)
    BY <1>7
  <2>. HIDE DEF Def
  <2>. QED  BY <2>1
<1>9. Parity!OnePass(store, list) = g[N]
  BY DEF Parity!OnePass
<1>10. \A k \in D : g[k] = IF k = 0 THEN store
                           ELSE g[k - 1] \union Parity!Recovered(list[k], g[k - 1])
  <2>. HIDE DEF g
  <2>. QED  BY <1>8
<1>. HIDE DEF g
<1>11. g[0] = store
  <2>1. 0 \in D
    BY <1>1
  <2>. HIDE DEF D
  <2>. QED  BY <1>10, <2>1
<1>12. \A k \in 1..Len(list) : g[k] = g[k - 1] \union Parity!Recovered(list[k], g[k - 1])
  BY <1>1, <1>10
<1>. QED  BY <1>9, <1>11, <1>12 DEF IsPass

(* A pass loses nothing, repairs only what was protected, and when it makes *)
(* no progress no row by itself would.                                      *)
LEMMA PassProperties ==
  ASSUME NEW list \in Seq(rows), NEW store \in SUBSET Parity!FecSeqs,
         \A row \in rows : Sound(row)
  PROVE  /\ store \subseteq Parity!OnePass(store, list)
         /\ Parity!OnePass(store, list) \subseteq store \union Protected
         /\ Parity!OnePass(store, list) = store =>
              \A k \in 1..Len(list) : Parity!Recovered(list[k], store) \subseteq store
<1>1. PICK f : IsPass(f, store, list) /\ Parity!OnePass(store, list) = f[Len(list)]
  BY PassEquation
<1>. DEFINE N == Len(list)
            From == {m \in Nat : m <= N => /\ store \subseteq f[m]
                                           /\ f[m] \subseteq store \union Protected
                                           /\ f[m] = store =>
                                                \A k \in 1..m :
                                                  Parity!Recovered(list[k], store) \subseteq store}
<1>2. N \in Nat
  OBVIOUS
<1>3. 0 \in From
  BY <1>1 DEF IsPass
<1>4. ASSUME NEW m \in Nat, m \in From  PROVE m + 1 \in From
  <2>. SUFFICES ASSUME m + 1 <= N
                PROVE  /\ store \subseteq f[m + 1]
                       /\ f[m + 1] \subseteq store \union Protected
                       /\ f[m + 1] = store =>
                            \A k \in 1..(m + 1) :
                              Parity!Recovered(list[k], store) \subseteq store
    OBVIOUS
  <2>1. m + 1 \in 1..Len(list) /\ (m + 1) - 1 = m
    BY <1>2
  <2>2. f[m + 1] = f[m] \union Parity!Recovered(list[m + 1], f[m])
    BY <1>1, <2>1 DEF IsPass
  <2>3. Parity!Recovered(list[m + 1], f[m]) \subseteq Parity!Members(list[m + 1])
    BY DEF Parity!Recovered
  <2>4. Parity!Members(list[m + 1]) \subseteq Protected
    BY <2>1 DEF Sound
  <2>5. /\ store \subseteq f[m] /\ f[m] \subseteq store \union Protected
        /\ f[m] = store => \A k \in 1..m : Parity!Recovered(list[k], store) \subseteq store
    BY <1>2, <1>4
  <2>6. ASSUME f[m + 1] = store, NEW k \in 1..(m + 1)
        PROVE  Parity!Recovered(list[k], store) \subseteq store
    <3>1. f[m] = store
      BY <2>2, <2>5, <2>6
    <3>2. Parity!Recovered(list[m + 1], store) \subseteq store
      BY <2>2, <2>6, <3>1
    <3>3. k = m + 1 \/ k \in 1..m
      OBVIOUS
    <3>. QED  BY <2>5, <3>1, <3>2, <3>3
  <2>. QED  BY <2>2, <2>3, <2>4, <2>5, <2>6
<1>5. N \in From
  <2>. HIDE DEF From
  <2>. QED  BY <1>2, <1>3, <1>4, NumberInduction
<1>. QED  BY <1>1, <1>2, <1>5

(* A sound row that repairs nothing does not lack exactly one datagram. *)
LEMMA RowsLeftAlone ==
  ASSUME NEW row, Sound(row), NEW store, Parity!Recovered(row, store) \subseteq store
  PROVE  Cardinality(Parity!Members(row) \ store) # 1
<1>. SUFFICES ASSUME Cardinality(Parity!Members(row) \ store) = 1  PROVE FALSE
  OBVIOUS
<1>. DEFINE missing == Parity!Members(row) \ store
<1>1. Parity!Xor(row.payload, Parity!Members(row) \intersect store) = missing
  BY DEF Sound, Parity!Xor
<1>2. Parity!Cardinality(missing) = 1
  BY ParityCardinality
<1>3. Parity!Recovered(row, store) = missing
  BY <1>1, <1>2 DEF Parity!Recovered
<1>4. missing = {}
  BY <1>3
<1>. QED  BY <1>4, FS_EmptySet

(* f has what is stored when no pass makes progress any more. *)
Repaired(f, list) ==
  \A T \in SUBSET Parity!FecSeqs :
    f[T] = IF Parity!OnePass(T, list) = T THEN T ELSE f[Parity!OnePass(T, list)]

(* recover_all ends: each pass but the last leaves less of the sequence     *)
(* space to repair.                                                         *)
LEMMA RecoverEquation ==
  ASSUME NEW list \in Seq(rows), \A row \in rows : Sound(row)
  PROVE  \E f : Repaired(f, list) /\ \A store : Parity!RecoverAll(store, list) = f[store]
<1>. DEFINE D == SUBSET Parity!FecSeqs
            N == Cardinality(Parity!FecSeqs)
            size == [T \in D |-> Cardinality(Parity!FecSeqs \ T)]
            rest == [T \in D |-> Parity!OnePass(T, list)]
            stop == {T \in D : rest[T] = T}
            base == [T \in D |-> T]
            H == [p \in D \X D |-> p[2]]
            Def(f) == f = [T \in SUBSET Parity!FecSeqs |->
                             IF Parity!OnePass(T, list) = T THEN T
                             ELSE f[Parity!OnePass(T, list)]]
            g == CHOOSE f : Def(f)
<1>1. N \in Nat /\ \A T \in D : /\ IsFiniteSet(Parity!FecSeqs \ T)
                                /\ Cardinality(Parity!FecSeqs \ T) \in 0..N
  BY ParityConstants, FS_Subset, FS_CardinalityType
<1>2. ASSUME NEW T \in D
      PROVE  rest[T] \in D /\ T \subseteq rest[T]
  BY PassProperties, ParityConstants
<1>3. size \in [D -> 0..N] /\ base \in [D -> D] /\ H \in [D \X D -> D]
  BY <1>1
<1>4. ASSUME NEW T \in D, T \notin stop  PROVE rest[T] \in D /\ size[rest[T]] < size[T]
  <2>1. rest[T] \in D /\ T \subseteq rest[T] /\ rest[T] # T
    BY <1>2, <1>4
  <2>. DEFINE new == rest[T]
  <2>. HIDE DEF rest
  <2>2. /\ Parity!FecSeqs \ new \subseteq Parity!FecSeqs \ T
        /\ Parity!FecSeqs \ new # Parity!FecSeqs \ T
    <3>1. PICK x \in new : x \notin T
      BY <2>1
    <3>2. x \in Parity!FecSeqs
      BY <2>1, <3>1
    <3>3. x \in Parity!FecSeqs \ T /\ x \notin Parity!FecSeqs \ new
      BY <3>1, <3>2
    <3>. QED  BY <2>1, <3>3
  <2>3. Cardinality(Parity!FecSeqs \ new) < Cardinality(Parity!FecSeqs \ T)
    <3>. DEFINE a == Parity!FecSeqs \ new
                b == Parity!FecSeqs \ T
    <3>1. /\ IsFiniteSet(b) /\ Cardinality(a) \in 0..N /\ Cardinality(b) \in 0..N /\ N \in Nat
          /\ a \in SUBSET b /\ a # b
      <4>1. new \in D
        BY <2>1
      <4>. HIDE DEF new, N
      <4>. QED  BY <1>1, <2>2, <4>1
    <3>. HIDE DEF a, b, N
    <3>2. Cardinality(a) <= Cardinality(b) /\ Cardinality(a) # Cardinality(b)
      BY ONLY <3>1, FS_Subset
    <3>3. Cardinality(a) < Cardinality(b)
      BY ONLY <3>1, <3>2
    <3>. QED  BY <3>3 DEF a, b
  <2>. QED  BY <2>1, <2>3
<1>5. PICK f \in [D -> D] : Descends(f, D, stop, base, rest, H)
  <2>1. N \in Nat /\ Shrinks(D, stop, rest, size)
    BY <1>1, <1>4 DEF Shrinks
  <2>. HIDE DEF D, N, size, stop, base, rest, H
  <2>. QED  BY ONLY <1>3, <2>1, MeasuredRecursion
<1>6. ASSUME NEW T \in D
      PROVE  f[T] = IF Parity!OnePass(T, list) = T THEN T ELSE f[Parity!OnePass(T, list)]
  <2>1. CASE T \in stop
    <3>1. f[T] = base[T]
      <4>. HIDE DEF stop, base, rest, H, D
      <4>. QED  BY <1>5, <2>1 DEF Descends
    <3>. QED  BY <2>1, <3>1
  <2>2. CASE T \notin stop
    <3>1. f[T] = H[<<T, f[rest[T]]>>]
      <4>. HIDE DEF stop, base, rest, H, D
      <4>. QED  BY <1>5, <2>2 DEF Descends
    <3>2. f[rest[T]] \in D
      <4>1. rest[T] \in D
        BY <1>2
      <4>. HIDE DEF rest, D
      <4>. QED  BY <4>1
    <3>3. H[<<T, f[rest[T]]>>] = f[rest[T]]
      <4>. DEFINE v == f[rest[T]]
      <4>1. v \in D
        BY <3>2
      <4>2. H[<<T, v>>] = v
        <5>. HIDE DEF v, D
        <5>. QED  BY <4>1
      <4>. QED  BY <4>2
    <3>. QED  BY <2>2, <3>1, <3>3
  <2>. QED  BY <2>1, <2>2
<1>7. Def(f)
  <2>. DEFINE h == [T \in D |-> IF Parity!OnePass(T, list) = T THEN T
                                ELSE f[Parity!OnePass(T, list)]]
  <2>1. \A T \in D : f[T] = h[T]
    BY <1>6
  <2>2. h = [T \in D |-> h[T]] /\ f = [T \in D |-> f[T]]
    OBVIOUS
  <2>. HIDE DEF h
  <2>3. f = h
    BY <2>1, <2>2
  <2>. QED  BY <2>3 DEF h
<1>8. Def(g)
  <2>1. \E h : Def(h)
    BY <1>7
  <2>. HIDE DEF Def
  <2>. QED  BY <2>1
<1>9. \A store : Parity!RecoverAll(store, list) = g[store]
  BY DEF Parity!RecoverAll
<1>10. Repaired(g, list)
  <2>1. \A T \in D : g[T] = IF Parity!OnePass(T, list) = T THEN T ELSE g[Parity!OnePass(T, list)]
    <3>. HIDE DEF g
    <3>. QED  BY <1>8
  <2>. HIDE DEF g
  <2>. QED  BY <2>1 DEF Repaired
<1>. QED  BY <1>9, <1>10

(* What recover_all leaves lacks nothing that a row could repair, by        *)
(* induction on what is not stored yet.                                     *)
LEMMA RecoverProperties ==
  ASSUME NEW list \in Seq(rows), \A row \in rows : Sound(row),
         NEW store \in SUBSET Parity!FecSeqs
  PROVE  /\ store \subseteq Parity!RecoverAll(store, list)
         /\ Parity!RecoverAll(store, list) \subseteq store \union Protected
         /\ \A k \in 1..Len(list) :
              Cardinality(Parity!Members(list[k]) \ Parity!RecoverAll(store, list)) # 1
<1>1. PICK f : Repaired(f, list) /\ \A had : Parity!RecoverAll(had, list) = f[had]
  BY RecoverEquation
<1>. DEFINE S == Parity!FecSeqs
            Done(T) == /\ T \subseteq f[T] /\ f[T] \subseteq T \union Protected
                       /\ \A k \in 1..Len(list) : Cardinality(Parity!Members(list[k]) \ f[T]) # 1
            J == {U \in SUBSET S : Done(S \ U)}
<1>2. ASSUME NEW U \in SUBSET S, \A W \in SUBSET U : W # U => W \in J  PROVE U \in J
  <2>. DEFINE T == S \ U
              next == Parity!OnePass(T, list)
  <2>1. /\ T \in SUBSET S /\ T \subseteq next /\ next \subseteq T \union Protected
        /\ next \subseteq S
        /\ next = T => \A k \in 1..Len(list) : Parity!Recovered(list[k], T) \subseteq T
    <3>1. T \in SUBSET Parity!FecSeqs /\ list \in Seq(rows) /\ \A row \in rows : Sound(row)
      OBVIOUS
    <3>. HIDE DEF T
    <3>2. /\ T \subseteq next /\ next \subseteq T \union Protected
          /\ next = T => \A k \in 1..Len(list) : Parity!Recovered(list[k], T) \subseteq T
      BY ONLY <3>1, PassProperties
    <3>. QED  BY <3>1, <3>2, ParityConstants
  <2>2. f[T] = IF next = T THEN T ELSE f[next]
    BY <1>1, <2>1 DEF Repaired
  <2>. HIDE DEF next
  <2>3. CASE next = T
    <3>1. ASSUME NEW k \in 1..Len(list)
          PROVE  Cardinality(Parity!Members(list[k]) \ T) # 1
      <4>1. list[k] \in rows /\ Sound(list[k])
        OBVIOUS
      <4>2. Parity!Recovered(list[k], T) \subseteq T
        BY <2>1, <2>3
      <4>. HIDE DEF T
      <4>. QED  BY <4>1, <4>2, RowsLeftAlone
    <3>2. Done(T)
      <4>. HIDE DEF T
      <4>. QED  BY <2>2, <2>3, <3>1
    <3>. QED  BY <3>2
  <2>4. CASE next # T
    <3>. DEFINE W == S \ next
    <3>1. W \in SUBSET U /\ W # U /\ S \ W = next
      BY <2>1, <2>4
    <3>2. Done(next)
      <4>1. W \in J
        BY <1>2, <3>1
      <4>2. Done(S \ W)
        BY <4>1
      <4>. QED  BY <3>1, <4>2
    <3>3. f[T] = f[next]
      BY <2>2, <2>4
    <3>4. Done(T)
      <4>. HIDE DEF T, S
      <4>. QED  BY <2>1, <3>2, <3>3
    <3>. QED  BY <3>4
  <2>. QED  BY <2>3, <2>4
<1>3. \A U \in SUBSET S : U \in J
  <2>1. IsFiniteSet(S)
    BY ParityConstants
  <2>. HIDE DEF J, S
  <2>. QED  BY <1>2, <2>1, StrongSubsetInduction
<1>4. Done(store)
  <2>1. S \ store \in SUBSET S /\ S \ (S \ store) = store
    OBVIOUS
  <2>2. S \ store \in J
    BY <1>3, <2>1
  <2>3. Done(S \ (S \ store))
    BY <2>2
  <2>. HIDE DEF Done
  <2>. QED  BY <2>1, <2>3
<1>. QED  BY <1>1, <1>4

(* Eviction keeps Capacity datagrams, the furthest ahead: within half of    *)
(* the sequence space there is an order to go by.                           *)
LEMMA EvictedKeeps ==
  ASSUME NEW store \in SUBSET Protected
  PROVE  /\ Parity!Evicted(store) \in SUBSET store
         /\ Cardinality(Parity!Evicted(store)) <= Capacity
<1>. DEFINE Right(kept) ==
              /\ Parity!Cardinality(kept) = Capacity
              /\ \A s \in kept, t \in store \ kept : 2 * Parity!Ahead(s, t) < FecSpace
<1>1. Capacity \in Nat /\ IsFiniteSet(store) /\ Cardinality(store) \in Nat
      /\ store \in SUBSET Parity!FecSeqs
  BY ParityConstants, FS_Subset, FS_CardinalityType
<1>2. CASE Cardinality(store) <= Capacity
  <2>1. Parity!Evicted(store) = store
    BY <1>2, ParityCardinality DEF Parity!Evicted
  <2>. QED  BY <1>2, <2>1
<1>3. CASE ~(Cardinality(store) <= Capacity)
  <2>1. PICK first \in Parity!FecSeqs :
          \A seq \in Protected : 2 * Parity!Ahead(seq, first) < FecSpace
    BY PartsAssumption DEF Parity!FecAssumption
  <2>. DEFINE key == [s \in store |-> Parity!Ahead(s, first)]
  <2>2. ASSUME NEW s \in store
        PROVE  /\ key[s] \in 0..FecSpace /\ key[s] \in Nat /\ 2 * key[s] < FecSpace
               /\ key[s] = IF s >= first THEN s - first ELSE s - first + FecSpace
               /\ (first + key[s]) % FecSpace = s
    <3>1. s \in Protected /\ s \in Parity!FecSeqs
      BY <1>1
    <3>2. key[s] = Parity!Ahead(s, first)
      OBVIOUS
    <3>3. /\ key[s] \in Nat /\ key[s] < FecSpace
          /\ key[s] = IF s >= first THEN s - first ELSE s - first + FecSpace
          /\ (first + key[s]) % FecSpace = s
      <4>. HIDE DEF key
      <4>. QED  BY <2>1, <3>1, <3>2, ParityDistance
    <3>4. 2 * Parity!Ahead(s, first) < FecSpace /\ FecSpace \in Nat
      BY <2>1, <3>1, ParityConstants
    <3>. HIDE DEF key
    <3>5. 2 * key[s] < FecSpace
      BY <3>2, <3>4
    <3>6. key[s] \in 0..FecSpace
      BY <3>3, <3>4
    <3>. QED  BY <3>3, <3>5, <3>6
  <2>3. \E kept \in SUBSET store :
          /\ Cardinality(kept) = Capacity
          /\ \A s \in kept, t \in store \ kept : key[t] < key[s]
    <3>1. key \in [store -> 0..FecSpace]
      BY <2>2
    <3>2. \A s, t \in store : key[s] = key[t] => s = t
      <4>. HIDE DEF key
      <4>. QED  BY <2>2
    <3>3. Capacity \in 0..Cardinality(store)
      BY <1>1, <1>3
    <3>4. FecSpace \in Nat
      BY ParityConstants
    <3>. HIDE DEF key
    <3>. QED  BY <1>1, <3>1, <3>2, <3>3, <3>4, Topmost
  <2>. HIDE DEF key
  <2>4. PICK kept \in SUBSET store :
          /\ Cardinality(kept) = Capacity
          /\ \A s \in kept, t \in store \ kept : key[t] < key[s]
    BY <2>3
  <2>5. ASSUME NEW s \in kept, NEW t \in store \ kept
        PROVE  2 * Parity!Ahead(s, t) < FecSpace
    <3>1. key[t] < key[s] /\ s \in store /\ t \in store
      BY <2>4
    <3>2. /\ s \in Int /\ t \in Int /\ first \in Int /\ FecSpace \in Nat
          /\ 0 <= s /\ s < FecSpace /\ 0 <= t /\ t < FecSpace
          /\ 0 <= first /\ first < FecSpace
      BY <1>1, <3>1, ParityConstants
    <3>3. Parity!Ahead(s, t) = IF s >= t THEN s - t ELSE s - t + FecSpace
      BY <1>1, <3>1, ParityDistance
    <3>4. /\ key[s] \in Nat /\ 2 * key[s] < FecSpace
          /\ key[s] = IF s >= first THEN s - first ELSE s - first + FecSpace
          /\ key[t] \in Nat /\ 2 * key[t] < FecSpace
          /\ key[t] = IF t >= first THEN t - first ELSE t - first + FecSpace
      BY <2>2, <3>1
    <3>. QED  BY ONLY <3>1, <3>2, <3>3, <3>4
  <2>6. Right(kept)
    BY <2>4, <2>5, ParityCardinality
  <2>7. Parity!Evicted(store) = CHOOSE k \in SUBSET store : Right(k)
    BY <1>3, ParityCardinality DEF Parity!Evicted
  <2>8. Parity!Evicted(store) \in SUBSET store /\ Right(Parity!Evicted(store))
    <3>. HIDE DEF Right
    <3>. QED  BY <2>6, <2>7
  <2>9. Cardinality(Parity!Evicted(store)) = Capacity
    BY <2>8, ParityCardinality
  <2>. QED  BY <1>1, <2>8, <2>9
<1>. QED  BY <1>2, <1>3

(* The stores of the receiver. *)
StoresTyped ==
  /\ media \in SUBSET Protected /\ Cardinality(media) <= Capacity
  /\ fec \in Seq(rows) /\ Len(fec) <= Capacity

(* What waits for a flush. *)
BlockTyped ==
  /\ fecRate \in FecRates /\ block \in Seq(Protected) /\ Len(block) <= BlockSize
  /\ block # <<>> => Parity!HasBase(block)

(* The last flush made the rows of its block. *)
FlushedSound ==
  /\ flushed.seqs \in Seq(Protected) /\ flushed.rate \in 0..255
  /\ flushed.seqs # <<>> =>
       Parity!HasBase(flushed.seqs) /\ flushed.rows = Parity!Rows(flushed.seqs, flushed.rate)

(* Every row on the way is sound. *)
RowsSound == \A row \in rows : Sound(row)

(* The inductive invariant of the generator and the receiver. *)
ParityInv == BlockTyped /\ RowsSound /\ FlushedSound /\ StoresTyped /\ Parity!RepairedAtOnce

(* After recover_all and the eviction that follows it, no row lacks one     *)
(* datagram the application was not given.                                  *)
LEMMA SettleRepairs ==
  ASSUME NEW store \in SUBSET Protected, Cardinality(store) <= Capacity,
         NEW list \in Seq(rows), Len(list) <= Capacity, RowsSound,
         NEW given, Parity!Settle(store, list, given), rows' = rows
  PROVE  StoresTyped' /\ Parity!RepairedAtOnce'
<1>. DEFINE repaired == Parity!RecoverAll(store, list)
<1>1. store \in SUBSET Parity!FecSeqs
  BY ParityConstants
<1>2. /\ store \subseteq repaired /\ repaired \subseteq Protected
      /\ \A k \in 1..Len(list) : Cardinality(Parity!Members(list[k]) \ repaired) # 1
  BY <1>1, RecoverProperties DEF RowsSound
<1>3. /\ media' = IF repaired = store THEN store ELSE Parity!Evicted(repaired)
      /\ fec' = list /\ repaired \subseteq known'
  BY DEF Parity!Settle
<1>. HIDE DEF repaired
<1>4. media' \in SUBSET Protected /\ Cardinality(media') <= Capacity /\ media' \subseteq repaired
  <2>1. CASE repaired = store
    BY <1>3, <2>1
  <2>2. CASE repaired # store
    <3>1. Parity!Evicted(repaired) \in SUBSET repaired
          /\ Cardinality(Parity!Evicted(repaired)) <= Capacity
      BY <1>2, EvictedKeeps
    <3>. QED  BY <1>2, <1>3, <2>2, <3>1
  <2>. QED  BY <2>1, <2>2
<1>5. ASSUME NEW k \in 1..Len(list), Cardinality(Parity!Members(list[k]) \ media') = 1
      PROVE  Parity!Members(list[k]) \ media' \subseteq known'
  <2>. DEFINE members == Parity!Members(list[k])
  <2>1. IsFiniteSet(members \ media')
    <3>1. list[k] \in rows
      OBVIOUS
    <3>2. members \ media' \subseteq Parity!FecSeqs
      BY <3>1, ParityConstants DEF RowsSound, Sound
    <3>. QED  BY <3>2, ParityConstants, FS_Subset
  <2>2. PICK seq : members \ media' = {seq}
    <3>. HIDE DEF members
    <3>. QED  BY <1>5, <2>1, FS_Singleton DEF members
  <2>3. CASE seq \in repaired
    BY <1>3, <2>2, <2>3
  <2>4. CASE seq \notin repaired
    <3>1. members \ repaired = {seq}
      <4>. HIDE DEF members
      <4>. QED  BY <1>4, <2>2, <2>4
    <3>2. Cardinality(members \ repaired) = 1
      BY <3>1, FS_Singleton
    <3>. QED  BY <1>2, <3>2
  <2>. QED  BY <2>3, <2>4
<1>6. Parity!RepairedAtOnce'
  BY <1>3, <1>5, ParityCardinality DEF Parity!RepairedAtOnce
<1>. QED  BY <1>3, <1>4, <1>6 DEF StoresTyped

(* Generator and receiver start with nothing. *)
LEMMA InitParity == Parity!FecInit => ParityInv
<1>. SUFFICES ASSUME Parity!FecInit  PROVE ParityInv
  OBVIOUS
<1>1. /\ fecRate \in FecRates /\ block = <<>> /\ rows = {} /\ media = {} /\ fec = <<>>
      /\ flushed = [seqs |-> <<>>, rate |-> 0, rows |-> {}]
  BY DEF Parity!FecInit
<1>2. BlockTyped
  BY <1>1, ParityConstants DEF BlockTyped
<1>3. RowsSound
  BY <1>1 DEF RowsSound
<1>4. FlushedSound
  BY <1>1 DEF FlushedSound
<1>5. StoresTyped
  BY <1>1, ParityConstants, FS_EmptySet DEF StoresTyped
<1>6. Parity!RepairedAtOnce
  BY <1>1 DEF Parity!RepairedAtOnce
<1>. QED  BY <1>2, <1>3, <1>4, <1>5, <1>6 DEF ParityInv

(* A flush adds sound rows. *)
LEMMA FlushKeepsRows ==
  ASSUME ParityInv, Parity!Flushed(block)
  PROVE  FlushedSound' /\ RowsSound' /\ rows \subseteq rows'
<1>. DEFINE new == Parity!Rows(block, fecRate)
<1>1. block \in Seq(Protected) /\ fecRate \in 0..255
  BY ParityConstants DEF ParityInv, BlockTyped
<1>2. flushed' = [seqs |-> block, rate |-> fecRate, rows |-> IF block = <<>> THEN {} ELSE new]
      /\ rows' = IF block = <<>> THEN rows ELSE rows \union new
  BY DEF Parity!Flushed
<1>. HIDE DEF new
<1>3. CASE block = <<>>
  <2>1. RowsSound' /\ rows' = rows
    BY <1>2, <1>3 DEF ParityInv, RowsSound
  <2>2. FlushedSound'
    BY <1>1, <1>2, <1>3 DEF FlushedSound
  <2>. QED  BY <2>1, <2>2
<1>4. CASE block # <<>>
  <2>1. Parity!HasBase(block)
    BY <1>4 DEF ParityInv, BlockTyped
  <2>2. \A row \in new : Sound(row)
    BY <1>1, <2>1, RowsExact DEF new
  <2>3. rows' = rows \union new /\ flushed' = [seqs |-> block, rate |-> fecRate, rows |-> new]
    BY <1>2, <1>4
  <2>4. RowsSound'
    <3>1. \A row \in rows' : Sound(row)
      BY <2>2, <2>3 DEF ParityInv, RowsSound
    <3>. QED  BY <3>1 DEF RowsSound, Sound, Parity!Members
  <2>5. FlushedSound'
    <3>1. /\ flushed'.seqs = block /\ flushed'.rate = fecRate /\ flushed'.rows = new
      BY <2>3
    <3>. QED  BY <1>1, <2>1, <3>1 DEF FlushedSound, new
  <2>. QED  BY <2>3, <2>4, <2>5
<1>. QED  BY <1>3, <1>4

(* The generator does not disturb the receiver. *)
LEMMA StoresUnchanged ==
  ASSUME ParityInv, UNCHANGED <<media, fec, known>>, rows \subseteq rows'
  PROVE  StoresTyped' /\ Parity!RepairedAtOnce'
<1>1. StoresTyped'
  <2>1. fec \in Seq(rows')
    <3>1. \A k \in 1..Len(fec) : fec[k] \in rows'
      BY DEF ParityInv, StoresTyped
    <3>. QED  BY <3>1, SeqDef DEF ParityInv, StoresTyped
  <2>. QED  BY <2>1 DEF ParityInv, StoresTyped
<1>2. Parity!RepairedAtOnce'
  BY DEF ParityInv, Parity!RepairedAtOnce
<1>. QED  BY <1>1, <1>2

(* push keeps the invariant of the parity repair. *)
LEMMA PushKeepsParity == ParityInv /\ Parity!Push => ParityInv'
<1>. SUFFICES ASSUME ParityInv, Parity!Push  PROVE ParityInv'
  OBVIOUS
<1>1. PICK seq \in Protected :
        LET full == Len(block) >= BlockSize
            seqs == Append(IF full THEN <<>> ELSE block, seq)
        IN /\ IF full THEN Parity!Flushed(block) ELSE UNCHANGED <<rows, flushed>>
           /\ block' = IF Parity!HasBase(seqs) THEN seqs ELSE block
           /\ UNCHANGED <<fecRate, media, fec, known>>
  BY DEF Parity!Push, Parity!receiverVars
<1>. DEFINE full == Len(block) >= BlockSize
            start == IF full THEN <<>> ELSE block
            seqs == Append(start, seq)
<1>2. /\ fecRate \in FecRates /\ block \in Seq(Protected) /\ Len(block) <= BlockSize
      /\ block # <<>> => Parity!HasBase(block)
      /\ BlockSize \in Nat \ {0}
  BY ParityConstants DEF ParityInv, BlockTyped
<1>3. start \in Seq(Protected) /\ Len(start) < BlockSize
  BY <1>2
<1>4. seqs \in Seq(Protected) /\ Len(seqs) <= BlockSize
  <2>. HIDE DEF start
  <2>. QED  BY <1>1, <1>2, <1>3
<1>5. BlockTyped'
  <2>1. block' = IF Parity!HasBase(seqs) THEN seqs ELSE block
    BY <1>1
  <2>. HIDE DEF seqs
  <2>. QED  BY <1>1, <1>2, <1>4, <2>1 DEF BlockTyped, Parity!HasBase, Parity!IsBase, Parity!ToSet
<1>6. RowsSound' /\ FlushedSound' /\ rows \subseteq rows'
  <2>1. CASE full
    BY <1>1, <2>1, FlushKeepsRows
  <2>2. CASE ~full
    <3>1. UNCHANGED <<rows, flushed>>
      BY <1>1, <2>2
    <3>2. RowsSound' /\ rows' = rows
      BY <3>1 DEF ParityInv, RowsSound
    <3>3. FlushedSound'
      BY <3>1 DEF ParityInv, FlushedSound
    <3>. QED  BY <3>2, <3>3
  <2>. QED  BY <2>1, <2>2
<1>7. StoresTyped' /\ Parity!RepairedAtOnce'
  BY <1>1, <1>6, StoresUnchanged
<1>. QED  BY <1>5, <1>6, <1>7 DEF ParityInv

(* flush keeps the invariant of the parity repair. *)
LEMMA FlushKeepsParity == ParityInv /\ Parity!Flush => ParityInv'
<1>. SUFFICES ASSUME ParityInv, Parity!Flush  PROVE ParityInv'
  OBVIOUS
<1>1. /\ Parity!Flushed(block) /\ block' = <<>> /\ fecRate' = fecRate
      /\ UNCHANGED <<media, fec, known>>
  BY DEF Parity!Flush, Parity!receiverVars
<1>2. BlockTyped'
  BY <1>1, ParityConstants DEF ParityInv, BlockTyped
<1>3. RowsSound' /\ FlushedSound' /\ rows \subseteq rows'
  BY <1>1, FlushKeepsRows
<1>4. StoresTyped' /\ Parity!RepairedAtOnce'
  BY <1>1, <1>3, StoresUnchanged
<1>. QED  BY <1>2, <1>3, <1>4 DEF ParityInv

(* set_params keeps the invariant of the parity repair. *)
LEMMA ParamsKeepParity == ParityInv /\ Parity!SetParams => ParityInv'
<1>. SUFFICES ASSUME ParityInv, Parity!SetParams  PROVE ParityInv'
  OBVIOUS
<1>1. /\ fecRate' \in FecRates /\ UNCHANGED <<block, rows, flushed>>
      /\ UNCHANGED <<media, fec, known>>
  BY DEF Parity!SetParams, Parity!receiverVars
<1>2. BlockTyped'
  BY <1>1 DEF ParityInv, BlockTyped
<1>3. RowsSound' /\ FlushedSound'
  BY <1>1 DEF ParityInv, RowsSound, FlushedSound
<1>4. StoresTyped' /\ Parity!RepairedAtOnce'
  BY <1>1, StoresUnchanged
<1>. QED  BY <1>2, <1>3, <1>4 DEF ParityInv

(* The receiver does not disturb the generator. *)
LEMMA GeneratorUnchanged ==
  ASSUME ParityInv, UNCHANGED Parity!generatorVars
  PROVE  BlockTyped' /\ RowsSound' /\ FlushedSound' /\ rows' = rows
<1>1. UNCHANGED <<fecRate, block, rows, flushed>>
  BY DEF Parity!generatorVars
<1>2. BlockTyped'
  BY <1>1 DEF ParityInv, BlockTyped
<1>3. RowsSound' /\ FlushedSound'
  BY <1>1 DEF ParityInv, RowsSound, FlushedSound
<1>. QED  BY <1>1, <1>2, <1>3

(* insert_media keeps the invariant of the parity repair. *)
LEMMA MediaKeepsParity == ParityInv /\ Parity!InsertMedia => ParityInv'
<1>. SUFFICES ASSUME ParityInv, Parity!InsertMedia  PROVE ParityInv'
  OBVIOUS
<1>1. PICK seq \in Protected :
        /\ Parity!Settle(Parity!Evicted(media \union {seq}), fec, {seq})
        /\ UNCHANGED Parity!generatorVars
  BY DEF Parity!InsertMedia
<1>2. BlockTyped' /\ RowsSound' /\ FlushedSound' /\ rows' = rows
  BY <1>1, GeneratorUnchanged
<1>. DEFINE store == Parity!Evicted(media \union {seq})
<1>3. store \in SUBSET Protected /\ Cardinality(store) <= Capacity
  <2>1. media \union {seq} \in SUBSET Protected
    BY <1>1 DEF ParityInv, StoresTyped
  <2>. QED  BY <2>1, EvictedKeeps
<1>4. fec \in Seq(rows) /\ Len(fec) <= Capacity /\ RowsSound
  BY DEF ParityInv, StoresTyped
<1>5. StoresTyped' /\ Parity!RepairedAtOnce'
  <2>. HIDE DEF store
  <2>1. Parity!Settle(store, fec, {seq})
    BY <1>1 DEF store
  <2>. QED  BY <1>2, <1>3, <1>4, <2>1, SettleRepairs
<1>. QED  BY <1>2, <1>5 DEF ParityInv

(* insert_fec keeps the invariant of the parity repair. *)
LEMMA RowKeepsParity == ParityInv /\ Parity!InsertFec => ParityInv'
<1>. SUFFICES ASSUME ParityInv, Parity!InsertFec  PROVE ParityInv'
  OBVIOUS
<1>1. PICK row \in rows :
        /\ Parity!Settle(media, IF Len(Append(fec, row)) > Capacity
                                THEN Tail(Append(fec, row)) ELSE Append(fec, row), {})
        /\ UNCHANGED Parity!generatorVars
  BY DEF Parity!InsertFec
<1>2. BlockTyped' /\ RowsSound' /\ FlushedSound' /\ rows' = rows
  BY <1>1, GeneratorUnchanged
<1>. DEFINE more == Append(fec, row)
            list == IF Len(more) > Capacity THEN Tail(more) ELSE more
<1>3. /\ fec \in Seq(rows) /\ Len(fec) <= Capacity /\ RowsSound
      /\ media \in SUBSET Protected /\ Cardinality(media) <= Capacity /\ Capacity \in Nat
  BY ParityConstants DEF ParityInv, StoresTyped
<1>4. list \in Seq(rows) /\ Len(list) <= Capacity
  <2>1. more \in Seq(rows) /\ Len(more) = Len(fec) + 1 /\ more # <<>>
    BY <1>1, <1>3
  <2>. HIDE DEF more
  <2>2. Tail(more) \in Seq(rows) /\ Len(Tail(more)) = Len(more) - 1
    BY <2>1
  <2>3. Len(fec) \in Nat /\ Len(more) \in Nat
    BY <1>3, <2>1
  <2>. QED  BY <1>3, <2>1, <2>2, <2>3
<1>5. StoresTyped' /\ Parity!RepairedAtOnce'
  <2>1. Parity!Settle(media, list, {})
    BY <1>1
  <2>. HIDE DEF list
  <2>. QED  BY <1>2, <1>3, <1>4, <2>1, SettleRepairs
<1>. QED  BY <1>2, <1>5 DEF ParityInv

(* Every step keeps the invariant of the parity repair. *)
LEMMA NextKeepsParity == ParityInv /\ [Parity!FecNext]_parityState => ParityInv'
<1>. SUFFICES ASSUME ParityInv, [Parity!FecNext]_parityState  PROVE ParityInv'
  OBVIOUS
<1>1. CASE UNCHANGED parityState
  <2>1. UNCHANGED Parity!generatorVars /\ UNCHANGED <<media, fec, known>>
    BY <1>1 DEF parityState, Parity!generatorVars
  <2>. QED  BY <2>1, GeneratorUnchanged, StoresUnchanged DEF ParityInv
<1>. QED  BY <1>1, PushKeepsParity, FlushKeepsParity, ParamsKeepParity, MediaKeepsParity,
             RowKeepsParity DEF Parity!FecNext

(* A step of the composition is one of the parity repair, or leaves it      *)
(* alone.                                                                   *)
LEMMA PartsRunParity ==
  ASSUME [PartsNext]_partsVars
  PROVE  [Parity!FecNext]_parityState
BY DEF PartsNext, partsVars, parityState, OnlyCipher, OnlyInbox, OnlyNack, OnlyParity,
       Parity!FecNext

(* The invariant of the parity repair, for every block size, capacity, set  *)
(* of rates and set of sequences within half of the sequence space.         *)
THEOREM ParityInvHolds == PartsSpec => []ParityInv
<1>1. PartsInit => ParityInv
  BY InitParity DEF PartsInit
<1>2. ParityInv /\ [PartsNext]_partsVars => ParityInv'
  BY PartsRunParity, NextKeepsParity
<1>. QED  BY <1>1, <1>2, PTL DEF PartsSpec

(* No row the receiver keeps lacks exactly one datagram, unless the         *)
(* application was given that one before and it was evicted: whatever was   *)
(* lost, repeated or overtaken, and however many rows a repair cascades     *)
(* through.                                                                 *)
THEOREM RepairsAtOnce == PartsSpec => []RepairedAtOnce
<1>1. ParityInv => RepairedAtOnce
  BY DEF ParityInv, RepairedAtOnce
<1>. QED  BY <1>1, ParityInvHolds, PTL

(* A flush at a rate above zero puts every datagram of its block into       *)
(* exactly one row, at whatever place of the sequence space the block lies  *)
(* and in whatever order it was pushed.                                     *)
THEOREM BlocksProtected == PartsSpec => []BlockProtected
<1>1. ParityInv => BlockProtected
  <2>. SUFFICES ASSUME ParityInv, flushed.rate > 0, NEW seq \in Parity!ToSet(flushed.seqs)
                PROVE  Parity!Cardinality({row \in flushed.rows : seq \in Parity!Members(row)}) = 1
    BY DEF BlockProtected, Parity!BlockProtected
  <2>1. /\ flushed.seqs \in Seq(Protected) /\ flushed.rate \in 0..255
        /\ flushed.seqs # <<>> => /\ Parity!HasBase(flushed.seqs)
                                  /\ flushed.rows = Parity!Rows(flushed.seqs, flushed.rate)
    BY DEF ParityInv, FlushedSound
  <2>2. flushed.seqs # <<>>
    BY DEF Parity!ToSet
  <2>3. Cardinality({row \in flushed.rows : seq \in Parity!Members(row)}) = 1
    BY <2>1, <2>2, RowsExact
  <2>. QED  BY <2>3, ParityCardinality
<1>. QED  BY <1>1, ParityInvHolds, PTL

---------------------------------------------------------------------------
(* The parts together *)

(* A step of the composition is one of the inbox, or leaves it alone. *)
LEMMA PartsRunInbox ==
  ASSUME [PartsNext]_partsVars
  PROVE  [Next]_vars
BY DEF PartsNext, partsVars, OnlyCipher, OnlyInbox, OnlyNack, OnlyParity,
       Next, DriveNext, RecvNext

(* A step of the composition is one of the handshake and the cipher, or     *)
(* leaves them alone.                                                       *)
LEMMA PartsRunCipher ==
  ASSUME [PartsNext]_partsVars
  PROVE  [SecureNext]_secureVars
BY DEF PartsNext, partsVars, OnlyCipher, OnlyInbox, OnlyNack, OnlyParity, SecureNext

(* The requester's invariant types its state and bounds its table. *)
LEMMA NackIsTyped == NackInv => Nacks!TypeOK
<1>1. Nacks!Cardinality(DOMAIN pending) = Cardinality(DOMAIN pending)
  BY DEF Nacks!Cardinality, Cardinality
<1>. QED  BY <1>1 DEF NackInv, NackPacket, ListsMissing, ListTyped, HolesTyped, Nacks!TypeOK

(* The invariant of the parity repair types its state and bounds its        *)
(* stores.                                                                  *)
LEMMA ParityIsTyped == ParityInv => Parity!FecTypeOK
<1>. SUFFICES ASSUME ParityInv  PROVE Parity!FecTypeOK
  OBVIOUS
<1>1. Parity!Cardinality(media) = Cardinality(media)
  BY ParityCardinality
<1>2. Parity!ToSet(fec) \subseteq rows
  BY DEF Parity!ToSet, ParityInv, StoresTyped
<1>. QED  BY <1>1, <1>2 DEF ParityInv, BlockTyped, StoresTyped, Parity!FecTypeOK

(* The invariant of the cipher types it. *)
LEMMA CipherIsTyped == SecureInv => \A s \in Sides : CipherType(cipher[s])
<1>. SUFFICES ASSUME SecureInv, NEW s \in Sides  PROVE CipherType(cipher[s])
  OBVIOUS
<1>1. cipher[s] \in Ciphers
  BY DEF SecureInv, SecureTyped
<1>2. cipher[s].seals = s /\ cipher[s].opens = Peer(s)
  BY DEF SecureInv, SealInv
<1>3. Peer(s) # s
  BY DEF Peer, Sides
<1>. QED  BY <1>1, <1>2, <1>3 DEF Ciphers, Key, CipherType

(* Every part of a receiver keeps its types and its capacity: the frames of *)
(* an inbox, the table of missing numbers, the stores of the parity repair  *)
(* and the replay window are bounded whatever arrives.                      *)
THEOREM ReceiveTyped == PartsSpec => []ReceiveTypeOK
<1>. DEFINE Both == InboxInv /\ SecureInv
<1>1. PartsInit => Both
  BY InitInbox, InitSecure DEF PartsInit
<1>2. Both /\ [PartsNext]_partsVars => Both'
  BY PartsRunInbox, PartsRunCipher, NextKeepsInbox, NextKeeps
<1>3. Both /\ NackInv /\ ParityInv => ReceiveTypeOK
  <2>1. InboxInv => TypeOK
    BY DEF InboxInv, InboxTyped
  <2>. QED  BY <2>1, NackIsTyped, ParityIsTyped, CipherIsTyped DEF ReceiveTypeOK
<1>. QED  BY <1>1, <1>2, <1>3, NackInvHolds, ParityInvHolds, PTL DEF PartsSpec
=============================================================================
