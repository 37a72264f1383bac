---------------------------- MODULE SessionProofs ----------------------------
(***************************************************************************)
(* What one step of one session preserves, whatever its peer does.  The    *)
(* modules that close the system (SessionPairProofs, SessionAnyPeerProofs) *)
(* turn these lemmas into theorems about their specifications.             *)
(***************************************************************************)
EXTENDS Session, SequenceTheorems, TLAPS

(* The values drive and the application build have their types. *)
LEMMA MessagesTyped ==
  /\ OpenCommand \in Command
  /\ \A id \in Id : CloseCommand(id) \in Command /\ FrameCommand(id) \in Command
  /\ \A id \in Id : \A type \in {"Open", "Ready", "Reject", "Close"} : Sig(type, id) \in Signal
  BY SizeAssumption DEF OpenCommand, CloseCommand, FrameCommand, Command, Sig, Signal, Id

(* What is taken off a channel, put on one, or lost to a full one, leaves   *)
(* the channels typed.                                                      *)
LEMMA ChannelsTyped ==
  ASSUME TypeOK, NEW p \in Peer
  PROVE  /\ commands[p] # <<>> =>
              Head(commands[p]) \in Command /\ Tail(commands[p]) \in Seq(Command)
         /\ signals[p] # <<>> =>
              Head(signals[p]) \in Signal /\ Tail(signals[p]) \in Seq(Signal)
         /\ \A c \in Command : /\ Append(commands[p], c) \in Seq(Command)
                               /\ TrySend(p, c) \in Seq(Command)
         /\ \A s \in Signal : /\ Append(tcp[p], s) \in Seq(Signal)
                              /\ Append(signals[p], s) \in Seq(Signal)
<1>1. commands[p] \in Seq(Command) /\ signals[p] \in Seq(Signal) /\ tcp[p] \in Seq(Signal)
  BY DEF TypeOK
<1>2. /\ commands[p] # <<>> =>
           Head(commands[p]) \in Command /\ Tail(commands[p]) \in Seq(Command)
      /\ signals[p] # <<>> =>
           Head(signals[p]) \in Signal /\ Tail(signals[p]) \in Seq(Signal)
  BY <1>1, HeadTailProperties
<1>3. ASSUME NEW c \in Command
      PROVE  Append(commands[p], c) \in Seq(Command) /\ TrySend(p, c) \in Seq(Command)
  BY <1>1, AppendProperties DEF TrySend
<1>4. ASSUME NEW s \in Signal
      PROVE  Append(tcp[p], s) \in Seq(Signal) /\ Append(signals[p], s) \in Seq(Signal)
  BY <1>1, AppendProperties
<1>. QED  BY <1>2, <1>3, <1>4

(* The pieces the actions of drive are made of keep their variable typed. *)
LEMMA SetTrackTyped ==
  ASSUME TypeOK, NEW p \in Peer, NEW id \in Id,
         NEW state \in {"none", "local", "ready", "remote"}, SetTrack(p, id, state)
  PROVE  tracks' \in [Peer -> [Id -> {"none", "local", "ready", "remote"}]]
  BY DEF TypeOK, SetTrack

(* The end of a pending open keeps opening typed. *)
LEMMA EndOpeningTyped ==
  ASSUME TypeOK, NEW p \in Peer, NEW id \in Id, EndOpening(p, id)
  PROVE  opening' \in [Peer -> [Id -> {"none", "awaited", "cancelled"}]]
  BY DEF TypeOK, EndOpening

(* A signal written keeps tcp typed. *)
LEMMA WriteTyped ==
  ASSUME TypeOK, NEW p \in Peer, NEW id \in Id,
         NEW type \in {"Open", "Ready", "Reject", "Close"}, Write(p, type, id)
  PROVE  tcp' \in [Peer -> Seq(Signal)]
  BY MessagesTyped, ChannelsTyped DEF TypeOK, Write

(* A command taken keeps the command channels typed. *)
LEMMA TakeCommandTyped ==
  ASSUME TypeOK, NEW p \in Peer, commands[p] # <<>>, TakeCommand(p)
  PROVE  commands' \in [Peer -> Seq(Command)] /\ Head(commands[p]).id \in Id
  BY ChannelsTyped DEF TypeOK, TakeCommand, Command

(* A signal taken keeps the signal channels typed. *)
LEMMA TakeSignalTyped ==
  ASSUME TypeOK, NEW p \in Peer, signals[p] # <<>>, TakeSignal(p)
  PROVE  signals' \in [Peer -> Seq(Signal)] /\ Head(signals[p]).id \in Id
  BY ChannelsTyped DEF TypeOK, TakeSignal, Signal

(* A command sent by Drop, or lost, keeps the command channels typed. *)
LEMMA TrySendTyped ==
  ASSUME TypeOK, NEW p \in Peer, NEW id \in Id,
         commands' = [commands EXCEPT ![p] = TrySend(p, CloseCommand(id))]
  PROVE  commands' \in [Peer -> Seq(Command)]
  BY MessagesTyped, ChannelsTyped DEF TypeOK

(* A set of ids that gains one is still a set of ids. *)
LEMMA AddIdTyped ==
  ASSUME NEW ids \in [Peer -> SUBSET Id], NEW p \in Peer, NEW id \in Id
  PROVE  [ids EXCEPT ![p] = @ \union {id}] \in [Peer -> SUBSET Id]
  OBVIOUS

(* drive returns in a typed state. *)
LEMMA ReturnTyped ==
  ASSUME TypeOK, NEW p \in Peer, Return(p), tcp' \in [Peer -> Seq(Signal)],
         UNCHANGED <<handleVars, media>>
  PROVE  TypeOK'
<1>1. <<>> \in Seq(Command) /\ <<>> \in Seq(Signal)
  BY EmptySeq
<1>. QED  BY <1>1 DEF TypeOK, Return, handleVars

(* The Close of a dropped handle keeps the command channels typed. *)
LEMMA DropCloseTyped ==
  ASSUME TypeOK, NEW p \in Peer, NEW id \in Id, DropClose(p, id)
  PROVE  commands' \in [Peer -> Seq(Command)]
<1>1. CASE running[p]
  BY <1>1, TrySendTyped DEF DropClose
<1>. QED  BY <1>1 DEF DropClose, TypeOK

(* What the application does keeps the state typed. *)
LEMMA ApplicationTyped ==
  ASSUME TypeOK, NEW p \in Peer, Application(p) \/ DropUnaccepted(p)
  PROVE  TypeOK'
<1>. USE DEF TypeOK, driveVars, handleVars
<1>1. CASE Open(p)
  BY <1>1, MessagesTyped, ChannelsTyped DEF Open
<1>2. CASE CancelQueuedOpen(p)
  <2>1. PICK k \in 1..Len(commands[p]) :
          commands' = [commands EXCEPT ![p][k].awaited = FALSE]
    BY <1>2 DEF CancelQueuedOpen
  <2>2. commands[p][k] \in Command
    BY <2>1, ElementOfSeq
  <2>3. [commands[p][k] EXCEPT !.awaited = FALSE] \in Command
    BY <2>2 DEF Command
  <2>4. [commands[p] EXCEPT ![k].awaited = FALSE] \in Seq(Command)
    BY <2>1, <2>3, ExceptSeq
  <2>. QED  BY <1>2, <2>1, <2>4 DEF CancelQueuedOpen
<1>3. CASE CancelPendingOpen(p)
  BY <1>3 DEF CancelPendingOpen
<1>4. CASE SendFrame(p)
  BY <1>4, MessagesTyped, ChannelsTyped, SMTT(30) DEF SendFrame
<1>5. CASE CloseTrack(p)
  BY <1>5, MessagesTyped, ChannelsTyped DEF CloseTrack
<1>6. CASE Accept(p)
  <2>1. PICK id \in Id :
          /\ backlog'    = [backlog EXCEPT ![p] = @ \ {id}]
          /\ recvTracks' = [recvTracks EXCEPT ![p] = @ \union {id}]
          /\ UNCHANGED <<driveVars, commands, signals, tcp, session, sendTracks, media>>
    BY <1>6 DEF Accept
  <2>2. backlog' \in [Peer -> SUBSET Id] /\ recvTracks' \in [Peer -> SUBSET Id]
    BY <2>1
  <2>. QED  BY <2>1, <2>2
<1>7. CASE DropSendTrack(p)
  <2>1. PICK id \in Id :
          /\ sendTracks' = [sendTracks EXCEPT ![p] = @ \ {id}]
          /\ DropClose(p, id)
          /\ UNCHANGED <<driveVars, signals, tcp, session, recvTracks, backlog, media>>
    BY <1>7 DEF DropSendTrack
  <2>2. commands' \in [Peer -> Seq(Command)] /\ sendTracks' \in [Peer -> SUBSET Id]
    BY <2>1, DropCloseTyped
  <2>. QED  BY <2>1, <2>2
<1>8. CASE DropRecvTrack(p)
  <2>1. PICK id \in Id :
          /\ recvTracks' = [recvTracks EXCEPT ![p] = @ \ {id}]
          /\ DropClose(p, id)
          /\ UNCHANGED <<driveVars, signals, tcp, session, sendTracks, backlog, media>>
    BY <1>8 DEF DropRecvTrack
  <2>2. commands' \in [Peer -> Seq(Command)] /\ recvTracks' \in [Peer -> SUBSET Id]
    BY <2>1, DropCloseTyped
  <2>. QED  BY <2>1, <2>2
<1>9. CASE DropSession(p)
  BY <1>9 DEF DropSession
<1>10. CASE DropUnaccepted(p)
  BY <1>10, MessagesTyped, ChannelsTyped, SMTT(30) DEF DropUnaccepted, DropClose
<1>. QED
  BY <1>1, <1>2, <1>3, <1>4, <1>5, <1>6, <1>7, <1>8, <1>9, <1>10 DEF Application

(* What drive does with a command keeps the state typed. *)
LEMMA CommandTyped ==
  ASSUME TypeOK, NEW p \in Peer, DriveCommand(p)
  PROVE  TypeOK'
<1> DEFINE id == Head(commands[p]).id
<1>0. commands[p] # <<>> /\ TakeCommand(p)
  BY DEF DriveCommand, HandleOpenExhausted, HandleOpen, HandleClose, HandleFrame, HasCommand
<1>1. commands' \in [Peer -> Seq(Command)] /\ id \in Id
  BY <1>0, TakeCommandTyped
<1> HIDE DEF id
<1>2. CASE HandleOpenExhausted(p)
  BY <1>1, <1>2 DEF HandleOpenExhausted, TypeOK, driveVars, handleVars
<1>3. CASE HandleOpen(p)
  <2> DEFINE new == nextId[p]
             kind == IF Head(commands[p]).awaited THEN "awaited" ELSE "cancelled"
  <2>1. new \in Id /\ kind \in {"awaited", "cancelled"}
    BY <1>3 DEF HandleOpen, Id, TypeOK
  <2>2. /\ nextId' = [nextId EXCEPT ![p] = @ + 2]
        /\ \/ UNCHANGED <<tracks, opening, tcp>>
           \/ /\ SetTrack(p, new, "local")
              /\ Write(p, "Open", new)
              /\ opening' = [opening EXCEPT ![p][new] = kind]
        /\ UNCHANGED <<outgoing, incoming, expired, running, signals, handleVars, media>>
    BY <1>3 DEF HandleOpen
  <2> HIDE DEF new, kind
  <2>3. tcp' \in [Peer -> Seq(Signal)]
    BY <2>1, <2>2, WriteTyped DEF TypeOK
  <2>4. tracks' \in [Peer -> [Id -> {"none", "local", "ready", "remote"}]]
    BY <2>1, <2>2, SetTrackTyped DEF TypeOK
  <2>5. opening' = opening \/ opening' = [opening EXCEPT ![p][new] = kind]
    BY <2>2
  <2>6. opening \in [Peer -> [Id -> {"none", "awaited", "cancelled"}]]
    BY DEF TypeOK
  <2>7. opening' \in [Peer -> [Id -> {"none", "awaited", "cancelled"}]]
    BY <2>1, <2>5, <2>6
  <2>8. nextId' \in [Peer -> 0..(MaxId + 2)]
    <3>1. nextId \in [Peer -> 0..(MaxId + 2)]
      BY DEF TypeOK
    <3>2. nextId[p] + 2 \in 0..(MaxId + 2)
      BY <1>3, <3>1, SizeAssumption DEF HandleOpen
    <3>. QED  BY <2>2, <3>1, <3>2
  <2>9. UNCHANGED <<outgoing, incoming, expired, running, signals, session, sendTracks,
                    recvTracks, backlog, media>>
    BY <2>2 DEF handleVars
  <2>. QED
    BY <1>1, <2>3, <2>4, <2>7, <2>8, <2>9 DEF TypeOK
<1>4. CASE HandleClose(p)
  <2>1. /\ EndOpening(p, id)
        /\ outgoing' = [outgoing EXCEPT ![p] = @ \ {id}]
        /\ incoming' = [incoming EXCEPT ![p] = @ \ {id}]
        /\ SetTrack(p, id, "none")
        /\ UNCHANGED tcp \/ Write(p, "Close", id)
        /\ UNCHANGED <<nextId, expired, running, signals, handleVars, media>>
    BY <1>4 DEF HandleClose, id
  <2>2. /\ tcp' \in [Peer -> Seq(Signal)]
        /\ tracks' \in [Peer -> [Id -> {"none", "local", "ready", "remote"}]]
        /\ opening' \in [Peer -> [Id -> {"none", "awaited", "cancelled"}]]
    BY <1>1, <2>1, WriteTyped, SetTrackTyped, EndOpeningTyped DEF TypeOK
  <2>3. outgoing' \in [Peer -> SUBSET Id] /\ incoming' \in [Peer -> SUBSET Id]
    BY <2>1 DEF TypeOK
  <2>4. UNCHANGED <<nextId, expired, running, signals, session, sendTracks, recvTracks,
                    backlog, media>>
    BY <2>1 DEF handleVars
  <2>. QED
    BY <1>1, <2>2, <2>3, <2>4 DEF TypeOK
<1>5. CASE HandleFrame(p)
  <2>1. /\ media' = media \/ media' = [media EXCEPT ![p] = @ \union {id}]
        /\ UNCHANGED <<driveVars, signals, tcp, handleVars>>
    BY <1>5 DEF HandleFrame, id
  <2>2. media' \in [Peer -> SUBSET Id]
    <3>1. media \in [Peer -> SUBSET Id]
      BY DEF TypeOK
    <3>. QED  BY <1>1, <2>1, <3>1, AddIdTyped
  <2>. QED  BY <1>1, <2>1, <2>2 DEF TypeOK, driveVars, handleVars
<1>. QED  BY <1>2, <1>3, <1>4, <1>5 DEF DriveCommand

(* What drive does with a signal keeps the state typed, whatever it names. *)
LEMMA SignalTyped ==
  ASSUME TypeOK, NEW p \in Peer, DriveSignal(p)
  PROVE  TypeOK'
<1> DEFINE id == Head(signals[p]).id
<1>0. signals[p] # <<>>
  BY DEF DriveSignal, HasSignal, RefuseOpen, AdmitOpen, AdmitOpenOrphan, HandleReady,
         HandleReadyOrphan, IgnoreReady, HandleReject, HandlePeerClose
<1>1. id \in Id
  BY <1>0, ChannelsTyped DEF Signal
<1>2. TakeSignal(p) => signals' \in [Peer -> Seq(Signal)]
  BY <1>0, TakeSignalTyped
<1> HIDE DEF id
<1>3. CASE RefuseOpen(p)
  <2>1. /\ Write(p, "Reject", id) /\ TakeSignal(p)
        /\ UNCHANGED <<driveVars, commands, handleVars, media>>
    BY <1>3 DEF RefuseOpen, id
  <2>. QED  BY <1>1, <1>2, <2>1, WriteTyped DEF TypeOK, driveVars, handleVars
<1>4. CASE AdmitOpen(p)
  <2>1. /\ SetTrack(p, id, "remote") /\ Write(p, "Ready", id) /\ TakeSignal(p)
        /\ incoming' = [incoming EXCEPT ![p] = @ \union {id}]
        /\ \/ /\ backlog' = [backlog EXCEPT ![p] = @ \union {id}]
              /\ UNCHANGED commands
           \/ /\ commands' = [commands EXCEPT ![p] = TrySend(p, CloseCommand(id))]
              /\ UNCHANGED backlog
        /\ UNCHANGED <<nextId, opening, outgoing, expired, running, session, sendTracks,
                       recvTracks, media>>
    BY <1>4 DEF AdmitOpen, id
  <2>2. /\ tcp' \in [Peer -> Seq(Signal)]
        /\ tracks' \in [Peer -> [Id -> {"none", "local", "ready", "remote"}]]
        /\ commands' \in [Peer -> Seq(Command)]
    BY <1>1, <2>1, WriteTyped, SetTrackTyped, TrySendTyped DEF TypeOK
  <2>3. incoming' \in [Peer -> SUBSET Id] /\ backlog' \in [Peer -> SUBSET Id]
    <3>1. incoming \in [Peer -> SUBSET Id] /\ backlog \in [Peer -> SUBSET Id]
      BY DEF TypeOK
    <3>. QED  BY <1>1, <2>1, <3>1, AddIdTyped
  <2>4. /\ signals' \in [Peer -> Seq(Signal)]
        /\ UNCHANGED <<nextId, opening, outgoing, expired, running, session, sendTracks,
                       recvTracks, media>>
    BY <1>2, <2>1
  <2>. QED  BY <2>2, <2>3, <2>4 DEF TypeOK
<1>5. CASE AdmitOpenOrphan(p)
  <2>1. Write(p, "Ready", id) /\ Return(p) /\ UNCHANGED <<handleVars, media>>
    BY <1>5 DEF AdmitOpenOrphan, id
  <2>. QED  BY <1>1, <2>1, WriteTyped, ReturnTyped
<1>6. CASE HandleReady(p)
  <2>1. /\ SetTrack(p, id, "ready") /\ EndOpening(p, id) /\ TakeSignal(p)
        /\ outgoing' = [outgoing EXCEPT ![p] = @ \union {id}]
        /\ \/ /\ sendTracks' = [sendTracks EXCEPT ![p] = @ \union {id}]
              /\ UNCHANGED commands
           \/ /\ commands' = [commands EXCEPT ![p] = TrySend(p, CloseCommand(id))]
              /\ UNCHANGED sendTracks
        /\ UNCHANGED <<nextId, incoming, expired, running, tcp, session,
                       recvTracks, backlog, media>>
    BY <1>6 DEF HandleReady, id
  <2>2. /\ opening' \in [Peer -> [Id -> {"none", "awaited", "cancelled"}]]
        /\ tracks' \in [Peer -> [Id -> {"none", "local", "ready", "remote"}]]
        /\ commands' \in [Peer -> Seq(Command)]
    BY <1>1, <2>1, EndOpeningTyped, SetTrackTyped, TrySendTyped DEF TypeOK
  <2>3. outgoing' \in [Peer -> SUBSET Id] /\ sendTracks' \in [Peer -> SUBSET Id]
    <3>1. outgoing \in [Peer -> SUBSET Id] /\ sendTracks \in [Peer -> SUBSET Id]
      BY DEF TypeOK
    <3>. QED  BY <1>1, <2>1, <3>1, AddIdTyped
  <2>4. /\ signals' \in [Peer -> Seq(Signal)]
        /\ UNCHANGED <<nextId, incoming, expired, running, tcp, session,
                       recvTracks, backlog, media>>
    BY <1>2, <2>1
  <2>. QED  BY <2>2, <2>3, <2>4 DEF TypeOK
<1>7. CASE HandleReadyOrphan(p)
  BY <1>7, ReturnTyped DEF HandleReadyOrphan, TypeOK
<1>8. CASE IgnoreReady(p)
  <2>1. /\ SetTrack(p, id, "ready") \/ UNCHANGED tracks
        /\ TakeSignal(p)
        /\ UNCHANGED <<nextId, opening, outgoing, incoming, expired, running, commands, tcp,
                       handleVars, media>>
    BY <1>8 DEF IgnoreReady, id
  <2>2. tracks' \in [Peer -> [Id -> {"none", "local", "ready", "remote"}]]
    BY <1>1, <2>1, SetTrackTyped DEF TypeOK
  <2>. QED  BY <1>2, <2>1, <2>2 DEF TypeOK, handleVars
<1>9. CASE HandleReject(p)
  <2>1. /\ \/ EndOpening(p, id) /\ SetTrack(p, id, "none")
           \/ UNCHANGED <<opening, tracks>>
        /\ TakeSignal(p)
        /\ UNCHANGED <<nextId, outgoing, incoming, expired, running, commands, tcp,
                       handleVars, media>>
    BY <1>9 DEF HandleReject, id
  <2>2. /\ opening' \in [Peer -> [Id -> {"none", "awaited", "cancelled"}]]
        /\ tracks' \in [Peer -> [Id -> {"none", "local", "ready", "remote"}]]
    BY <1>1, <2>1, SetTrackTyped, EndOpeningTyped DEF TypeOK
  <2>. QED  BY <1>2, <2>1, <2>2 DEF TypeOK, handleVars
<1>10. CASE HandlePeerClose(p)
  <2>1. /\ EndOpening(p, id) /\ SetTrack(p, id, "none") /\ TakeSignal(p)
        /\ \E gone \in {{}, {id}} :
             /\ outgoing' = [outgoing EXCEPT ![p] = @ \ gone]
             /\ incoming' = [incoming EXCEPT ![p] = @ \ gone]
        /\ UNCHANGED <<nextId, expired, running, commands, tcp, handleVars, media>>
    BY <1>10 DEF HandlePeerClose, id
  <2>2. /\ opening' \in [Peer -> [Id -> {"none", "awaited", "cancelled"}]]
        /\ tracks' \in [Peer -> [Id -> {"none", "local", "ready", "remote"}]]
    BY <1>1, <2>1, SetTrackTyped, EndOpeningTyped
  <2>3. outgoing' \in [Peer -> SUBSET Id] /\ incoming' \in [Peer -> SUBSET Id]
    BY <2>1 DEF TypeOK
  <2>4. /\ signals' \in [Peer -> Seq(Signal)]
        /\ UNCHANGED <<nextId, expired, running, commands, tcp, session, sendTracks,
                       recvTracks, backlog, media>>
    BY <1>2, <2>1 DEF handleVars
  <2>. QED  BY <2>2, <2>3, <2>4 DEF TypeOK
<1>. QED
  BY <1>3, <1>4, <1>5, <1>6, <1>7, <1>8, <1>9, <1>10 DEF DriveSignal

(* What the timer arm has collected are ids. *)
LEMMA ExpiredTyped ==
  ASSUME TypeOK, NEW p \in Peer
  PROVE  expired[p] \subseteq Id
  BY DEF TypeOK

(* Every step of a session keeps its state typed. *)
LEMMA StepTyped ==
  ASSUME TypeOK, NEW p \in Peer, Step(p)
  PROVE  TypeOK'
<1>1. CASE ExpireOpen(p)
  BY <1>1, MessagesTyped, ChannelsTyped, SMTT(30)
     DEF TypeOK, driveVars, handleVars, ExpireOpen, SetTrack, EndOpening, Write
<1>2. CASE SendersGone(p)
  BY <1>2, ReturnTyped DEF SendersGone, TypeOK
<1>3. CASE Fail(p)
  BY <1>3, ReturnTyped DEF Fail, TypeOK
<1>4. CASE CollectExpired(p)
  BY <1>4 DEF TypeOK, handleVars, CollectExpired
<1>. QED
  BY <1>1, <1>2, <1>3, <1>4, ApplicationTyped, CommandTyped, SignalTyped DEF Step

(* A fresh session is typed. *)
LEMMA InitTyped == Init => TypeOK
<1>1. <<>> \in Seq(Command) /\ <<>> \in Seq(Signal)
  BY EmptySeq
<1>. QED  BY <1>1, PeerAssumption, SizeAssumption DEF Init, TypeOK, Id

---------------------------------------------------------------------------
(* What the pieces do to the entry they name, and to every other entry. *)
LEMMA SetTrackAt ==
  ASSUME TypeOK, NEW p \in Peer, NEW id \in Id, NEW state, SetTrack(p, id, state)
  PROVE  /\ tracks'[p][id] = state
         /\ \A q \in Peer, i \in Id :
              q # p \/ i # id => tracks'[q][i] = tracks[q][i]
  BY DEF TypeOK, SetTrack

(* opening after a pending open has ended, entry by entry. *)
LEMMA EndOpeningAt ==
  ASSUME TypeOK, NEW p \in Peer, NEW id \in Id, EndOpening(p, id)
  PROVE  /\ opening'[p][id] = "none"
         /\ \A q \in Peer, i \in Id :
              q # p \/ i # id => opening'[q][i] = opening[q][i]
  BY DEF TypeOK, EndOpening

(* A set of ids per peer after one id was added or removed, entry by entry. *)
LEMMA IdSetsAt ==
  ASSUME NEW ids \in [Peer -> SUBSET Id], NEW p \in Peer, NEW id \in Id
  PROVE  /\ id \in [ids EXCEPT ![p] = @ \union {id}][p]
         /\ id \notin [ids EXCEPT ![p] = @ \ {id}][p]
         /\ \A q \in Peer, i \in Id : q # p \/ i # id =>
              /\ i \in [ids EXCEPT ![p] = @ \union {id}][q] <=> i \in ids[q]
              /\ i \in [ids EXCEPT ![p] = @ \ {id}][q] <=> i \in ids[q]
  OBVIOUS

(* It is enough to look at the one track a step is about. *)
LEMMA AgreeAt ==
  ASSUME RoutesMatchEngine, NEW p \in Peer, NEW id \in Id, Agree(p, id)',
         \A q \in Peer, i \in Id : q # p \/ i # id =>
           /\ tracks'[q][i] = tracks[q][i]
           /\ opening'[q][i] = opening[q][i]
           /\ i \in outgoing'[q] <=> i \in outgoing[q]
           /\ i \in incoming'[q] <=> i \in incoming[q]
  PROVE  RoutesMatchEngine'
<1> SUFFICES ASSUME NEW q \in Peer, NEW i \in Id, q # p \/ i # id
             PROVE  Agree(q, i)'
  BY DEF RoutesMatchEngine
<1>1. Agree(q, i)
  BY DEF RoutesMatchEngine
<1>. QED  BY <1>1 DEF Agree

(* A step that leaves the four records alone leaves them in agreement. *)
LEMMA RoutesUntouched ==
  ASSUME RoutesMatchEngine, UNCHANGED <<tracks, opening, outgoing, incoming>>
  PROVE  RoutesMatchEngine'
  BY DEF RoutesMatchEngine, Agree

(* drive forgets everything at once. *)
LEMMA ReturnRoutes ==
  ASSUME TypeOK, RoutesMatchEngine, NEW p \in Peer, Return(p)
  PROVE  RoutesMatchEngine'
<1> SUFFICES ASSUME NEW q \in Peer, NEW i \in Id
             PROVE  Agree(q, i)'
  BY DEF RoutesMatchEngine
<1>1. Agree(q, i)
  BY DEF RoutesMatchEngine
<1>2. CASE q = p
  <2>1. /\ tracks'[p][i] = "none" /\ opening'[p][i] = "none"
        /\ outgoing'[p] = {} /\ incoming'[p] = {}
    BY DEF TypeOK, Return
  <2>. QED  BY <1>2, <2>1 DEF Agree
<1>3. CASE q # p
  <2>1. /\ tracks'[q] = tracks[q] /\ opening'[q] = opening[q]
        /\ outgoing'[q] = outgoing[q] /\ incoming'[q] = incoming[q]
    BY <1>3 DEF TypeOK, Return
  <2>. QED  BY <1>1, <2>1 DEF Agree
<1>. QED  BY <1>2, <1>3

(* The application changes only whether a pending open is still awaited. *)
LEMMA ApplicationRoutes ==
  ASSUME TypeOK, RoutesMatchEngine, NEW p \in Peer,
         Application(p) \/ DropUnaccepted(p)
  PROVE  RoutesMatchEngine'
<1>1. CASE CancelPendingOpen(p)
  <2>1. PICK id \in Id :
          /\ opening[p][id] = "awaited"
          /\ opening' = [opening EXCEPT ![p][id] = "cancelled"]
          /\ UNCHANGED <<tracks, outgoing, incoming>>
    BY <1>1 DEF CancelPendingOpen
  <2>2. /\ opening'[p][id] = "cancelled"
        /\ \A q \in Peer, i \in Id :
             q # p \/ i # id => opening'[q][i] = opening[q][i]
    BY <2>1 DEF TypeOK
  <2>3. Agree(p, id)'
    BY <2>1, <2>2 DEF RoutesMatchEngine, Agree
  <2>. QED  BY <2>1, <2>2, <2>3, AgreeAt
<1>2. CASE ~CancelPendingOpen(p)
  <2>1. UNCHANGED driveVars
    BY <1>2 DEF Application, Open, CancelQueuedOpen, SendFrame, CloseTrack, Accept,
               DropSendTrack, DropRecvTrack, DropSession, DropUnaccepted
  <2>. QED  BY <2>1, RoutesUntouched DEF driveVars
<1>. QED  BY <1>1, <1>2

(* drive keeps the four records in agreement when it handles a command. *)
LEMMA CommandRoutes ==
  ASSUME TypeOK, RoutesMatchEngine, NextIdLocal, NEW p \in Peer, DriveCommand(p)
  PROVE  RoutesMatchEngine'
<1>1. CASE HandleOpenExhausted(p) \/ HandleFrame(p)
  BY <1>1, RoutesUntouched DEF HandleOpenExhausted, HandleFrame, driveVars
<1>2. CASE HandleOpen(p)
  <2>0. nextId[p] \in Id
    BY <1>2 DEF HandleOpen, Id, TypeOK
  <2>1. PICK id \in Id, kind \in {"awaited", "cancelled"} :
          /\ id = nextId[p] /\ Local(p, id)
          /\ kind = IF Head(commands[p]).awaited THEN "awaited" ELSE "cancelled"
    BY <2>0 DEF NextIdLocal
  <2>2. /\ \/ UNCHANGED <<tracks, opening>>
           \/ /\ tracks[p][id] = "none"
              /\ SetTrack(p, id, "local")
              /\ opening' = [opening EXCEPT ![p][id] = kind]
        /\ UNCHANGED <<outgoing, incoming>>
    BY <1>2, <2>1 DEF HandleOpen
  <2>3. CASE UNCHANGED <<tracks, opening>>
    BY <2>2, <2>3, RoutesUntouched
  <2>4. CASE /\ tracks[p][id] = "none"
             /\ SetTrack(p, id, "local")
             /\ opening' = [opening EXCEPT ![p][id] = kind]
    <3>1. /\ opening'[p][id] = kind
          /\ \A q \in Peer, i \in Id :
               q # p \/ i # id => opening'[q][i] = opening[q][i]
      BY <2>1, <2>4 DEF TypeOK
    <3>2. /\ tracks'[p][id] = "local"
          /\ \A q \in Peer, i \in Id :
               q # p \/ i # id => tracks'[q][i] = tracks[q][i]
      BY <2>1, <2>4, SetTrackAt
    <3>3. Agree(p, id)'
      BY <2>1, <2>2, <2>4, <3>1, <3>2 DEF RoutesMatchEngine, Agree
    <3>. QED  BY <2>1, <2>2, <3>1, <3>2, <3>3, AgreeAt
  <2>. QED  BY <2>2, <2>3, <2>4
<1>3. CASE HandleClose(p)
  <2>1. PICK id \in Id : id = Head(commands[p]).id
    BY <1>3, ChannelsTyped DEF HandleClose, HasCommand, Command
  <2>2. /\ EndOpening(p, id) /\ SetTrack(p, id, "none")
        /\ outgoing' = [outgoing EXCEPT ![p] = @ \ {id}]
        /\ incoming' = [incoming EXCEPT ![p] = @ \ {id}]
    BY <1>3, <2>1 DEF HandleClose
  <2>3. outgoing \in [Peer -> SUBSET Id] /\ incoming \in [Peer -> SUBSET Id]
    BY DEF TypeOK
  <2>4. /\ id \notin outgoing'[p] /\ id \notin incoming'[p]
        /\ \A q \in Peer, i \in Id : q # p \/ i # id =>
             /\ i \in outgoing'[q] <=> i \in outgoing[q]
             /\ i \in incoming'[q] <=> i \in incoming[q]
    BY <2>1, <2>2, <2>3, IdSetsAt
  <2>5. Agree(p, id)'
    BY <2>1, <2>2, <2>4, SetTrackAt, EndOpeningAt DEF Agree
  <2>. QED  BY <2>1, <2>2, <2>4, <2>5, SetTrackAt, EndOpeningAt, AgreeAt
<1>. QED  BY <1>1, <1>2, <1>3 DEF DriveCommand

(* drive keeps the four records in agreement when it handles a signal, also *)
(* when the signal is one no conforming peer would send.                    *)
LEMMA SignalRoutes ==
  ASSUME TypeOK, RoutesMatchEngine, NEW p \in Peer, DriveSignal(p)
  PROVE  RoutesMatchEngine'
<1>0. signals[p] # <<>>
  BY DEF DriveSignal, HasSignal, RefuseOpen, AdmitOpen, AdmitOpenOrphan, HandleReady,
         HandleReadyOrphan, IgnoreReady, HandleReject, HandlePeerClose
<1>1. PICK id \in Id : id = Head(signals[p]).id
  BY <1>0, ChannelsTyped DEF Signal
<1>2. Agree(p, id)
  BY DEF RoutesMatchEngine
<1>3. outgoing \in [Peer -> SUBSET Id] /\ incoming \in [Peer -> SUBSET Id]
  BY DEF TypeOK
<1>4. CASE RefuseOpen(p)
  BY <1>4, RoutesUntouched DEF RefuseOpen, driveVars
<1>5. CASE AdmitOpen(p)
  <2>1. /\ ~Local(p, id) /\ tracks[p][id] = "none"
        /\ SetTrack(p, id, "remote")
        /\ incoming' = [incoming EXCEPT ![p] = @ \union {id}]
        /\ UNCHANGED <<opening, outgoing>>
    BY <1>1, <1>5 DEF AdmitOpen
  <2>2. /\ id \in incoming'[p]
        /\ \A q \in Peer, i \in Id :
             q # p \/ i # id => (i \in incoming'[q] <=> i \in incoming[q])
    BY <1>3, <2>1, IdSetsAt
  <2>3. Agree(p, id)'
    BY <1>2, <2>1, <2>2, SetTrackAt DEF Agree
  <2>. QED  BY <2>1, <2>2, <2>3, SetTrackAt, AgreeAt
<1>6. CASE AdmitOpenOrphan(p) \/ HandleReadyOrphan(p)
  BY <1>6, ReturnRoutes DEF AdmitOpenOrphan, HandleReadyOrphan
<1>7. CASE HandleReady(p)
  <2>1. /\ Local(p, id) /\ opening[p][id] # "none"
        /\ SetTrack(p, id, "ready") /\ EndOpening(p, id)
        /\ outgoing' = [outgoing EXCEPT ![p] = @ \union {id}]
        /\ UNCHANGED incoming
    BY <1>1, <1>7 DEF HandleReady
  <2>2. /\ id \in outgoing'[p]
        /\ \A q \in Peer, i \in Id :
             q # p \/ i # id => (i \in outgoing'[q] <=> i \in outgoing[q])
    BY <1>3, <2>1, IdSetsAt
  <2>3. Agree(p, id)'
    BY <1>2, <2>1, <2>2, SetTrackAt, EndOpeningAt DEF Agree
  <2>. QED  BY <2>1, <2>2, <2>3, SetTrackAt, EndOpeningAt, AgreeAt
<1>8. CASE IgnoreReady(p)
  (* A local track with its gate shut is pending, so the gate stays shut.   *)
  <2>1. /\ ~(/\ Local(p, id) /\ tracks[p][id] \in {"local", "ready"}
             /\ opening[p][id] # "none")
        /\ (Local(p, id) /\ tracks[p][id] = "local") \/ UNCHANGED tracks
        /\ UNCHANGED <<opening, outgoing, incoming>>
    BY <1>1, <1>8 DEF IgnoreReady
  <2>2. UNCHANGED tracks
    BY <1>2, <2>1 DEF Agree
  <2>. QED  BY <2>1, <2>2, RoutesUntouched
<1>9. CASE HandleReject(p)
  <2>1. /\ \/ opening[p][id] # "none" /\ EndOpening(p, id) /\ SetTrack(p, id, "none")
           \/ UNCHANGED <<opening, tracks>>
        /\ UNCHANGED <<outgoing, incoming>>
    BY <1>1, <1>9 DEF HandleReject
  <2>2. CASE UNCHANGED <<opening, tracks>>
    BY <2>1, <2>2, RoutesUntouched
  <2>3. CASE opening[p][id] # "none" /\ EndOpening(p, id) /\ SetTrack(p, id, "none")
    <3>1. Agree(p, id)'
      BY <1>2, <2>1, <2>3, SetTrackAt, EndOpeningAt DEF Agree
    <3>. QED  BY <2>1, <2>3, <3>1, SetTrackAt, EndOpeningAt, AgreeAt
  <2>. QED  BY <2>1, <2>2, <2>3
<1>10. CASE HandlePeerClose(p)
  <2>1. /\ EndOpening(p, id) /\ SetTrack(p, id, "none")
        /\ LET gone == IF opening[p][id] = "none" /\ tracks[p][id] # "none"
                       THEN {id} ELSE {} IN
             /\ outgoing' = [outgoing EXCEPT ![p] = @ \ gone]
             /\ incoming' = [incoming EXCEPT ![p] = @ \ gone]
    BY <1>1, <1>10 DEF HandlePeerClose
  (* Where the routes are left alone there is none.                         *)
  <2>2. /\ id \notin outgoing'[p] /\ id \notin incoming'[p]
        /\ \A q \in Peer, i \in Id : q # p \/ i # id =>
             /\ i \in outgoing'[q] <=> i \in outgoing[q]
             /\ i \in incoming'[q] <=> i \in incoming[q]
    <3>1. CASE opening[p][id] = "none" /\ tracks[p][id] # "none"
      <4>1. /\ outgoing' = [outgoing EXCEPT ![p] = @ \ {id}]
            /\ incoming' = [incoming EXCEPT ![p] = @ \ {id}]
        BY <2>1, <3>1
      <4>. QED  BY <1>3, <4>1, IdSetsAt
    <3>2. CASE ~(opening[p][id] = "none" /\ tracks[p][id] # "none")
      <4>1. outgoing' = outgoing /\ incoming' = incoming
        BY <1>3, <2>1, <3>2
      <4>. QED  BY <1>2, <3>2, <4>1 DEF Agree
    <3>. QED  BY <3>1, <3>2
  <2>3. Agree(p, id)'
    BY <2>1, <2>2, SetTrackAt, EndOpeningAt DEF Agree
  <2>. QED  BY <2>1, <2>2, <2>3, SetTrackAt, EndOpeningAt, AgreeAt
<1>. QED
  BY <1>4, <1>5, <1>6, <1>7, <1>8, <1>9, <1>10 DEF DriveSignal

(* Every step of a session keeps the routes and the engine in agreement. *)
LEMMA StepRoutes ==
  ASSUME TypeOK, RoutesMatchEngine, NextIdLocal, NEW p \in Peer, Step(p)
  PROVE  RoutesMatchEngine'
<1>1. CASE ExpireOpen(p)
  <2>1. PICK id \in Id :
          /\ opening[p][id] # "none"
          /\ EndOpening(p, id) /\ SetTrack(p, id, "none")
          /\ UNCHANGED <<outgoing, incoming>>
    BY <1>1, ExpiredTyped DEF ExpireOpen
  <2>2. Agree(p, id)
    BY DEF RoutesMatchEngine
  <2>3. Agree(p, id)'
    BY <2>1, <2>2, SetTrackAt, EndOpeningAt DEF Agree
  <2>. QED  BY <2>1, <2>3, SetTrackAt, EndOpeningAt, AgreeAt
<1>2. CASE SendersGone(p) \/ Fail(p)
  BY <1>2, ReturnRoutes DEF SendersGone, Fail
<1>3. CASE CollectExpired(p)
  BY <1>3 DEF CollectExpired, RoutesMatchEngine, Agree
<1>. QED
  BY <1>1, <1>2, <1>3, ApplicationRoutes, CommandRoutes, SignalRoutes DEF Step

(* The allocator steps by two, and nothing else touches it. *)
LEMMA StepNextId ==
  ASSUME TypeOK, NEW p \in Peer, Step(p)
  PROVE  \/ UNCHANGED nextId
         \/ HandleOpen(p) /\ nextId' = [nextId EXCEPT ![p] = @ + 2]
  BY DEF Step, Application, Open, CancelQueuedOpen, CancelPendingOpen, SendFrame,
         CloseTrack, Accept, DropSendTrack, DropRecvTrack, DropSession, DropUnaccepted,
         DriveCommand, HandleOpenExhausted, HandleOpen, HandleClose, HandleFrame,
         DriveSignal, RefuseOpen, AdmitOpen, AdmitOpenOrphan, HandleReady,
         HandleReadyOrphan, IgnoreReady, HandleReject, HandlePeerClose, CollectExpired, ExpireOpen,
         SendersGone, Fail, Return, driveVars

(* The allocator keeps to the parity of its peer. *)
LEMMA StepNextIdLocal ==
  ASSUME TypeOK, NextIdLocal, NEW p \in Peer, Step(p)
  PROVE  NextIdLocal'
<1>1. CASE UNCHANGED nextId
  BY <1>1 DEF NextIdLocal
<1>2. CASE nextId' = [nextId EXCEPT ![p] = @ + 2]
  <2> SUFFICES ASSUME NEW q \in Peer
               PROVE  Local(q, nextId'[q])
    BY DEF NextIdLocal, Local
  <2>1. nextId[q] \in Nat /\ Local(q, nextId[q])
    BY DEF TypeOK, NextIdLocal
  <2>2. nextId'[q] = nextId[q] \/ nextId'[q] = nextId[q] + 2
    BY <1>2 DEF TypeOK
  <2>. QED  BY <2>1, <2>2 DEF Local
<1>. QED  BY <1>1, <1>2, StepNextId

(* Every step of one session preserves the invariant. *)
LEMMA StepInv ==
  ASSUME SessionInv, NEW p \in Peer, Step(p)
  PROVE  SessionInv'
  BY StepTyped, StepRoutes, StepNextIdLocal DEF SessionInv

(* The invariant holds of fresh sessions. *)
LEMMA InitInv == Init => SessionInv
<1> SUFFICES ASSUME Init PROVE SessionInv
  OBVIOUS
<1>1. TypeOK
  BY InitTyped
<1>2. RoutesMatchEngine
  BY DEF Init, RoutesMatchEngine, Agree
<1>3. NextIdLocal
  BY PeerAssumption DEF Init, NextIdLocal, Local
<1>. QED  BY <1>1, <1>2, <1>3 DEF SessionInv

(* All that a step can do to the engine's track table. *)
LEMMA StepTracks ==
  ASSUME TypeOK, NEW p \in Peer, Step(p)
  PROVE  \/ UNCHANGED tracks
         \/ tracks' = [tracks EXCEPT ![p] = [id \in Id |-> "none"]]
         \/ nextId[p] \in Id /\ SetTrack(p, nextId[p], "local")
         \/ \E id \in Id :
              \/ SetTrack(p, id, "none")
              \/ ~Local(p, id) /\ SetTrack(p, id, "remote")
              \/ tracks[p][id] # "none" /\ SetTrack(p, id, "ready")
<1>1. CASE Application(p) \/ DropUnaccepted(p)
  BY <1>1 DEF Application, Open, CancelQueuedOpen, CancelPendingOpen, SendFrame,
     CloseTrack, Accept, DropSendTrack, DropRecvTrack, DropSession, DropUnaccepted, driveVars
<1>2. CASE DriveCommand(p)
  <2>1. Head(commands[p]).id \in Id
    BY <1>2, ChannelsTyped DEF DriveCommand, HandleOpenExhausted, HandleOpen, HandleClose,
       HandleFrame, HasCommand, Command
  <2>2. CASE HandleOpen(p)
    BY <2>2 DEF HandleOpen, Id, TypeOK
  <2>. QED
    BY <1>2, <2>1, <2>2 DEF DriveCommand, HandleOpenExhausted, HandleClose, HandleFrame, driveVars
<1>3. CASE DriveSignal(p)
  <2>1. Head(signals[p]).id \in Id
    BY <1>3, ChannelsTyped DEF DriveSignal, HasSignal, RefuseOpen, AdmitOpen,
       AdmitOpenOrphan, HandleReady, HandleReadyOrphan, IgnoreReady, HandleReject,
       HandlePeerClose, Signal
  <2>2. CASE AdmitOpen(p)
    BY <2>1, <2>2 DEF AdmitOpen
  <2>3. CASE HandleReady(p) \/ IgnoreReady(p)
    BY <2>1, <2>3 DEF HandleReady, IgnoreReady
  <2>4. CASE HandleReject(p) \/ HandlePeerClose(p)
    BY <2>1, <2>4 DEF HandleReject, HandlePeerClose
  <2>. QED
    BY <1>3, <2>2, <2>3, <2>4
       DEF DriveSignal, RefuseOpen, AdmitOpenOrphan, HandleReadyOrphan, Return, driveVars
<1>4. CASE CollectExpired(p) \/ ExpireOpen(p) \/ SendersGone(p) \/ Fail(p)
  BY <1>4, ExpiredTyped DEF CollectExpired, ExpireOpen, SendersGone, Fail, Return
<1>. QED  BY <1>1, <1>2, <1>3, <1>4 DEF Step

(* No step brings back a local id that was used and given up. *)
LEMMA StepKeepsRetired ==
  ASSUME TypeOK, NEW p \in Peer, Step(p)
  PROVE  IdsStayRetired
<1> SUFFICES ASSUME NEW q \in Peer, NEW i \in Id,
                    Local(q, i), i < nextId[q], tracks[q][i] = "none"
             PROVE  tracks'[q][i] = "none"
  BY DEF IdsStayRetired
<1>1. CASE UNCHANGED tracks
  BY <1>1
<1>2. CASE tracks' = [tracks EXCEPT ![p] = [id \in Id |-> "none"]]
  BY <1>2 DEF TypeOK
<1>3. CASE nextId[p] \in Id /\ SetTrack(p, nextId[p], "local")
  <2>1. q # p \/ i # nextId[p]
    BY <1>3 DEF Id
  <2>. QED  BY <1>3, <2>1, SetTrackAt
<1>4. ASSUME NEW id \in Id,
             \/ SetTrack(p, id, "none")
             \/ ~Local(p, id) /\ SetTrack(p, id, "remote")
             \/ tracks[p][id] # "none" /\ SetTrack(p, id, "ready")
      PROVE  tracks'[q][i] = "none"
  BY <1>4, SetTrackAt
<1>. QED  BY <1>1, <1>2, <1>3, <1>4, StepTracks

---------------------------------------------------------------------------
(* Steps of the connection: drive returns, or only the signal channels move. *)
LEMMA ReturnInv ==
  ASSUME SessionInv, NEW p \in Peer, Return(p), UNCHANGED <<tcp, handleVars, media>>
  PROVE  SessionInv' /\ IdsStayRetired
<1>1. TypeOK /\ RoutesMatchEngine /\ NextIdLocal
  BY DEF SessionInv
<1>2. TypeOK'
  BY <1>1, ReturnTyped DEF TypeOK
<1>3. IdsStayRetired /\ NextIdLocal'
  BY <1>1 DEF TypeOK, IdsStayRetired, NextIdLocal, Return
<1>. QED  BY <1>1, <1>2, <1>3, ReturnRoutes DEF SessionInv

(* Signals that only move along the connection preserve the invariant. *)
LEMMA ChannelInv ==
  ASSUME SessionInv, UNCHANGED <<driveVars, commands, handleVars, media>>,
         signals' \in [Peer -> Seq(Signal)], tcp' \in [Peer -> Seq(Signal)]
  PROVE  SessionInv' /\ IdsStayRetired
<1>1. TypeOK /\ RoutesMatchEngine /\ NextIdLocal
  BY DEF SessionInv
<1>2. TypeOK'
  BY <1>1 DEF TypeOK, driveVars, handleVars
<1>3. IdsStayRetired /\ NextIdLocal'
  BY <1>1 DEF IdsStayRetired, NextIdLocal, driveVars
<1>. QED  BY <1>1, <1>2, <1>3, RoutesUntouched DEF SessionInv, driveVars

==============================================================================
