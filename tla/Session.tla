------------------------------ MODULE Session ------------------------------
(***************************************************************************)
(* The session task of src/lib.rs: the drive loop that owns one engine and *)
(* one signal connection, and the application handles that feed it.        *)
(*                                                                         *)
(* A peer is named by the parity of the stream ids it allocates: 0 is the  *)
(* dialing side, 1 the listening side.  What a peer writes on its TCP      *)
(* connection is appended to tcp[p]; what its reader task has forwarded to *)
(* drive waits in signals[p].  This module says what one peer does with a  *)
(* command, a signal or a deadline.  SessionPair connects two of them,     *)
(* SessionAnyPeer lets one of them meet arbitrary signals.                 *)
(***************************************************************************)
EXTENDS Integers, Sequences, FiniteSets

CONSTANTS
  Peer,         \* the peers that run this code, a subset of {0, 1}
  Opener,       \* the peers whose application opens send tracks
  MaxId,        \* the largest stream id, 255 in the code
  CommandCap,   \* capacity of the command channel, 32 in the code
  SignalCap,    \* capacity of the channel from the reader task, 32 in the code
  SendBuffer    \* signals the socket takes before write_all suspends drive

ASSUME PeerAssumption == Peer \subseteq {0, 1} /\ Opener \subseteq Peer
ASSUME SizeAssumption ==
  MaxId \in Nat /\ {CommandCap, SignalCap, SendBuffer} \subseteq Nat \ {0}

Id == 0..MaxId

Local(p, id) == id % 2 = p

Signal  == [type : {"Open", "Ready", "Reject", "Close"}, id : Id]
Command == [op : {"Open", "Close", "Frame"}, id : Id, awaited : BOOLEAN]

VARIABLES
  nextId,       \* drive's next_id
  tracks,       \* Engine::tracks: none, local (not send_ready), ready, remote
  opening,      \* PendingOpen per id, and whether its caller still waits
  expired,      \* opens the timer arm has collected and not ended yet
  outgoing,     \* ids with an encoder control route
  incoming,     \* ids with a FrameInbox route
  commands,     \* the bounded command channel
  signals,      \* the bounded channel from the reader task
  tcp,          \* bytes written by this peer that the other has not read
  running,      \* the session task has not returned
  session,      \* the application holds the Session value
  sendTracks,   \* SendTrack values the application holds
  recvTracks,   \* RecvTrack values the application holds
  backlog,      \* RecvTrack values waiting for Session::accept
  media         \* ids of the tracks this peer has put media packets out for

driveVars  == <<nextId, tracks, opening, expired, outgoing, incoming, running>>
handleVars == <<session, sendTracks, recvTracks, backlog>>
vars == <<driveVars, commands, signals, tcp, handleVars, media>>

---------------------------------------------------------------------------
(* Helpers *)

Sig(type, id) == [type |-> type, id |-> id]
OpenCommand  == [op |-> "Open", id |-> 0, awaited |-> TRUE]
CloseCommand(id) == [op |-> "Close", id |-> id, awaited |-> TRUE]
FrameCommand(id) == [op |-> "Frame", id |-> id, awaited |-> TRUE]

Write(p, type, id) == tcp' = [tcp EXCEPT ![p] = Append(@, Sig(type, id))]

(* The weak sender can be upgraded: some strong command sender is alive. *)
HasSender(p) ==
  session[p] \/ sendTracks[p] # {} \/ recvTracks[p] # {} \/ backlog[p] # {}

(* What Drop does: the command is lost when the channel is full. *)
TrySend(p, c) ==
  IF Len(commands[p]) < CommandCap THEN Append(commands[p], c) ELSE commands[p]

(* drive is at its select!: not suspended in a write that the peer does not *)
(* read, and not in the loop of its timer arm.                              *)
Selecting(p) == running[p] /\ Len(tcp[p]) < SendBuffer /\ expired[p] = {}

(* Command at the head of the channel / signal at the head of the channel. *)
HasCommand(p, op) ==
  Selecting(p) /\ commands[p] # <<>> /\ Head(commands[p]).op = op
HasSignal(p, type) ==
  Selecting(p) /\ signals[p] # <<>> /\ Head(signals[p]).type = type

TakeCommand(p) == commands' = [commands EXCEPT ![p] = Tail(@)]
TakeSignal(p)  == signals' = [signals EXCEPT ![p] = Tail(@)]

SetTrack(p, id, state) == tracks' = [tracks EXCEPT ![p][id] = state]
EndOpening(p, id)      == opening' = [opening EXCEPT ![p][id] = "none"]

(* drive returns: the engine, the maps and both receivers are dropped.      *)
(* Dropping Inbound closes every inbox, dropping outgoing ends control().   *)
Return(p) ==
  /\ running'  = [running EXCEPT ![p] = FALSE]
  /\ tracks'   = [tracks EXCEPT ![p] = [id \in Id |-> "none"]]
  /\ opening'  = [opening EXCEPT ![p] = [id \in Id |-> "none"]]
  /\ expired'  = [expired EXCEPT ![p] = {}]
  /\ outgoing' = [outgoing EXCEPT ![p] = {}]
  /\ incoming' = [incoming EXCEPT ![p] = {}]
  /\ commands' = [commands EXCEPT ![p] = <<>>]
  /\ signals'  = [signals EXCEPT ![p] = <<>>]
  /\ UNCHANGED nextId

---------------------------------------------------------------------------
(* The application *)

(* Session::open reaches the command channel. *)
Open(p) ==
  /\ p \in Opener /\ running[p] /\ session[p]
  /\ Len(commands[p]) < CommandCap
  /\ commands' = [commands EXCEPT ![p] = Append(@, OpenCommand)]
  /\ UNCHANGED <<driveVars, signals, tcp, handleVars, media>>

(* The future of an open is dropped while its command is still queued ... *)
CancelQueuedOpen(p) ==
  \E k \in 1..Len(commands[p]) :
    /\ commands[p][k].op = "Open" /\ commands[p][k].awaited
    /\ commands' = [commands EXCEPT ![p][k].awaited = FALSE]
    /\ UNCHANGED <<driveVars, signals, tcp, handleVars, media>>

(* ... or while it is announced and waits for Ready. *)
CancelPendingOpen(p) ==
  \E id \in Id :
    /\ opening[p][id] = "awaited"
    /\ opening' = [opening EXCEPT ![p][id] = "cancelled"]
    /\ UNCHANGED <<nextId, tracks, outgoing, incoming, expired, running, commands,
                   signals, tcp, handleVars, media>>

(* SendTrack::send *)
SendFrame(p) ==
  \E id \in sendTracks[p] :
    /\ running[p] /\ Len(commands[p]) < CommandCap
    /\ commands' = [commands EXCEPT ![p] = Append(@, FrameCommand(id))]
    /\ UNCHANGED <<driveVars, signals, tcp, handleVars, media>>

(* SendTrack::close and RecvTrack::close: the handle survives the call. *)
CloseTrack(p) ==
  \E id \in sendTracks[p] \union recvTracks[p] :
    /\ running[p] /\ Len(commands[p]) < CommandCap
    /\ commands' = [commands EXCEPT ![p] = Append(@, CloseCommand(id))]
    /\ UNCHANGED <<driveVars, signals, tcp, handleVars, media>>

(* Session::accept *)
Accept(p) ==
  \E id \in backlog[p] :
    /\ session[p]
    /\ backlog'    = [backlog EXCEPT ![p] = @ \ {id}]
    /\ recvTracks' = [recvTracks EXCEPT ![p] = @ \union {id}]
    /\ UNCHANGED <<driveVars, commands, signals, tcp, session, sendTracks, media>>

(* The Close a dropped handle sends; nothing receives it once drive returned. *)
DropClose(p, id) ==
  commands' = IF running[p]
              THEN [commands EXCEPT ![p] = TrySend(p, CloseCommand(id))]
              ELSE commands

(* Drop for SendTrack *)
DropSendTrack(p) ==
  \E id \in sendTracks[p] :
    /\ sendTracks' = [sendTracks EXCEPT ![p] = @ \ {id}]
    /\ DropClose(p, id)
    /\ UNCHANGED <<driveVars, signals, tcp, session, recvTracks, backlog, media>>

(* Drop for RecvTrack *)
DropRecvTrack(p) ==
  \E id \in recvTracks[p] :
    /\ recvTracks' = [recvTracks EXCEPT ![p] = @ \ {id}]
    /\ DropClose(p, id)
    /\ UNCHANGED <<driveVars, signals, tcp, session, sendTracks, backlog, media>>

(* The Session value is dropped.  open() borrows it, so no caller waits.    *)
DropSession(p) ==
  /\ session[p]
  /\ \A k \in 1..Len(commands[p]) :
       commands[p][k].op = "Open" => ~commands[p][k].awaited
  /\ \A id \in Id : opening[p][id] # "awaited"
  /\ session' = [session EXCEPT ![p] = FALSE]
  /\ UNCHANGED <<driveVars, commands, signals, tcp, sendTracks, recvTracks,
                 backlog, media>>

(* Its receiver then drops the tracks nobody accepted, one after the other. *)
DropUnaccepted(p) ==
  \E id \in backlog[p] :
    /\ ~session[p]
    /\ backlog' = [backlog EXCEPT ![p] = @ \ {id}]
    /\ DropClose(p, id)
    /\ UNCHANGED <<driveVars, signals, tcp, session, sendTracks, recvTracks, media>>

---------------------------------------------------------------------------
(* The command arm of drive *)

(* Variant: the counter runs on. *)
CountOnExhausted(p) ==
  /\ HasCommand(p, "Open") /\ nextId[p] > MaxId
  /\ nextId' = [nextId EXCEPT ![p] = IF @ > MaxId + 4 THEN @ ELSE @ + 2]
  /\ TakeCommand(p)
  /\ UNCHANGED <<tracks, opening, outgoing, incoming, expired, running, signals, tcp, handleVars,
                 media>>

(* Command::Open when alloc_id has no id left. *)
HandleOpenExhausted(p) ==
  /\ HasCommand(p, "Open") /\ nextId[p] > MaxId
  /\ TakeCommand(p)
  /\ UNCHANGED <<driveVars, signals, tcp, handleVars, media>>

(* Variant: ids of both parities. *)
OpenAnyParity(p) ==
  /\ HasCommand(p, "Open") /\ nextId[p] <= MaxId /\ tracks[p][nextId[p]] = "none"
  /\ nextId' = [nextId EXCEPT ![p] = @ + 1]
  /\ SetTrack(p, nextId[p], "local")
  /\ Write(p, "Open", nextId[p])
  /\ opening' = [opening EXCEPT ![p][nextId[p]] = "awaited"]
  /\ TakeCommand(p)
  /\ UNCHANGED <<outgoing, incoming, expired, running, signals, handleVars, media>>

(* Variant: the gate of a new track stands open. *)
OpenGateless(p) ==
  /\ HasCommand(p, "Open") /\ nextId[p] <= MaxId /\ tracks[p][nextId[p]] = "none"
  /\ nextId' = [nextId EXCEPT ![p] = @ + 2]
  /\ SetTrack(p, nextId[p], "ready")
  /\ Write(p, "Open", nextId[p])
  /\ opening' = [opening EXCEPT ![p][nextId[p]] = "awaited"]
  /\ TakeCommand(p)
  /\ UNCHANGED <<outgoing, incoming, expired, running, signals, handleVars, media>>

(* Command::Open.  The id is consumed even when the engine refuses it. *)
HandleOpen(p) ==
  /\ HasCommand(p, "Open") /\ nextId[p] <= MaxId
  /\ LET id == nextId[p] IN
       /\ nextId' = [nextId EXCEPT ![p] = @ + 2]
       /\ IF tracks[p][id] # "none"
          THEN UNCHANGED <<tracks, opening, tcp>>
          ELSE /\ SetTrack(p, id, "local")
               /\ Write(p, "Open", id)
               /\ opening' = [opening EXCEPT ![p][id] =
                    IF Head(commands[p]).awaited THEN "awaited" ELSE "cancelled"]
  /\ TakeCommand(p)
  /\ UNCHANGED <<outgoing, incoming, expired, running, signals, handleVars, media>>

(* Variant: the peer is not told. *)
CloseSilently(p) ==
  /\ HasCommand(p, "Close")
  /\ LET id == Head(commands[p]).id IN
       /\ EndOpening(p, id)
       /\ outgoing' = [outgoing EXCEPT ![p] = @ \ {id}]
       /\ incoming' = [incoming EXCEPT ![p] = @ \ {id}]
       /\ SetTrack(p, id, "none")
  /\ TakeCommand(p)
  /\ UNCHANGED <<nextId, expired, running, signals, tcp, handleVars, media>>

(* Command::Close, from close() or from a drop.  The peer is told only when *)
(* the engine still had the track.                                          *)
HandleClose(p) ==
  /\ HasCommand(p, "Close")
  /\ LET id == Head(commands[p]).id IN
       /\ EndOpening(p, id)
       /\ outgoing' = [outgoing EXCEPT ![p] = @ \ {id}]
       /\ incoming' = [incoming EXCEPT ![p] = @ \ {id}]
       /\ SetTrack(p, id, "none")
       /\ IF tracks[p][id] = "none" THEN UNCHANGED tcp ELSE Write(p, "Close", id)
  /\ TakeCommand(p)
  /\ UNCHANGED <<nextId, expired, running, signals, handleVars, media>>

(* Command::Frame: push_frame refuses a track that is not send-ready. *)
HandleFrame(p) ==
  /\ HasCommand(p, "Frame")
  /\ LET id == Head(commands[p]).id IN
       media' = IF tracks[p][id] = "ready"
                THEN [media EXCEPT ![p] = @ \union {id}] ELSE media
  /\ TakeCommand(p)
  /\ UNCHANGED <<driveVars, signals, tcp, handleVars>>

---------------------------------------------------------------------------
(* The signal arm of drive *)

(* Open for an id of our own parity or one the engine already has. *)
RefuseOpen(p) ==
  /\ HasSignal(p, "Open")
  /\ LET id == Head(signals[p]).id IN
       /\ Local(p, id) \/ tracks[p][id] # "none"
       /\ Write(p, "Reject", id)
  /\ TakeSignal(p)
  /\ UNCHANGED <<driveVars, commands, handleVars, media>>

(* Open accepted: engine track, route, Ready, then the RecvTrack.  When the *)
(* Session is gone the channel to accept() is closed, and the RecvTrack is  *)
(* dropped where it stands, which sends a Close to drive's own channel.     *)
AdmitOpen(p) ==
  /\ HasSignal(p, "Open") /\ HasSender(p)
  /\ LET id == Head(signals[p]).id IN
       /\ ~Local(p, id) /\ tracks[p][id] = "none"
       /\ SetTrack(p, id, "remote")
       /\ incoming' = [incoming EXCEPT ![p] = @ \union {id}]
       /\ Write(p, "Ready", id)
       /\ IF session[p]
          THEN /\ backlog' = [backlog EXCEPT ![p] = @ \union {id}]
               /\ UNCHANGED commands
          ELSE /\ commands' = [commands EXCEPT ![p] = TrySend(p, CloseCommand(id))]
               /\ UNCHANGED backlog
  /\ TakeSignal(p)
  /\ UNCHANGED <<nextId, opening, outgoing, expired, running, session, sendTracks,
                 recvTracks, media>>

(* Open accepted when every command sender is gone: Ready is written, the   *)
(* weak sender cannot be upgraded, and drive returns.                       *)
AdmitOpenOrphan(p) ==
  /\ HasSignal(p, "Open") /\ ~HasSender(p)
  /\ LET id == Head(signals[p]).id IN
       /\ ~Local(p, id) /\ tracks[p][id] = "none"
       /\ Write(p, "Ready", id)
  /\ Return(p)
  /\ UNCHANGED <<handleVars, media>>

(* Ready for an open that still waits: the caller gets the SendTrack.  When *)
(* the caller is gone the SendTrack is dropped where it stands.             *)
HandleReady(p) ==
  /\ HasSignal(p, "Ready") /\ HasSender(p)
  /\ LET id == Head(signals[p]).id IN
       /\ Local(p, id) /\ tracks[p][id] \in {"local", "ready"}
       /\ opening[p][id] # "none"
       /\ SetTrack(p, id, "ready")
       /\ EndOpening(p, id)
       /\ outgoing' = [outgoing EXCEPT ![p] = @ \union {id}]
       /\ IF opening[p][id] = "awaited"
          THEN /\ sendTracks' = [sendTracks EXCEPT ![p] = @ \union {id}]
               /\ UNCHANGED commands
          ELSE /\ commands' = [commands EXCEPT ![p] = TrySend(p, CloseCommand(id))]
               /\ UNCHANGED sendTracks
  /\ TakeSignal(p)
  /\ UNCHANGED <<nextId, incoming, expired, running, tcp, session, recvTracks, backlog, media>>

(* The same Ready when every command sender is gone: drive returns. *)
HandleReadyOrphan(p) ==
  /\ HasSignal(p, "Ready") /\ ~HasSender(p)
  /\ LET id == Head(signals[p]).id IN
       Local(p, id) /\ tracks[p][id] \in {"local", "ready"} /\ opening[p][id] # "none"
  /\ Return(p)
  /\ UNCHANGED <<tcp, handleVars, media>>

(* Variants: any Ready is swallowed; a Ready opens a gate that is gone. *)
SwallowReady(p) ==
  /\ HasSignal(p, "Ready")
  /\ TakeSignal(p)
  /\ UNCHANGED <<driveVars, commands, tcp, handleVars, media>>
ReviveOnReady(p) ==
  /\ HasSignal(p, "Ready")
  /\ LET id == Head(signals[p]).id IN
       IF Local(p, id) THEN SetTrack(p, id, "ready") ELSE UNCHANGED tracks
  /\ TakeSignal(p)
  /\ UNCHANGED <<nextId, opening, outgoing, incoming, expired, running, commands, tcp,
                 handleVars, media>>

(* Ready for a remote id, an unknown id, or an open no longer pending.  The *)
(* engine's gate opens before opening is consulted.                         *)
IgnoreReady(p) ==
  /\ HasSignal(p, "Ready")
  /\ LET id == Head(signals[p]).id IN
       /\ ~(Local(p, id) /\ tracks[p][id] \in {"local", "ready"} /\ opening[p][id] # "none")
       /\ IF Local(p, id) /\ tracks[p][id] = "local"
          THEN SetTrack(p, id, "ready") ELSE UNCHANGED tracks
  /\ TakeSignal(p)
  /\ UNCHANGED <<nextId, opening, outgoing, incoming, expired, running, commands, tcp,
                 handleVars, media>>

(* Reject: only an open of our own that still waits is rolled back. *)
HandleReject(p) ==
  /\ HasSignal(p, "Reject")
  /\ LET id == Head(signals[p]).id IN
       IF Local(p, id) /\ opening[p][id] # "none"
       THEN EndOpening(p, id) /\ SetTrack(p, id, "none")
       ELSE UNCHANGED <<opening, tracks>>
  /\ TakeSignal(p)
  /\ UNCHANGED <<nextId, outgoing, incoming, expired, running, commands, tcp, handleVars, media>>

(* Variant: the routes stay. *)
PeerCloseKeepsRoutes(p) ==
  /\ HasSignal(p, "Close")
  /\ EndOpening(p, Head(signals[p]).id)
  /\ SetTrack(p, Head(signals[p]).id, "none")
  /\ TakeSignal(p)
  /\ UNCHANGED <<nextId, outgoing, incoming, expired, running, commands, tcp, handleVars, media>>

(* Close: a pending open fails; otherwise the routes go with the track.  No *)
(* parity check: either side may close a track of either direction.         *)
HandlePeerClose(p) ==
  /\ HasSignal(p, "Close")
  /\ LET id == Head(signals[p]).id
         routed == opening[p][id] = "none" /\ tracks[p][id] # "none"
         gone == IF routed THEN {id} ELSE {} IN
       /\ EndOpening(p, id)
       /\ SetTrack(p, id, "none")
       /\ outgoing' = [outgoing EXCEPT ![p] = @ \ gone]
       /\ incoming' = [incoming EXCEPT ![p] = @ \ gone]
  /\ TakeSignal(p)
  /\ UNCHANGED <<nextId, expired, running, commands, tcp, handleVars, media>>

---------------------------------------------------------------------------
(* The timer arm, and the ways drive returns *)

(* Variant: only opens somebody still waits for. *)
CollectAwaited(p) ==
  /\ Selecting(p)
  /\ \E ids \in SUBSET {id \in Id : opening[p][id] = "awaited"} :
       ids # {} /\ expired' = [expired EXCEPT ![p] = ids]
  /\ UNCHANGED <<nextId, tracks, opening, outgoing, incoming, running, commands, signals,
                 tcp, handleVars, media>>

(* The opens whose five seconds are over.  The deadlines grow with the id,  *)
(* so with an open every older one has expired.                             *)
CollectExpired(p) ==
  /\ Selecting(p)
  /\ \E ids \in SUBSET {id \in Id : opening[p][id] # "none"} :
       /\ ids # {}
       /\ \A id \in ids, older \in Id :
            older < id /\ opening[p][older] # "none" => older \in ids
       /\ expired' = [expired EXCEPT ![p] = ids]
  /\ UNCHANGED <<nextId, tracks, opening, outgoing, incoming, running, commands, signals,
                 tcp, handleVars, media>>

(* Variant: the peer is not told. *)
ExpireSilently(p) ==
  \E id \in expired[p] :
    /\ running[p] /\ opening[p][id] # "none"
    /\ expired' = [expired EXCEPT ![p] = @ \ {id}]
    /\ EndOpening(p, id)
    /\ SetTrack(p, id, "none")
    /\ UNCHANGED <<nextId, outgoing, incoming, running, commands, signals, tcp,
                   handleVars, media>>

(* The loop of the timer arm ends them one by one, in the order of a hash   *)
(* map, and each write may suspend it.  No other arm runs before it is      *)
(* through, so what was collected is pending still.                         *)
ExpireOpen(p) ==
  \E id \in expired[p] :
    /\ running[p] /\ Len(tcp[p]) < SendBuffer /\ opening[p][id] # "none"
    /\ expired' = [expired EXCEPT ![p] = @ \ {id}]
    /\ EndOpening(p, id)
    /\ SetTrack(p, id, "none")
    /\ Write(p, "Close", id)
    /\ UNCHANGED <<nextId, outgoing, incoming, running, commands, signals,
                   handleVars, media>>

(* Variant: a session with tracks left goes on. *)
SendersGoneIdle(p) ==
  /\ Selecting(p) /\ ~HasSender(p) /\ commands[p] = <<>>
  /\ outgoing[p] = {} /\ incoming[p] = {}
  /\ Return(p)
  /\ UNCHANGED <<tcp, handleVars, media>>

(* commands.recv() is None: every sender dropped and the channel drained. *)
SendersGone(p) ==
  /\ Selecting(p) /\ ~HasSender(p) /\ commands[p] = <<>>
  /\ Return(p)
  /\ UNCHANGED <<tcp, handleVars, media>>

(* An I/O error on UDP or TCP, or a protocol violation, at any moment, also *)
(* in the middle of a write.                                                *)
Fail(p) ==
  /\ running[p]
  /\ Return(p)
  /\ UNCHANGED <<tcp, handleVars, media>>

---------------------------------------------------------------------------
Init ==
  /\ nextId     = [p \in Peer |-> p]
  /\ tracks     = [p \in Peer |-> [id \in Id |-> "none"]]
  /\ opening    = [p \in Peer |-> [id \in Id |-> "none"]]
  /\ expired    = [p \in Peer |-> {}]
  /\ outgoing   = [p \in Peer |-> {}]
  /\ incoming   = [p \in Peer |-> {}]
  /\ commands   = [p \in Peer |-> <<>>]
  /\ signals    = [p \in Peer |-> <<>>]
  /\ tcp        = [p \in Peer |-> <<>>]
  /\ running    = [p \in Peer |-> TRUE]
  /\ session    = [p \in Peer |-> TRUE]
  /\ sendTracks = [p \in Peer |-> {}]
  /\ recvTracks = [p \in Peer |-> {}]
  /\ backlog    = [p \in Peer |-> {}]
  /\ media      = [p \in Peer |-> {}]

Application(p) ==
  \/ Open(p) \/ CancelQueuedOpen(p) \/ CancelPendingOpen(p) \/ SendFrame(p)
  \/ CloseTrack(p) \/ Accept(p) \/ DropSendTrack(p) \/ DropRecvTrack(p)
  \/ DropSession(p)

DriveCommand(p) ==
  \/ HandleOpenExhausted(p) \/ HandleOpen(p) \/ HandleClose(p) \/ HandleFrame(p)

DriveSignal(p) ==
  \/ RefuseOpen(p) \/ AdmitOpen(p) \/ AdmitOpenOrphan(p)
  \/ HandleReady(p) \/ HandleReadyOrphan(p) \/ IgnoreReady(p)
  \/ HandleReject(p) \/ HandlePeerClose(p)

(* One step of one peer. *)
Step(p) ==
  \/ Application(p) \/ DropUnaccepted(p)
  \/ DriveCommand(p) \/ DriveSignal(p)
  \/ CollectExpired(p) \/ ExpireOpen(p) \/ SendersGone(p) \/ Fail(p)

---------------------------------------------------------------------------
TypeOK ==
  /\ nextId \in [Peer -> 0..(MaxId + 2)]
  /\ tracks \in [Peer -> [Id -> {"none", "local", "ready", "remote"}]]
  /\ opening \in [Peer -> [Id -> {"none", "awaited", "cancelled"}]]
  /\ expired \in [Peer -> SUBSET Id]
  /\ outgoing \in [Peer -> SUBSET Id]
  /\ incoming \in [Peer -> SUBSET Id]
  /\ commands \in [Peer -> Seq(Command)]
  /\ signals \in [Peer -> Seq(Signal)]
  /\ tcp \in [Peer -> Seq(Signal)]
  /\ running \in [Peer -> BOOLEAN]
  /\ session \in [Peer -> BOOLEAN]
  /\ sendTracks \in [Peer -> SUBSET Id]
  /\ recvTracks \in [Peer -> SUBSET Id]
  /\ backlog \in [Peer -> SUBSET Id]
  /\ media \in [Peer -> SUBSET Id]

(* The session's three maps and the engine's track table are four records  *)
(* of the same tracks, kept by different lines of drive.  They agree in     *)
(* every state: a pending open is a local track with its gate shut, an      *)
(* encoder route a local track with its gate open, a frame route a remote   *)
(* track; and the direction of a track is the parity of its id.             *)
Agree(p, id) ==
  /\ opening[p][id] # "none" <=> tracks[p][id] = "local"
  /\ id \in outgoing[p] <=> tracks[p][id] = "ready"
  /\ id \in incoming[p] <=> tracks[p][id] = "remote"
  /\ tracks[p][id] \in {"local", "ready"} => Local(p, id)
  /\ tracks[p][id] = "remote" => ~Local(p, id)

RoutesMatchEngine == \A p \in Peer, id \in Id : Agree(p, id)

(* What RoutesMatchEngine needs of the allocator to be inductive: a peer    *)
(* only ever allocates ids of its own parity.                               *)
NextIdLocal == \A p \in Peer : Local(p, nextId[p])

SessionInv == TypeOK /\ RoutesMatchEngine /\ NextIdLocal

(* A send track that is closed, rejected, timed out or refused never comes  *)
(* back under its id, whatever stale Ready is still on its way (src/lib.rs: *)
(* "False when we already timed the open out and removed the track").       *)
IdsStayRetired ==
  \A p \in Peer, id \in Id :
    /\ Local(p, id) /\ id < nextId[p] /\ tracks[p][id] = "none"
    => tracks'[p][id] = "none"

LocalIdsNotReused == [][IdsStayRetired]_vars

===========================================================================
