------------------------------- MODULE Netplay -------------------------------
(***************************************************************************)
(* Network play (src/vice/src/network.c): two emulators, the server and the *)
(* client, start from one snapshot and run the same machine.  What a player *)
(* does in a frame is recorded in a list instead of being done; at the end  *)
(* of the frame the list is sent, and both machines play the server's list  *)
(* and then the client's of the frame FrameDelta - 1 frames ago, kept in a  *)
(* ring until then.  The lists carry the registers of the CPU, by which the *)
(* machines notice that they have come apart.                               *)
(*                                                                         *)
(* The connection is a reliable byte stream that ends in one of two ways.   *)
(* It breaks, and what is on its way may be lost: whoever waits gets an     *)
(* error.  Or one side closes it and all it has sent arrives: then the      *)
(* other side gets 0 bytes (socket.c:994-997), which network_recv_buffer    *)
(* (network.c:351-360) takes for progress and asks for more, for ever.      *)
(* What is sent into a connection that has ended is lost with or without an *)
(* error.  The machine is abstracted to what has been played on it and to   *)
(* whether something else has changed it (drift).                           *)
(*                                                                         *)
(* Bounds: MaxFrames of a connection; Budgets of what the players do and    *)
(* of what goes wrong.  A client connects only when the server waits.       *)
(***************************************************************************)
EXTENDS Integers, Sequences

CONSTANTS
    FrameDelta,    \* frame_delta
    Inputs,        \* the kinds of events
    Control,       \* Control[s]: what network_control lets s do
    MaxFrames,
    Budgets        \* how many "inputs", "connects" and "troubles" there may be

Sides == {"server", "client"}
Other(s) == IF s = "server" THEN "client" ELSE "server"
Slots == 0 .. FrameDelta - 1
Scarce == {"inputs", "connects", "troubles"}

ASSUME FrameDeltaAssumption == FrameDelta \in Nat \ {0}
ASSUME BoundsAssumption ==
    /\ Control \in [Sides -> SUBSET Inputs]
    /\ MaxFrames \in Nat /\ Budgets \subseteq [Scarce -> Nat]

VARIABLES
    mode,       \* network_mode
    at,         \* where the program is: it emulates ("run"), waits for the
                \* other side ("receive" in a frame's hook; "snapshot",
                \* "settings", "delay" while it connects), or is no more
    socket,     \* network_socket: "none", "open" or "closed"
    listening,  \* the state of listen_socket
    pending,    \* whether a client waits to be accepted
    trap,       \* the function the CPU is asked to call
    listed,     \* whether frame_event_list exists
    ring,       \* frame_event_list
    current,    \* current_frame
    toPlay,     \* frame_to_play
    full,       \* frame_buffer_full
    suspended,  \* whether a suspension was sent or received in this frame
    wire,       \* wire[s]: what is on its way to s
    up,         \* whether the connection works
    hungUp,     \* whether it was closed by a side and has not broken: the
                \* other side gets no error
    frame,      \* frames since the connection was made
    made,       \* history: what the player did, frame by frame
    applied,    \* history: what was played on the machine
    drift,      \* what else changed the machine
    left        \* what is left of the budget

links == <<mode, at, socket, listening, pending, trap, wire, up, hungUp>>
lists == <<listed, ring, current, toPlay, full, suspended>>
history == <<frame, made, applied, drift, left>>
vars == <<mode, at, socket, listening, pending, trap, wire, up, hungUp,
          listed, ring, current, toPlay, full, suspended,
          frame, made, applied, drift, left>>

Modes == {"IDLE", "SERVER", "SERVER_CONNECTED", "CLIENT"}
Connected(s) == mode[s] \in {"SERVER_CONNECTED", "CLIENT"}

(* A list: the registers, if the sync test is its first event, and what the *)
(* player did.  On the wire a list of length 0 says that the sender has     *)
(* suspended emulation.                                                     *)
NoTest == <<>>
Registers == [played : Nat, drift : Nat]
Lists == [test : Registers \cup {NoTest}, inputs : Seq(Inputs)]
EmptyList == [test |-> NoTest, inputs |-> <<>>]

Message(kind, list) == [kind |-> kind, list |-> list]
Kinds == {"snapshot", "settings", "packet", "delta", "frame", "suspend"}
Tell(kind) == Message(kind, EmptyList)
Messages == [kind : Kinds, list : Lists]

TypeOK ==
    /\ mode \in [Sides -> Modes]
    /\ at \in [Sides -> {"run", "receive", "snapshot", "settings", "delay",
                         "aborted", "crashed"}]
    /\ socket \in [Sides -> {"none", "open", "closed"}]
    /\ listening \in {"none", "open", "closed"}
    /\ pending \in BOOLEAN
    /\ trap \in [Sides -> {"none", "connect", "sync_test"}]
    /\ listed \in [Sides -> BOOLEAN]
    /\ ring \in [Sides -> [Slots -> Lists]]
    /\ current \in [Sides -> Slots] /\ toPlay \in [Sides -> Slots]
    /\ full \in [Sides -> BOOLEAN]
    /\ suspended \in [Sides -> BOOLEAN]
    /\ wire \in [Sides -> Seq(Messages)]
    /\ up \in BOOLEAN /\ hungUp \in BOOLEAN
    /\ frame \in [Sides -> Nat]
    /\ made \in [Sides -> Seq(Seq(Inputs))]
    /\ applied \in [Sides -> Seq(Seq(Inputs) \X Seq(Inputs))]
    /\ drift \in [Sides -> Nat]
    /\ left \in [Scarce -> Nat]

Init ==
    /\ mode = [s \in Sides |-> IF s = "server" THEN "SERVER" ELSE "IDLE"]
    /\ at = [s \in Sides |-> "run"]
    /\ socket = [s \in Sides |-> "none"]
    /\ listening = "open" /\ pending = FALSE
    /\ trap = [s \in Sides |-> "none"]
    /\ listed = [s \in Sides |-> FALSE]
    /\ ring = [s \in Sides |-> [i \in Slots |-> EmptyList]]
    /\ current = [s \in Sides |-> 0] /\ toPlay = [s \in Sides |-> 0]
    /\ full = [s \in Sides |-> FALSE] /\ suspended = [s \in Sides |-> FALSE]
    /\ wire = [s \in Sides |-> <<>>] /\ up = FALSE /\ hungUp = FALSE
    /\ frame = [s \in Sides |-> 0]
    /\ made = [s \in Sides |-> <<>>] /\ applied = [s \in Sides |-> <<>>]
    /\ drift = [s \in Sides |-> 0]
    /\ left \in Budgets

Spend(what) == left[what] > 0 /\ left' = [left EXCEPT ![what] = @ - 1]
-----------------------------------------------------------------------------
(* What is sent is lost when the connection is broken.                      *)
SendTo(s, messages) == IF up THEN wire[s] \o messages ELSE wire[s]

(* How the connection ends when s closes it or the program of s ends: a     *)
(* client that was not accepted, and a side whose data was not read, are    *)
(* told by an error.                                                        *)
Farewell(s) ==
    IF ~up THEN {hungUp}
    ELSE IF pending THEN {FALSE}
    ELSE IF wire[s] = <<>> THEN {TRUE} ELSE BOOLEAN

(* network_disconnect.  vice_network_socket_close asserts that the socket   *)
(* is in use (socket.c:927).  result: where the program goes on.            *)
Disconnect(s, result) ==
    LET listens == s = "server" /\ mode[s] # "SERVER_CONNECTED"
        aborts == socket[s] = "closed" \/ (listens /\ listening = "closed")
    IN  /\ at' = [at EXCEPT ![s] = IF aborts THEN "aborted" ELSE result]
        /\ socket' = [socket EXCEPT ![s] = IF @ = "open" THEN "closed" ELSE @]
        /\ listening' = IF listens /\ listening = "open" THEN "closed" ELSE listening
        /\ mode' = [mode EXCEPT ![s] = IF @ = "SERVER_CONNECTED" THEN "SERVER" ELSE "IDLE"]
        /\ up' = FALSE /\ hungUp' \in Farewell(s)
        /\ pending' = (pending /\ ~listens)

(* network_init_frame_event_list                                            *)
InitFrameEventList(s) ==
    /\ listed' = [listed EXCEPT ![s] = TRUE]
    /\ ring' = [ring EXCEPT ![s] = [i \in Slots |-> EmptyList]]
    /\ current' = [current EXCEPT ![s] = 0]
    /\ full' = [full EXCEPT ![s] = FALSE]
    /\ trap' = [trap EXCEPT ![s] = "sync_test"]
    /\ UNCHANGED <<toPlay, suspended>>

(* Mutants of PrepareNextFrame: the ring does not wrap; the frame that has  *)
(* just been recorded is played.                                            *)
PrepareNextFrameNoWrap(s) ==
    /\ current' = [current EXCEPT ![s] = @ + 1]
    /\ toPlay' = [toPlay EXCEPT ![s] = (current[s] + 2) % FrameDelta]
    /\ trap' = [trap EXCEPT ![s] = "sync_test"]
    /\ frame' = [frame EXCEPT ![s] = @ + 1]
    /\ UNCHANGED ring

PrepareNextFrameLate(s) ==
    LET next == (current[s] + 1) % FrameDelta
    IN  /\ current' = [current EXCEPT ![s] = next]
        /\ toPlay' = [toPlay EXCEPT ![s] = next]
        /\ ring' = [ring EXCEPT ![s][next] = EmptyList]
        /\ trap' = [trap EXCEPT ![s] = "sync_test"]
        /\ frame' = [frame EXCEPT ![s] = @ + 1]

(* network_prepare_next_frame                                               *)
PrepareNextFrame(s) ==
    LET next == (current[s] + 1) % FrameDelta
    IN  /\ current' = [current EXCEPT ![s] = next]
        /\ toPlay' = [toPlay EXCEPT ![s] = (next + 1) % FrameDelta]
        /\ ring' = [ring EXCEPT ![s][next] = EmptyList]
        /\ trap' = [trap EXCEPT ![s] = "sync_test"]
        /\ frame' = [frame EXCEPT ![s] = @ + 1]

-----------------------------------------------------------------------------
(* The connection is made.                                                  *)

(* network_start_server, when no other is running                           *)
StartServer ==
    /\ at["server"] = "run" /\ mode["server"] = "IDLE"
    /\ mode' = [mode EXCEPT !["server"] = "SERVER"] /\ listening' = "open"
    /\ UNCHANGED <<at, socket, pending, trap, wire, up, hungUp, lists, history>>

(* network_connect_client connects and waits for the snapshot.  The server  *)
(* does not know yet.                                                       *)
ConnectClient ==
    /\ Spend("connects")
    /\ at["client"] = "run" /\ mode["client"] = "IDLE" /\ trap["client"] = "none"
    /\ at["server"] = "run" /\ mode["server"] = "SERVER" /\ trap["server"] = "none"
    /\ ~pending /\ pending' = TRUE
    /\ at' = [at EXCEPT !["client"] = "snapshot"]
    /\ socket' = [socket EXCEPT !["client"] = "open"]
    /\ up' = TRUE /\ hungUp' = FALSE /\ wire' = [s \in Sides |-> <<>>]
    /\ frame' = [s \in Sides |-> 0]
    /\ made' = [s \in Sides |-> <<>>] /\ applied' = [s \in Sides |-> <<>>]
    /\ drift' = [s \in Sides |-> 0]
    /\ UNCHANGED <<mode, listening, trap, lists>>

(* The server's hook of a frame finds the client.                           *)
Accept ==
    /\ at["server"] = "run" /\ mode["server"] = "SERVER" /\ trap["server"] = "none"
    /\ pending /\ pending' = FALSE
    /\ socket' = [socket EXCEPT !["server"] = "open"]
    /\ trap' = [trap EXCEPT !["server"] = "connect"]
    /\ UNCHANGED <<mode, at, listening, wire, up, hungUp, lists, history>>

(* network_server_connect_trap, up to the answer to its first test packet   *)
ServerConnectTrap ==
    /\ at["server"] = "run" /\ trap["server"] = "connect"
    /\ trap' = [trap EXCEPT !["server"] = "none"]
    /\ mode' = [mode EXCEPT !["server"] = "SERVER_CONNECTED"]
    /\ at' = [at EXCEPT !["server"] = "delay"]
    /\ wire' = [wire EXCEPT !["client"] =
                   SendTo("client", <<Tell("snapshot"), Tell("settings"), Tell("packet")>>)]
    /\ UNCHANGED <<socket, listening, pending, up, hungUp, lists, history>>

(* The snapshot cannot be written or sent: the server forgets the client.   *)
ServerGivesUp ==
    /\ at["server"] = "run" /\ trap["server"] = "connect"
    /\ up => left["troubles"] > 0
    /\ left' = [left EXCEPT !["troubles"] = IF up THEN @ - 1 ELSE @]
    /\ trap' = [trap EXCEPT !["server"] = "none"]
    /\ UNCHANGED <<mode, at, socket, listening, pending, wire, up, hungUp, lists,
                   frame, made, applied, drift>>

Gets(s, place, kind) ==
    /\ at[s] = place /\ socket[s] = "open"
    /\ wire[s] # <<>> /\ Head(wire[s]).kind = kind

GetSnapshot ==
    /\ Gets("client", "snapshot", "snapshot")
    /\ wire' = [wire EXCEPT !["client"] = Tail(@)]
    /\ at' = [at EXCEPT !["client"] = "run"]
    /\ trap' = [trap EXCEPT !["client"] = "connect"]
    /\ UNCHANGED <<mode, socket, listening, pending, up, hungUp, lists, history>>

ClientConnectTrap ==
    /\ at["client"] = "run" /\ trap["client"] = "connect"
    /\ trap' = [trap EXCEPT !["client"] = "none"]
    /\ at' = [at EXCEPT !["client"] = "settings"]
    /\ UNCHANGED <<mode, socket, listening, pending, wire, up, hungUp, lists, history>>

GetSettings ==
    /\ Gets("client", "settings", "settings")
    /\ wire' = [wire EXCEPT !["client"] = Tail(@)]
    /\ mode' = [mode EXCEPT !["client"] = "CLIENT"]
    /\ at' = [at EXCEPT !["client"] = "delay"]
    /\ UNCHANGED <<socket, listening, pending, trap, up, hungUp, lists, history>>

(* The snapshot cannot be read: the client gives up without a word.         *)
ClientGivesUp ==
    /\ Spend("troubles")
    /\ Gets("client", "settings", "settings")
    /\ wire' = [wire EXCEPT !["client"] = Tail(@)]
    /\ at' = [at EXCEPT !["client"] = "run"]
    /\ UNCHANGED <<mode, socket, listening, pending, trap, up, hungUp, lists,
                   frame, made, applied, drift>>

(* network_test_delay, its fifty packets taken as one                       *)
AnswerPacket ==
    /\ Gets("client", "delay", "packet")
    /\ wire' = [wire EXCEPT !["client"] = Tail(@),
                            !["server"] = SendTo("server", <<Tell("packet")>>)]
    /\ UNCHANGED <<mode, at, socket, listening, pending, trap, up, hungUp, lists, history>>

SendDelta ==
    /\ Gets("server", "delay", "packet")
    /\ wire' = [wire EXCEPT !["server"] = Tail(@),
                            !["client"] = SendTo("client", <<Tell("delta")>>)]
    /\ at' = [at EXCEPT !["server"] = "run"]
    /\ InitFrameEventList("server")
    /\ UNCHANGED <<mode, socket, listening, pending, up, hungUp, history>>

GetDelta ==
    /\ Gets("client", "delay", "delta")
    /\ wire' = [wire EXCEPT !["client"] = Tail(@)]
    /\ at' = [at EXCEPT !["client"] = "run"]
    /\ InitFrameEventList("client")
    /\ UNCHANGED <<mode, socket, listening, pending, up, hungUp, history>>

(* An error instead of the message that is waited for; there is none when   *)
(* the other side has hung up.  Only an error of the snapshot closes the    *)
(* socket; after one of network_test_delay the side counts as connected.    *)
HandshakeFails(s) ==
    /\ at[s] \in {"snapshot", "settings", "delay"}
    /\ ~up /\ ~hungUp /\ wire[s] = <<>>
    /\ at' = [at EXCEPT ![s] = "run"]
    /\ socket' = [socket EXCEPT ![s] = IF at[s] = "snapshot" THEN "closed" ELSE @]
    /\ UNCHANGED <<mode, listening, pending, trap, wire, up, hungUp, lists, history>>

-----------------------------------------------------------------------------
(* A frame.                                                                 *)

(* network_event_record                                                     *)
Record(s, e) ==
    /\ Spend("inputs")
    /\ at[s] = "run" /\ Connected(s) /\ listed[s]
    /\ e \in Control[s]
    /\ ring' = [ring EXCEPT ![s][current[s]].inputs = Append(@, e)]
    /\ UNCHANGED <<links, listed, current, toPlay, full, suspended,
                   frame, made, applied, drift>>

(* network_event_record_sync_test                                           *)
SyncTest(s) ==
    /\ at[s] = "run" /\ trap[s] = "sync_test"
    /\ trap' = [trap EXCEPT ![s] = "none"]
    /\ ring' = IF ring[s][current[s]] # EmptyList THEN ring
               ELSE [ring EXCEPT ![s][current[s]].test =
                        [played |-> Len(applied[s]), drift |-> drift[s]]]
    /\ UNCHANGED <<mode, at, socket, listening, pending, wire, up, hungUp,
                   listed, current, toPlay, full, suspended, history>>

(* Another function asks for a trap before this one was called.             *)
OtherTrap(s) ==
    /\ Spend("troubles")
    /\ at[s] = "run" /\ trap[s] # "none"
    /\ trap' = [trap EXCEPT ![s] = "none"]
    /\ UNCHANGED <<mode, at, socket, listening, pending, wire, up, hungUp, lists,
                   frame, made, applied, drift>>

(* network_hook at the end of a frame, up to the answer of the other side.  *)
(* A list that could not be sent before is no new frame.                    *)
BeginsHook(s) ==
    /\ at[s] = "run" /\ trap[s] = "none" /\ Connected(s)
    /\ frame[s] < MaxFrames

NoList(s) ==
    /\ BeginsHook(s) /\ ~listed[s]
    /\ at' = [at EXCEPT ![s] = "crashed"] /\ up' = FALSE
    /\ hungUp' \in Farewell(s)
    /\ UNCHANGED <<mode, socket, listening, pending, trap, wire, lists, history>>

Send(s) ==
    LET list == ring[s][current[s]]
    IN  /\ BeginsHook(s) /\ listed[s]
        /\ made' = [made EXCEPT ![s] = IF Len(@) > frame[s] THEN @
                                       ELSE Append(@, list.inputs)]
        /\ suspended' = [suspended EXCEPT ![s] = FALSE]
        /\ full' = [full EXCEPT ![s] = @ \/ current[s] = FrameDelta - 1]
        /\ \/ /\ wire' = [wire EXCEPT ![Other(s)] =
                             SendTo(Other(s), <<Message("frame", list)>>)]
              /\ at' = [at EXCEPT ![s] = "receive"]
              /\ UNCHANGED <<mode, socket, listening, pending, up, hungUp>>
           \/ /\ ~up /\ Disconnect(s, "receive")
              /\ UNCHANGED wire
        /\ UNCHANGED <<trap, listed, ring, current, toPlay,
                       frame, applied, drift, left>>

\* The ring is not full yet.
ReceiveNothing(s) ==
    /\ at[s] = "receive" /\ ~full[s]
    /\ PrepareNextFrame(s)
    /\ at' = [at EXCEPT ![s] = "run"]
    /\ UNCHANGED <<mode, socket, listening, pending, wire, up, hungUp,
                   listed, full, suspended, made, applied, drift, left>>

\* The other side has suspended emulation.
ReceiveSuspend(s) ==
    /\ Gets(s, "receive", "suspend") /\ full[s]
    /\ wire' = [wire EXCEPT ![s] = Tail(@)]
    /\ suspended' = [suspended EXCEPT ![s] = TRUE]
    /\ UNCHANGED <<mode, at, socket, listening, pending, trap, up, hungUp,
                   listed, ring, current, toPlay, full, history>>

(* Mutant of OutOfSync: the registers of this frame are compared.           *)
OutOfSyncNow(s) ==
    LET local == ring[s][current[s]].test
        remote == Head(wire[s]).list.test
    IN  local # NoTest /\ remote # NoTest /\ local # remote

OutOfSync(s) ==
    LET local == ring[s][toPlay[s]].test
        remote == Head(wire[s]).list.test
    IN  local # NoTest /\ remote # NoTest /\ local # remote

(* What is played, in this order: the server's list, then the client's.     *)
InOrder(s) ==
    LET local == ring[s][toPlay[s]].inputs
        remote == Head(wire[s]).list.inputs
    IN  IF mode[s] = "SERVER_CONNECTED" THEN <<local, remote>> ELSE <<remote, local>>

(* The two lists of a frame are played, out of sync or not.                 *)
Receive(s) ==
    /\ Gets(s, "receive", "frame") /\ full[s]
    /\ wire' = [wire EXCEPT ![s] = Tail(@)]
    /\ applied' = [applied EXCEPT ![s] = Append(@, InOrder(s))]
    /\ IF OutOfSync(s) THEN Disconnect(s, "run")
       ELSE /\ at' = [at EXCEPT ![s] = "run"]
            /\ UNCHANGED <<mode, socket, listening, pending, up, hungUp>>
    /\ PrepareNextFrame(s)
    /\ UNCHANGED <<listed, full, suspended, made, drift, left>>

(* Mutant of ReceiveFails: an error of an open socket is tried again.       *)
ReceiveFailsRetry(s) ==
    /\ at[s] = "receive" /\ full[s] /\ socket[s] = "closed"
    /\ Disconnect(s, "run")
    /\ UNCHANGED <<trap, wire, lists, history>>

(* The length cannot be received, over a socket that may be closed already. *)
(* When the other side has hung up there is no error: network_recv_buffer   *)
(* does not return and s stays where it is.                                 *)
ReceiveFails(s) ==
    /\ at[s] = "receive" /\ full[s]
    /\ socket[s] = "closed" \/ (~up /\ ~hungUp /\ wire[s] = <<>>)
    /\ Disconnect(s, "run")
    /\ UNCHANGED <<trap, wire, lists, history>>

(* The length could be received, but not the list.                          *)
ReceiveHalf(s) ==
    /\ at[s] = "receive" /\ full[s] /\ socket[s] = "open"
    /\ ~up /\ ~hungUp /\ wire[s] # <<>> /\ Head(wire[s]).kind = "frame"
    /\ wire' = [wire EXCEPT ![s] = <<>>]
    /\ at' = [at EXCEPT ![s] = "run"]
    /\ UNCHANGED <<mode, socket, listening, pending, trap, up, hungUp, lists, history>>

(* network_suspend, from a menu                                             *)
Suspend(s) ==
    /\ Spend("troubles")
    /\ at[s] = "run" /\ Connected(s) /\ ~suspended[s]
    /\ wire' = [wire EXCEPT ![Other(s)] = SendTo(Other(s), <<Tell("suspend")>>)]
    /\ suspended' = [suspended EXCEPT ![s] = TRUE]
    /\ UNCHANGED <<mode, at, socket, listening, pending, trap, up, hungUp,
                   listed, ring, current, toPlay, full, frame, made, applied, drift>>

(* network_disconnect, from a menu                                          *)
Leave(s) ==
    /\ Spend("troubles")
    /\ at[s] = "run" /\ mode[s] # "IDLE"
    /\ Disconnect(s, "run")
    /\ UNCHANGED <<trap, wire, lists, frame, made, applied, drift>>

-----------------------------------------------------------------------------
(* The world.                                                               *)

Break ==
    /\ Spend("troubles") /\ (up \/ hungUp)
    /\ up' = FALSE /\ hungUp' = FALSE
    /\ UNCHANGED <<mode, at, socket, listening, pending, trap, wire, lists,
                   frame, made, applied, drift>>

Lose(s) ==
    /\ ~up /\ ~hungUp /\ wire[s] # <<>>
    /\ wire' = [wire EXCEPT ![s] = <<>>]
    /\ UNCHANGED <<mode, at, socket, listening, pending, trap, up, hungUp, lists, history>>

(* Something that is not exchanged changes one of the machines.             *)
Drift(s) ==
    /\ Spend("troubles")
    /\ at[s] = "run" /\ Connected(s) /\ listed[s]
    /\ drift' = [drift EXCEPT ![s] = @ + 1]
    /\ UNCHANGED <<links, lists, frame, made, applied>>

Hook(s) ==
    \/ Send(s) \/ NoList(s)
    \/ ReceiveNothing(s) \/ ReceiveSuspend(s) \/ Receive(s)
    \/ ReceiveFails(s) \/ ReceiveHalf(s)

Handshake ==
    \/ Accept \/ ServerConnectTrap \/ ServerGivesUp
    \/ GetSnapshot \/ ClientConnectTrap \/ GetSettings \/ ClientGivesUp
    \/ AnswerPacket \/ SendDelta \/ GetDelta

Next ==
    \/ StartServer \/ ConnectClient \/ Handshake \/ Break
    \/ \E s \in Sides :
           \/ Hook(s) \/ SyncTest(s)
           \/ HandshakeFails(s) \/ OtherTrap(s) \/ Suspend(s) \/ Leave(s)
           \/ Lose(s) \/ Drift(s)
           \/ \E e \in Inputs : Record(s, e)

(* The emulators go on emulating; the user need not do anything.            *)
Spec ==
    /\ Init /\ [][Next]_vars
    /\ WF_vars(Handshake)
    /\ \A s \in Sides : WF_vars(Hook(s)) /\ WF_vars(SyncTest(s))

-----------------------------------------------------------------------------
(* Both machines get the same inputs in the same frame, those of the server *)
(* first, and none is lost, doubled or put off, whatever breaks             *)
(* (network.c:880-905).                                                     *)
Promise == INSTANCE DelayedInputs
    WITH First <- "server", Second <- "client",
         Delay <- FrameDelta, Frames <- Seq(Inputs)
ImplementsDelayedInputs == Promise!Spec

(* The machines are not told to be out of sync unless something that is not *)
(* exchanged has changed one of them (network.c:886-896).                   *)
NoFalseAlarm ==
    \A s \in Sides :
        Gets(s, "receive", "frame") /\ full[s] /\ OutOfSync(s) =>
            \E p \in Sides : drift[p] # 0

(* A side that waits for the other side's list does not wait for ever: the  *)
(* list comes or the connection is found to be broken, whatever else goes   *)
(* wrong (network.c:827-852).  The one wait that lasts is for a side that   *)
(* has hung up and whose lists have all come: instead of disconnecting, as  *)
(* network.c:829-832 means it to, the hook stays in network_recv_buffer,    *)
(* which takes the 0 of recv for progress (network.c:351-360).              *)
HungUpOn(s) == hungUp /\ wire[s] = <<>>
OnlyHangUpsHang ==
    \A s \in Sides : at[s] = "receive" ~> at[s] # "receive" \/ HungUpOn(s)
=============================================================================
