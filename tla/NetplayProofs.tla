---------------------------- MODULE NetplayProofs ----------------------------
(***************************************************************************)
(* Proofs about network play.  The argument: number the frames since the    *)
(* connection was made.  Each slot of a side's ring, and each list on its   *)
(* way, holds what the player did in the frame of its number (Ringed,       *)
(* Wired); so the two lists a side plays together are those of one frame.   *)
(* Where a list has been lost, nothing is on its way any more and nothing   *)
(* will be played (Dead).                                                   *)
(***************************************************************************)
EXTENDS Netplay, TLAPS

LinksTyped ==
    /\ mode \in [Sides -> Modes]
    /\ at \in [Sides -> {"run", "receive", "snapshot", "settings", "delay",
                         "aborted", "crashed"}]
    /\ socket \in [Sides -> {"none", "open", "closed"}]
    /\ listening \in {"none", "open", "closed"}
    /\ pending \in BOOLEAN
    /\ trap \in [Sides -> {"none", "connect", "sync_test"}]
    /\ up \in BOOLEAN /\ hungUp \in BOOLEAN

ListsTyped ==
    /\ listed \in [Sides -> BOOLEAN]
    /\ ring \in [Sides -> [Slots -> Lists]]
    /\ current \in [Sides -> Slots] /\ toPlay \in [Sides -> Slots]
    /\ full \in [Sides -> BOOLEAN]
    /\ suspended \in [Sides -> BOOLEAN]

WireTyped == wire \in [Sides -> Seq(Messages)]

HistoryTyped ==
    /\ frame \in [Sides -> Nat]
    /\ made \in [Sides -> Seq(Seq(Inputs))]
    /\ applied \in [Sides -> Seq(Seq(Inputs) \X Seq(Inputs))]
    /\ drift \in [Sides -> Nat]
    /\ left \in [Scarce -> Nat]

LEMMA TypeParts == TypeOK <=> LinksTyped /\ ListsTyped /\ WireTyped /\ HistoryTyped
BY DEF TypeOK, LinksTyped, ListsTyped, WireTyped, HistoryTyped

LEMMA TypePartsPrimed ==
    ASSUME LinksTyped', ListsTyped', WireTyped', HistoryTyped'
    PROVE  TypeOK'
BY DEF TypeOK, LinksTyped, ListsTyped, WireTyped, HistoryTyped

LEMMA EmptyListType == EmptyList \in Lists
BY DEF EmptyList, Lists, NoTest

LEMMA InputsUpdate ==
    ASSUME NEW l \in Lists, NEW i \in Seq(Inputs)
    PROVE  /\ [l EXCEPT !.inputs = i] = [test |-> l.test, inputs |-> i]
           /\ [l EXCEPT !.inputs = i] \in Lists
BY DEF Lists

LEMMA TestUpdate ==
    ASSUME NEW l \in Lists, NEW t \in Registers
    PROVE  /\ [l EXCEPT !.test = t] = [test |-> t, inputs |-> l.inputs]
           /\ [l EXCEPT !.test = t] \in Lists
BY DEF Lists

LEMMA TellType ==
    ASSUME NEW kind \in Kinds
    PROVE  Tell(kind) \in Messages /\ Tell(kind).kind = kind
BY EmptyListType DEF Tell, Message, Messages

LEMMA SpendType ==
    ASSUME HistoryTyped, NEW what \in Scarce, Spend(what)
    PROVE  left' \in [Scarce -> Nat]
BY DEF HistoryTyped, Spend

LEMMA SlotFacts ==
    /\ FrameDelta \in Nat /\ FrameDelta >= 1 /\ 0 \in Slots
    /\ \A i \in Slots : i \in Nat /\ i < FrameDelta
BY FrameDeltaAssumption DEF Slots

LEMMA SlotAfter ==
    ASSUME NEW i \in Slots
    PROVE  /\ (i + 1) % FrameDelta \in Slots
           /\ (i + 1) % FrameDelta = IF i = FrameDelta - 1 THEN 0 ELSE i + 1
BY FrameDeltaAssumption DEF Slots

LEMMA PrepareTypes ==
    ASSUME ListsTyped, LinksTyped, HistoryTyped, NEW s \in Sides, PrepareNextFrame(s)
    PROVE  /\ ring' \in [Sides -> [Slots -> Lists]]
           /\ current' \in [Sides -> Slots] /\ toPlay' \in [Sides -> Slots]
           /\ trap' \in [Sides -> {"none", "connect", "sync_test"}]
           /\ frame' \in [Sides -> Nat]
<1>1. current[s] \in Slots
  BY DEF ListsTyped
<1>2. (current[s] + 1) % FrameDelta \in Slots
  BY <1>1, SlotAfter
<1>3. (((current[s] + 1) % FrameDelta) + 1) % FrameDelta \in Slots
  BY <1>2, SlotAfter
<1>4. current' \in [Sides -> Slots] /\ toPlay' \in [Sides -> Slots]
  BY <1>2, <1>3 DEF PrepareNextFrame, ListsTyped
<1>5. trap' \in [Sides -> {"none", "connect", "sync_test"}] /\ frame' \in [Sides -> Nat]
  BY DEF PrepareNextFrame, LinksTyped, HistoryTyped
<1>6. ring' \in [Sides -> [Slots -> Lists]]
  BY <1>2, EmptyListType DEF PrepareNextFrame, ListsTyped
<1> QED BY <1>4, <1>5, <1>6

LEMMA DisconnectTypes ==
    ASSUME LinksTyped, NEW s \in Sides, NEW result \in {"run", "receive"},
           Disconnect(s, result),
           trap' \in [Sides -> {"none", "connect", "sync_test"}]
    PROVE  LinksTyped'
BY DEF LinksTyped, Disconnect, Farewell, Modes

LEMMA SendType ==
    ASSUME WireTyped, NEW s \in Sides, NEW ms \in Seq(Messages),
           wire' = [wire EXCEPT ![s] = SendTo(s, ms)]
    PROVE  WireTyped'
BY DEF WireTyped, SendTo

LEMMA TakeType ==
    ASSUME WireTyped, NEW s \in Sides, wire[s] # <<>>,
           wire' = [wire EXCEPT ![s] = Tail(@)]
    PROVE  WireTyped' /\ Head(wire[s]) \in Messages
BY DEF WireTyped

-----------------------------------------------------------------------------
Typed == LinksTyped /\ ListsTyped /\ WireTyped /\ HistoryTyped

LEMMA InitTyped == Init => Typed
<1> SUFFICES ASSUME Init PROVE Typed
  OBVIOUS
<1>1. LinksTyped
  BY DEF Init, LinksTyped, Modes
<1>2. ListsTyped
  BY EmptyListType, SlotFacts DEF Init, ListsTyped
<1>3. WireTyped
  BY DEF Init, WireTyped
<1>4. HistoryTyped
  <2>1. left \in [Scarce -> Nat]
    BY BoundsAssumption DEF Init
  <2> QED BY <2>1 DEF Init, HistoryTyped
<1> QED BY <1>1, <1>2, <1>3, <1>4 DEF Typed

LEMMA ConnectTyped ==
    ASSUME Typed, StartServer \/ ConnectClient
    PROVE  Typed'
<1>1. CASE StartServer
  <2>1. LinksTyped'
    BY <1>1 DEF StartServer, Typed, LinksTyped, Modes
  <2> QED BY <1>1, <2>1 DEF StartServer, Typed, ListsTyped, WireTyped, HistoryTyped, lists, history
<1>2. CASE ConnectClient
  <2>1. LinksTyped'
    BY <1>2 DEF ConnectClient, Typed, LinksTyped
  <2>2. ListsTyped'
    BY <1>2 DEF ConnectClient, Typed, ListsTyped, lists
  <2>3. WireTyped'
    BY <1>2 DEF ConnectClient, WireTyped
  <2>4. left' \in [Scarce -> Nat]
    BY <1>2, SpendType DEF ConnectClient, Typed, Scarce
  <2>5. HistoryTyped'
    BY <1>2, <2>4 DEF ConnectClient, HistoryTyped
  <2> QED BY <2>1, <2>2, <2>3, <2>5 DEF Typed
<1> QED BY <1>1, <1>2

LEMMA InitFrameTypes ==
    ASSUME Typed, NEW s \in Sides, InitFrameEventList(s)
    PROVE  ListsTyped' /\ trap' \in [Sides -> {"none", "connect", "sync_test"}]
BY EmptyListType, SlotFacts DEF InitFrameEventList, Typed, ListsTyped, LinksTyped

LEMMA HandshakeTyped ==
    ASSUME Typed, Handshake
    PROVE  Typed'
<1>1. CASE Accept
  BY <1>1 DEF Accept, Typed, LinksTyped, ListsTyped, WireTyped, HistoryTyped, lists, history
<1>2. CASE ServerConnectTrap
  <2>1. <<Tell("snapshot"), Tell("settings"), Tell("packet")>> \in Seq(Messages)
    BY TellType DEF Kinds
  <2>2. WireTyped'
    BY <1>2, <2>1, SendType DEF ServerConnectTrap, Typed, Sides
  <2>3. LinksTyped'
    BY <1>2 DEF ServerConnectTrap, Typed, LinksTyped, Modes
  <2> QED BY <1>2, <2>2, <2>3 DEF ServerConnectTrap, Typed, ListsTyped, HistoryTyped, lists, history
<1>3. CASE ServerGivesUp
  <2>1. left' \in [Scarce -> Nat]
    <3>1. left \in [Scarce -> Nat] /\ "troubles" \in Scarce
      BY DEF Typed, HistoryTyped, Scarce
    <3>2. CASE up
      <4>1. left' = [left EXCEPT !["troubles"] = @ - 1] /\ left["troubles"] > 0
        BY <1>3, <3>2 DEF ServerGivesUp
      <4> QED BY <3>1, <4>1
    <3>3. CASE ~up
      <4>1. left' = [left EXCEPT !["troubles"] = @]
        BY <1>3, <3>3 DEF ServerGivesUp
      <4> QED BY <3>1, <4>1
    <3> QED BY <3>2, <3>3
  <2> QED BY <1>3, <2>1 DEF ServerGivesUp, Typed, LinksTyped, ListsTyped, WireTyped, HistoryTyped, lists
<1>4. CASE GetSnapshot
  <2>1. WireTyped'
    BY <1>4, TakeType DEF GetSnapshot, Gets, Typed, Sides
  <2> QED BY <1>4, <2>1 DEF GetSnapshot, Typed, LinksTyped, ListsTyped, HistoryTyped, lists, history
<1>5. CASE ClientConnectTrap
  BY <1>5 DEF ClientConnectTrap, Typed, LinksTyped, ListsTyped, WireTyped, HistoryTyped, lists, history
<1>6. CASE GetSettings
  <2>1. WireTyped'
    BY <1>6, TakeType DEF GetSettings, Gets, Typed, Sides
  <2> QED BY <1>6, <2>1 DEF GetSettings, Typed, LinksTyped, ListsTyped, HistoryTyped, Modes, lists, history
<1>7. CASE ClientGivesUp
  <2>1. WireTyped'
    BY <1>7, TakeType DEF ClientGivesUp, Gets, Typed, Sides
  <2>2. left' \in [Scarce -> Nat]
    BY <1>7, SpendType DEF ClientGivesUp, Typed, Scarce
  <2> QED BY <1>7, <2>1, <2>2 DEF ClientGivesUp, Typed, LinksTyped, ListsTyped, HistoryTyped, lists
<1>8. CASE AnswerPacket
  <2> DEFINE a == Tail(wire["client"])
             b == SendTo("server", <<Tell("packet")>>)
  <2>1. a \in Seq(Messages) /\ b \in Seq(Messages)
    <3>1. Tell("packet") \in Messages
      BY TellType DEF Kinds
    <3> QED BY <1>8, <3>1 DEF AnswerPacket, Gets, Typed, WireTyped, SendTo, Sides
  <2>2. wire' = [wire EXCEPT !["client"] = a, !["server"] = b]
    BY <1>8 DEF AnswerPacket
  <2> HIDE DEF a, b
  <2>3. WireTyped'
    BY <2>1, <2>2 DEF Typed, WireTyped
  <2> QED BY <1>8, <2>3 DEF AnswerPacket, Typed, LinksTyped, ListsTyped, HistoryTyped, lists, history
<1>9. CASE SendDelta
  <2> DEFINE a == Tail(wire["server"])
             b == SendTo("client", <<Tell("delta")>>)
  <2>1. a \in Seq(Messages) /\ b \in Seq(Messages)
    <3>1. Tell("delta") \in Messages
      BY TellType DEF Kinds
    <3> QED BY <1>9, <3>1 DEF SendDelta, Gets, Typed, WireTyped, SendTo, Sides
  <2>2. wire' = [wire EXCEPT !["server"] = a, !["client"] = b]
    BY <1>9 DEF SendDelta
  <2> HIDE DEF a, b
  <2>3. WireTyped'
    BY <2>1, <2>2 DEF Typed, WireTyped
  <2>4. ListsTyped' /\ trap' \in [Sides -> {"none", "connect", "sync_test"}]
    BY <1>9, InitFrameTypes DEF SendDelta, Sides
  <2> QED BY <1>9, <2>3, <2>4 DEF SendDelta, Typed, LinksTyped, HistoryTyped, history
<1>10. CASE GetDelta
  <2>1. WireTyped'
    BY <1>10, TakeType DEF GetDelta, Gets, Typed, Sides
  <2>2. ListsTyped' /\ trap' \in [Sides -> {"none", "connect", "sync_test"}]
    BY <1>10, InitFrameTypes DEF GetDelta, Sides
  <2> QED BY <1>10, <2>1, <2>2 DEF GetDelta, Typed, LinksTyped, HistoryTyped, history
<1> QED BY <1>1, <1>2, <1>3, <1>4, <1>5, <1>6, <1>7, <1>8, <1>9, <1>10 DEF Handshake

LEMMA FrameMessage ==
    ASSUME Typed, NEW s \in Sides
    PROVE  /\ ring[s][current[s]] \in Lists
           /\ ring[s][current[s]].inputs \in Seq(Inputs)
           /\ Message("frame", ring[s][current[s]]) \in Messages
BY DEF Typed, ListsTyped, Lists, Message, Messages, Kinds

LEMMA OtherSide ==
    ASSUME NEW s \in Sides
    PROVE  Other(s) \in Sides /\ Other(s) # s /\ Other(Other(s)) = s /\ Sides = {s, Other(s)}
BY DEF Sides, Other

LEMMA RecordTyped ==
    ASSUME Typed, NEW s \in Sides,
           Drift(s) \/ SyncTest(s) \/ OtherTrap(s) \/ \E e \in Inputs : Record(s, e)
    PROVE  Typed'
<1>1. CASE \E e \in Inputs : Record(s, e)
  <2> PICK e \in Inputs : Record(s, e)
    BY <1>1
  <2>1. left' \in [Scarce -> Nat]
    BY SpendType DEF Record, Typed, Scarce
  <2> DEFINE c == current[s]
             l == [ring[s][c] EXCEPT !.inputs = Append(@, e)]
  <2>2. c \in Slots /\ ring[s][c] \in Lists
    BY DEF Typed, ListsTyped
  <2>3. l \in Lists
    <3>1. Append(ring[s][c].inputs, e) \in Seq(Inputs)
      BY <2>2 DEF Lists
    <3>2. ring[s][c] \in Lists
      BY <2>2
    <3> QED BY <3>1, <3>2, InputsUpdate
  <2>4. ring' = [ring EXCEPT ![s] = [ring[s] EXCEPT ![c] = l]]
    BY DEF Record
  <2> HIDE DEF c, l
  <2>5. ring' \in [Sides -> [Slots -> Lists]]
    BY <2>2, <2>3, <2>4 DEF Typed, ListsTyped
  <2> QED BY <2>1, <2>5 DEF Record, Typed, LinksTyped, ListsTyped, WireTyped, HistoryTyped, links
<1>2. CASE SyncTest(s)
  <2> DEFINE c == current[s]
             t == [played |-> Len(applied[s]), drift |-> drift[s]]
             l == [ring[s][c] EXCEPT !.test = t]
  <2>1. c \in Slots /\ ring[s][c] \in Lists
    BY DEF Typed, ListsTyped
  <2>2. t \in Registers
    BY DEF Registers, Typed, HistoryTyped
  <2>3. l \in Lists
    <3>1. ring[s][c] \in Lists
      BY <2>1
    <3>2. ring[s][c].inputs \in Seq(Inputs)
      BY <2>1 DEF Lists
    <3> HIDE DEF t
    <3> QED BY <2>2, <3>1, <3>2, TestUpdate
  <2>4. ring' = ring \/ ring' = [ring EXCEPT ![s] = [ring[s] EXCEPT ![c] = l]]
    BY <1>2 DEF SyncTest
  <2> HIDE DEF c, t, l
  <2>5. ring' \in [Sides -> [Slots -> Lists]]
    <3>1. CASE ring' = ring
      BY <3>1 DEF Typed, ListsTyped
    <3>2. CASE ring' = [ring EXCEPT ![s] = [ring[s] EXCEPT ![c] = l]]
      BY <2>1, <2>3, <3>2 DEF Typed, ListsTyped
    <3> QED BY <2>4, <3>1, <3>2
  <2>6. trap' \in [Sides -> {"none", "connect", "sync_test"}]
    BY <1>2 DEF SyncTest, Typed, LinksTyped
  <2> QED BY <1>2, <2>5, <2>6 DEF SyncTest, Typed, LinksTyped, ListsTyped, WireTyped, HistoryTyped, history
<1>3. CASE OtherTrap(s)
  <2>1. left' \in [Scarce -> Nat]
    BY <1>3, SpendType DEF OtherTrap, Typed, Scarce
  <2> QED BY <1>3, <2>1 DEF OtherTrap, Typed, LinksTyped, ListsTyped, WireTyped, HistoryTyped, lists
<1>4. CASE Drift(s)
  <2>1. left' \in [Scarce -> Nat]
    BY <1>4, SpendType DEF Drift, Typed, Scarce
  <2>2. drift' \in [Sides -> Nat]
    BY <1>4 DEF Drift, Typed, HistoryTyped
  <2> QED BY <1>4, <2>1, <2>2 DEF Drift, Typed, LinksTyped, ListsTyped, WireTyped, HistoryTyped, links, lists
<1> QED BY <1>1, <1>2, <1>3, <1>4

LEMMA SendTyped ==
    ASSUME Typed, NEW s \in Sides, Send(s)
    PROVE  Typed'
<1> DEFINE list == ring[s][current[s]]
<1>1. list \in Lists /\ list.inputs \in Seq(Inputs) /\ Message("frame", list) \in Messages
  BY FrameMessage
<1>2. made' \in [Sides -> Seq(Seq(Inputs))]
  <2> DEFINE m == IF Len(made[s]) > frame[s] THEN made[s] ELSE Append(made[s], list.inputs)
  <2>1. made' = [made EXCEPT ![s] = m]
    BY DEF Send
  <2>2. m \in Seq(Seq(Inputs))
    BY <1>1 DEF Typed, HistoryTyped
  <2> HIDE DEF m
  <2> QED BY <2>1, <2>2 DEF Typed, HistoryTyped
<1>3. ListsTyped'
  <2>1. suspended' \in [Sides -> BOOLEAN]
    BY DEF Send, Typed, ListsTyped
  <2>2. full' \in [Sides -> BOOLEAN]
    BY DEF Send, Typed, ListsTyped
  <2> QED BY <2>1, <2>2 DEF Send, Typed, ListsTyped
<1>4. HistoryTyped'
  BY <1>2 DEF Send, Typed, HistoryTyped
<1>5. WireTyped' /\ LinksTyped'
  <2>1. CASE /\ wire' = [wire EXCEPT ![Other(s)] =
                            SendTo(Other(s), <<Message("frame", list)>>)]
             /\ at' = [at EXCEPT ![s] = "receive"]
             /\ UNCHANGED <<mode, socket, listening, pending, up, hungUp>>
    <3>1. <<Message("frame", list)>> \in Seq(Messages)
      BY <1>1
    <3>2. WireTyped'
      BY <2>1, <3>1, OtherSide, SendType DEF Typed
    <3> QED BY <2>1, <3>2 DEF Send, Typed, LinksTyped
  <2>2. CASE Disconnect(s, "receive") /\ UNCHANGED wire
    <3>1. LinksTyped'
      BY <2>2, DisconnectTypes DEF Send, Typed, LinksTyped
    <3> QED BY <2>2, <3>1 DEF Typed, WireTyped
  <2> QED BY <2>1, <2>2 DEF Send
<1> QED BY <1>3, <1>4, <1>5 DEF Typed

LEMMA ReceiveTyped ==
    ASSUME Typed, NEW s \in Sides, Receive(s)
    PROVE  Typed'
<1>1. WireTyped' /\ Head(wire[s]) \in Messages
  BY TakeType DEF Receive, Gets, Typed
<1>2. InOrder(s) \in Seq(Inputs) \X Seq(Inputs)
  <2>1. ring[s][toPlay[s]].inputs \in Seq(Inputs)
    BY DEF Typed, ListsTyped, Lists
  <2>2. Head(wire[s]).list.inputs \in Seq(Inputs)
    BY <1>1 DEF Messages, Lists
  <2> QED BY <2>1, <2>2 DEF InOrder
<1>3. applied' \in [Sides -> Seq(Seq(Inputs) \X Seq(Inputs))]
  <2>1. applied' = [applied EXCEPT ![s] = Append(@, InOrder(s))]
    BY DEF Receive
  <2> QED BY <1>2, <2>1 DEF Typed, HistoryTyped
<1>4. /\ ring' \in [Sides -> [Slots -> Lists]]
      /\ current' \in [Sides -> Slots] /\ toPlay' \in [Sides -> Slots]
      /\ trap' \in [Sides -> {"none", "connect", "sync_test"}]
      /\ frame' \in [Sides -> Nat]
  BY PrepareTypes DEF Receive, Typed
<1>5. LinksTyped'
  <2>1. CASE Disconnect(s, "run")
    BY <1>4, <2>1, DisconnectTypes DEF Receive, Typed
  <2>2. CASE /\ at' = [at EXCEPT ![s] = "run"]
             /\ UNCHANGED <<mode, socket, listening, pending, up, hungUp>>
    BY <1>4, <2>2 DEF Receive, Typed, LinksTyped
  <2> QED BY <2>1, <2>2 DEF Receive
<1>6. ListsTyped'
  BY <1>4 DEF Receive, Typed, ListsTyped
<1>7. HistoryTyped'
  BY <1>3, <1>4 DEF Receive, Typed, HistoryTyped
<1> QED BY <1>1, <1>5, <1>6, <1>7 DEF Typed

LEMMA HookTyped ==
    ASSUME Typed, NEW s \in Sides, Hook(s)
    PROVE  Typed'
<1>1. CASE Send(s)
  BY <1>1, SendTyped
<1>2. CASE NoList(s)
  BY <1>2 DEF NoList, Farewell, Typed, LinksTyped, ListsTyped, WireTyped, HistoryTyped, lists, history
<1>3. CASE ReceiveNothing(s)
  <2>1. /\ ring' \in [Sides -> [Slots -> Lists]]
        /\ current' \in [Sides -> Slots] /\ toPlay' \in [Sides -> Slots]
        /\ trap' \in [Sides -> {"none", "connect", "sync_test"}]
        /\ frame' \in [Sides -> Nat]
    BY <1>3, PrepareTypes DEF ReceiveNothing, Typed
  <2> QED BY <1>3, <2>1 DEF ReceiveNothing, Typed, LinksTyped, ListsTyped, WireTyped, HistoryTyped
<1>4. CASE ReceiveSuspend(s)
  <2>1. WireTyped'
    BY <1>4, TakeType DEF ReceiveSuspend, Gets, Typed
  <2>2. suspended' \in [Sides -> BOOLEAN]
    BY <1>4 DEF ReceiveSuspend, Typed, ListsTyped
  <2> QED BY <1>4, <2>1, <2>2 DEF ReceiveSuspend, Typed, LinksTyped, ListsTyped, HistoryTyped, history
<1>5. CASE Receive(s)
  BY <1>5, ReceiveTyped
<1>6. CASE ReceiveFails(s)
  <2>1. LinksTyped'
    BY <1>6, DisconnectTypes DEF ReceiveFails, Typed, LinksTyped
  <2> QED BY <1>6, <2>1 DEF ReceiveFails, Typed, ListsTyped, WireTyped, HistoryTyped, lists, history
<1>7. CASE ReceiveHalf(s)
  <2>1. LinksTyped'
    BY <1>7 DEF ReceiveHalf, Typed, LinksTyped
  <2>2. WireTyped'
    BY <1>7 DEF ReceiveHalf, Typed, WireTyped
  <2> QED BY <1>7, <2>1, <2>2 DEF ReceiveHalf, Typed, ListsTyped, HistoryTyped, lists, history
<1> QED BY <1>1, <1>2, <1>3, <1>4, <1>5, <1>6, <1>7 DEF Hook

LEMMA WorldTyped ==
    ASSUME Typed,
           Break \/ \E s \in Sides : HandshakeFails(s) \/ Suspend(s) \/ Leave(s) \/ Lose(s)
    PROVE  Typed'
<1>1. CASE Break
  <2>1. left' \in [Scarce -> Nat]
    BY <1>1, SpendType DEF Break, Typed, Scarce
  <2> QED BY <1>1, <2>1 DEF Break, Typed, LinksTyped, ListsTyped, WireTyped, HistoryTyped, lists
<1>2. ASSUME NEW s \in Sides, HandshakeFails(s)
      PROVE  Typed'
  BY <1>2 DEF HandshakeFails, Typed, LinksTyped, ListsTyped, WireTyped, HistoryTyped, lists, history
<1>3. ASSUME NEW s \in Sides, Suspend(s)
      PROVE  Typed'
  <2>1. left' \in [Scarce -> Nat]
    BY <1>3, SpendType DEF Suspend, Typed, Scarce
  <2>2. <<Tell("suspend")>> \in Seq(Messages)
    BY TellType DEF Kinds
  <2>3. WireTyped'
    BY <1>3, <2>2, OtherSide, SendType DEF Suspend, Typed
  <2>4. suspended' \in [Sides -> BOOLEAN]
    BY <1>3 DEF Suspend, Typed, ListsTyped
  <2> QED BY <1>3, <2>1, <2>3, <2>4 DEF Suspend, Typed, LinksTyped, ListsTyped, HistoryTyped
<1>4. ASSUME NEW s \in Sides, Leave(s)
      PROVE  Typed'
  <2>1. left' \in [Scarce -> Nat]
    BY <1>4, SpendType DEF Leave, Typed, Scarce
  <2>2. LinksTyped'
    BY <1>4, DisconnectTypes DEF Leave, Typed, LinksTyped
  <2> QED BY <1>4, <2>1, <2>2 DEF Leave, Typed, ListsTyped, WireTyped, HistoryTyped, lists
<1>5. ASSUME NEW s \in Sides, Lose(s)
      PROVE  Typed'
  <2>1. WireTyped'
    BY <1>5 DEF Lose, Typed, WireTyped
  <2> QED BY <1>5, <2>1 DEF Lose, Typed, LinksTyped, ListsTyped, HistoryTyped, lists, history
<1> QED BY <1>1, <1>2, <1>3, <1>4, <1>5

LEMMA NextTyped == Typed /\ [Next]_vars => Typed'
<1> SUFFICES ASSUME Typed, [Next]_vars
             PROVE  Typed'
  OBVIOUS
<1>1. CASE StartServer \/ ConnectClient
  BY <1>1, ConnectTyped
<1>2. CASE Handshake
  BY <1>2, HandshakeTyped
<1>3. ASSUME NEW s \in Sides,
             Drift(s) \/ SyncTest(s) \/ OtherTrap(s) \/ \E e \in Inputs : Record(s, e)
      PROVE  Typed'
  BY <1>3, RecordTyped
<1>4. ASSUME NEW s \in Sides, Hook(s)
      PROVE  Typed'
  BY <1>4, HookTyped
<1>5. CASE Break \/ \E s \in Sides : HandshakeFails(s) \/ Suspend(s) \/ Leave(s) \/ Lose(s)
  BY <1>5, WorldTyped
<1>6. CASE UNCHANGED vars
  BY <1>6 DEF vars, Typed, LinksTyped, ListsTyped, WireTyped, HistoryTyped
<1> QED BY <1>1, <1>2, <1>3, <1>4, <1>5, <1>6 DEF Next

(* Every variable keeps its type.                                           *)
THEOREM NetplayTypes == Spec => []TypeOK
<1>1. Typed => TypeOK
  BY TypeParts DEF Typed
<1> QED BY <1>1, InitTyped, NextTyped, PTL DEF Spec

-----------------------------------------------------------------------------
(* The invariant.  Counting the frames since the connection was made, every *)
(* slot of the ring and every list on the wire has a number; what it holds  *)
(* is what the player did in the frame of that number.                      *)

(* Which side is the server does not change; a side that waits over an open *)
(* socket is still connected.                                               *)
Roles ==
    /\ mode["server"] # "CLIENT" /\ mode["client"] # "SERVER_CONNECTED"
    /\ \A s \in Sides : at[s] = "receive" /\ socket[s] = "open" => Connected(s)

(* Nothing has been played yet while the connection is being made.          *)
Zero(s) == frame[s] = 0 /\ made[s] = <<>> /\ applied[s] = <<>>
Apart(s) == at[s] \in {"run", "aborted"} /\ ~Connected(s) /\ Zero(s)

Shaking ==
    /\ pending => Apart("server") /\ trap["server"] # "connect"
    /\ \A s \in Sides :
          /\ trap[s] = "connect" => Apart(s)
          /\ at[s] \in {"snapshot", "settings", "delay"} => Zero(s)
          /\ at[s] \in {"snapshot", "settings"} => ~Connected(s)

(* The registers in the list of frame k were those after Played(k) frames.  *)
Played(k) == IF k <= FrameDelta THEN 0 ELSE k - FrameDelta
Tests(s, k) == {NoTest} \cup {[played |-> Played(k), drift |-> d] : d \in 0 .. drift[s]}

(* n[i]: the frames the other side has played when it has sent the first i  *)
(* messages that are on their way to s.                                     *)
Numbers(n, s) ==
    LET w == wire[s]
        o == Other(s)
    IN  /\ n[0] = Len(applied[s])
        /\ \A i \in 1 .. Len(w) :
              /\ n[i] = IF w[i].kind = "frame" THEN n[i - 1] + 1 ELSE n[i - 1]
              /\ w[i].kind = "frame" => /\ w[i].list.inputs = made[o][n[i]]
                                        /\ w[i].list.test \in Tests(o, n[i])
        /\ up => n[Len(w)] = Len(made[o])

Wired(s) ==
    \E n \in [0 .. Len(wire[s]) -> 0 .. Len(made[Other(s)])] : Numbers(n, s)

Playing(s) == at[s] = "receive" \/ (at[s] = "run" /\ Connected(s))

(* How far s may be ahead of its machine, whatever has happened.            *)
Counts(s) ==
    /\ Len(made[s]) \in {frame[s], frame[s] + 1}
    /\ at[s] = "receive" => Len(made[s]) = frame[s] + 1
    /\ at[s] = "run" /\ Len(made[s]) = frame[s] => frame[s] < Len(applied[s]) + FrameDelta
    /\ at[s] = "run" /\ Len(made[s]) # frame[s] => ~up
    /\ ~full[s] => frame[s] <= current[s]
    /\ at[s] = "receive" /\ ~full[s] => current[s] < FrameDelta - 1

(* Nothing will come any more.                                              *)
Dead(s) == ~up /\ wire[s] = <<>>

(* The number of the frame in slot i.                                       *)
Num(s, i) == (frame[s] + 1 - current[s] + i) - (IF i > current[s] THEN FrameDelta ELSE 0)

InSlot(s, i) ==
    LET k == Num(s, i)
    IN  /\ 1 <= k /\ k <= Len(made[s]) => ring[s][i].inputs = made[s][k]
        /\ 1 <= k => ring[s][i].test \in Tests(s, k)

Ringed(s) ==
    /\ at[s] = "run" => Len(made[s]) = frame[s]
    /\ full[s] <=> Len(made[s]) >= FrameDelta
    /\ ~full[s] => current[s] = frame[s]
    /\ Len(applied[s]) = Played(frame[s] + 1)
    /\ frame[s] >= 1 => toPlay[s] = IF current[s] = FrameDelta - 1 THEN 0
                                    ELSE current[s] + 1
    /\ \A i \in Slots : InSlot(s, i)

Side(s) == Playing(s) => Counts(s) /\ (Dead(s) \/ Ringed(s))

Inv == Typed /\ Roles /\ Shaking /\ \A s \in Sides : Wired(s) /\ Side(s)

-----------------------------------------------------------------------------
(* What a step leaves alone keeps its part of the invariant.                *)

LEMMA TestsGrow ==
    ASSUME Typed, Typed', NEW s \in Sides, drift'[s] >= drift[s], NEW k \in Int
    PROVE  Tests(s, k) \subseteq Tests(s, k)'
BY DEF Tests, Typed, HistoryTyped

SideKept(s) ==
    /\ frame'[s] = frame[s] /\ made'[s] = made[s] /\ applied'[s] = applied[s]
    /\ full'[s] = full[s] /\ current'[s] = current[s] /\ toPlay'[s] = toPlay[s]
    /\ ring'[s] = ring[s] /\ drift'[s] >= drift[s]
    /\ up' => up
    /\ Dead(s) => wire'[s] = <<>>
    /\ Playing(s)' => Playing(s) /\ at'[s] = at[s]

LEMMA SideKeeps ==
    ASSUME Typed, Typed', NEW s \in Sides, Side(s), SideKept(s)
    PROVE  Side(s)'
<1> SUFFICES ASSUME Playing(s)'
             PROVE  Counts(s)' /\ (Dead(s)' \/ Ringed(s)')
  BY DEF Side
<1>1. Counts(s) /\ (Dead(s) \/ Ringed(s))
  BY DEF Side, SideKept
<1>2. Counts(s)'
  BY <1>1 DEF Counts, SideKept
<1>3. Dead(s) => Dead(s)'
  BY DEF Dead, SideKept
<1>4. ASSUME Ringed(s)
      PROVE  Ringed(s)'
  <2>1. ASSUME NEW i \in Slots
        PROVE  InSlot(s, i)'
    <3>1. Num(s, i)' = Num(s, i) /\ Num(s, i) \in Int
      BY SlotFacts DEF Num, SideKept, Typed, HistoryTyped, ListsTyped
    <3>2. Tests(s, Num(s, i)) \subseteq Tests(s, Num(s, i))'
      <4> DEFINE k == Num(s, i)
      <4>1. k \in Int /\ k' = k
        BY <3>1
      <4> HIDE DEF k
      <4>2. Tests(s, k) \subseteq Tests(s, k)'
        BY <4>1, TestsGrow DEF Tests, SideKept, Typed, HistoryTyped
      <4> QED BY <4>2 DEF k
    <3>3. InSlot(s, i)
      BY <1>4 DEF Ringed
    <3> QED BY <3>1, <3>2, <3>3 DEF InSlot, SideKept
  <2> QED BY <1>4, <2>1 DEF Ringed, SideKept
<1> QED BY <1>1, <1>2, <1>3, <1>4

LEMMA Idle ==
    ASSUME NEW s \in Sides, ~Playing(s)'
    PROVE  Side(s)'
BY DEF Side

WireKept(s) ==
    /\ wire'[s] = wire[s] /\ Len(applied'[s]) = Len(applied[s])
    /\ drift'[Other(s)] >= drift[Other(s)]
    /\ Len(made'[Other(s)]) >= Len(made[Other(s)])
    /\ \A i \in 1 .. Len(made[Other(s)]) : made'[Other(s)][i] = made[Other(s)][i]
    /\ up' => up /\ Len(made'[Other(s)]) = Len(made[Other(s)])

LEMMA WireKeeps ==
    ASSUME Typed, Typed', NEW s \in Sides, Wired(s), WireKept(s)
    PROVE  Wired(s)'
<1> DEFINE o == Other(s)
<1>1. o \in Sides
  BY OtherSide
<1>2. Len(made[o]) \in Nat /\ Len(made'[o]) \in Nat /\ Len(wire[s]) \in Nat
  BY <1>1, SMTT(30) DEF Typed, HistoryTyped, WireTyped
<1>3. PICK n \in [0 .. Len(wire[s]) -> 0 .. Len(made[o])] : Numbers(n, s)
  BY DEF Wired
<1>4. n \in [0 .. Len(wire'[s]) -> 0 .. Len(made'[o])]
  BY <1>2, <1>3 DEF WireKept
<1>5. ASSUME NEW i \in 1 .. Len(wire[s])
      PROVE  /\ n[i] = IF wire[s][i].kind = "frame" THEN n[i - 1] + 1 ELSE n[i - 1]
             /\ wire[s][i].kind = "frame" => /\ wire[s][i].list.inputs = made'[o][n[i]]
                                             /\ wire[s][i].list.test \in Tests(o, n[i])'
  <2>1. n[i] \in Int /\ n[i - 1] \in 0 .. Len(made[o]) /\ n[i] <= Len(made[o])
    BY <1>2, <1>3
  <2>2. Tests(o, n[i]) \subseteq Tests(o, n[i])'
    BY <1>1, <2>1, TestsGrow DEF WireKept
  <2>3. /\ n[i] = IF wire[s][i].kind = "frame" THEN n[i - 1] + 1 ELSE n[i - 1]
        /\ wire[s][i].kind = "frame" => /\ wire[s][i].list.inputs = made[o][n[i]]
                                        /\ wire[s][i].list.test \in Tests(o, n[i])
    BY <1>3 DEF Numbers
  <2>4. wire[s][i].kind = "frame" => n[i] \in 1 .. Len(made[o])
    BY <1>2, <2>1, <2>3
  <2>5. wire[s][i].kind = "frame" => made'[o][n[i]] = made[o][n[i]]
    BY <2>4 DEF WireKept
  <2> QED BY <2>2, <2>3, <2>5
<1>6. n[0] = Len(applied[s]) /\ (up => n[Len(wire[s])] = Len(made[o]))
  BY <1>3 DEF Numbers
<1>7. Numbers(n, s)'
  BY <1>5, <1>6 DEF Numbers, WireKept
<1> QED BY <1>4, <1>7 DEF Wired

(* What the lemmas on the wire to s need to know of types.                  *)
LEMMA WireFacts ==
    ASSUME Typed, NEW s \in Sides
    PROVE  /\ Other(s) \in Sides /\ Len(wire[s]) \in Nat /\ wire[s] \in Seq(Messages)
           /\ Len(applied[s]) \in Nat /\ Len(made[Other(s)]) \in Nat
           /\ made[Other(s)] \in Seq(Seq(Inputs)) /\ drift[Other(s)] \in Nat
BY OtherSide DEF Typed, HistoryTyped, WireTyped

\* The same players, as seen from the wire to s.
SameEnds(s) ==
    /\ applied'[s] = applied[s] /\ made'[Other(s)] = made[Other(s)]
    /\ drift'[Other(s)] = drift[Other(s)]

(* A message that is no list changes no number.                             *)
LEMMA WireTells ==
    ASSUME Typed, Typed', NEW s \in Sides, Wired(s), SameEnds(s), up' => up,
           NEW ms \in Seq(Messages), \A i \in 1 .. Len(ms) : ms[i].kind # "frame",
           wire'[s] = SendTo(s, ms)
    PROVE  Wired(s)'
<1>1. CASE ~up
  <2>1. wire'[s] = wire[s] /\ ~up'
    BY <1>1 DEF SendTo
  <2>2. WireKept(s)
    BY <2>1, WireFacts DEF WireKept, SameEnds
  <2> QED BY <2>2, WireKeeps
<1>2. CASE up
  <2> DEFINE o == Other(s)
             w == wire[s]
  <2> PICK l : l = Len(made[o])
    OBVIOUS
  <2>1. PICK n \in [0 .. Len(w) -> 0 .. l] : Numbers(n, s)
    BY DEF Wired
  <2> PICK m : m = [i \in 0 .. Len(w) + Len(ms) |-> IF i <= Len(w) THEN n[i] ELSE l]
    OBVIOUS
  <2>2. wire'[s] = w \o ms
    BY <1>2 DEF SendTo
  <2>3. Len(w) \in Nat /\ l \in Nat /\ w \in Seq(Messages) /\ Len(ms) \in Nat
        /\ Len(wire'[s]) = Len(w) + Len(ms)
    BY <2>2, WireFacts
  <2>4. m \in [0 .. Len(wire'[s]) -> 0 .. Len(made'[o])]
    BY <2>1, <2>3 DEF SameEnds
  <2>5. n[0] = Len(applied[s]) /\ n[Len(w)] = l
    BY <1>2, <2>1 DEF Numbers
  <2>6. ASSUME NEW i \in 1 .. Len(wire'[s])
        PROVE  /\ m[i] = IF wire'[s][i].kind = "frame" THEN m[i - 1] + 1 ELSE m[i - 1]
               /\ wire'[s][i].kind = "frame" => /\ wire'[s][i].list.inputs = made'[o][m[i]]
                                                /\ wire'[s][i].list.test \in Tests(o, m[i])'
    <3>1. CASE i <= Len(w)
      <4>1. wire'[s][i] = w[i] /\ m[i] = n[i] /\ m[i - 1] = n[i - 1]
        BY <2>2, <2>3, <3>1
      <4>2. /\ n[i] = IF w[i].kind = "frame" THEN n[i - 1] + 1 ELSE n[i - 1]
            /\ w[i].kind = "frame" => /\ w[i].list.inputs = made[o][n[i]]
                                      /\ w[i].list.test \in Tests(o, n[i])
        <5>1. i \in 1 .. Len(w)
          BY <2>3, <3>1
        <5> QED BY <2>1, <5>1 DEF Numbers
      <4>3. Tests(o, n[i])' = Tests(o, n[i])
        BY DEF Tests, SameEnds
      <4> QED BY <4>1, <4>2, <4>3 DEF SameEnds
    <3>2. CASE i > Len(w)
      <4>1. wire'[s][i] = ms[i - Len(w)] /\ i - Len(w) \in 1 .. Len(ms)
        BY <2>2, <2>3, <3>2
      <4>2. m[i] = l /\ m[i - 1] = l
        BY <2>3, <2>5, <3>2
      <4> QED BY <4>1, <4>2
    <3> QED BY <2>3, <3>1, <3>2
  <2>7. m[0] = Len(applied'[s]) /\ m[Len(wire'[s])] = Len(made'[o])
    BY <2>3, <2>5 DEF SameEnds
  <2>8. Numbers(m, s)'
    BY <2>6, <2>7 DEF Numbers
  <2> QED BY <2>4, <2>8 DEF Wired
<1> QED BY <1>1, <1>2

(* The first message is taken; if it is a list it is played.                *)
LEMMA WireTakes ==
    ASSUME Typed, Typed', NEW s \in Sides, Wired(s), up' => up,
           wire[s] # <<>>, wire'[s] = Tail(wire[s]),
           Len(applied'[s]) = IF Head(wire[s]).kind = "frame" THEN Len(applied[s]) + 1
                              ELSE Len(applied[s]),
           made'[Other(s)] = made[Other(s)], drift'[Other(s)] = drift[Other(s)]
    PROVE  Wired(s)'
<1> DEFINE o == Other(s)
           w == wire[s]
<1> PICK l : l = Len(made[o])
  OBVIOUS
<1>1. PICK n \in [0 .. Len(w) -> 0 .. l] : Numbers(n, s)
  BY DEF Wired
<1> PICK m : m = [i \in 0 .. Len(w) - 1 |-> n[i + 1]]
  OBVIOUS
<1>2. Len(w) \in Nat /\ Len(w) >= 1 /\ l \in Nat /\ w \in Seq(Messages)
  BY WireFacts
<1>3. /\ Len(wire'[s]) = Len(w) - 1
      /\ \A i \in 1 .. Len(w) - 1 : wire'[s][i] = w[i + 1]
  BY <1>2
<1>4. m \in [0 .. Len(wire'[s]) -> 0 .. Len(made'[o])]
  BY <1>1, <1>2, <1>3
<1>5. ASSUME NEW i \in 1 .. Len(wire'[s])
      PROVE  /\ m[i] = IF wire'[s][i].kind = "frame" THEN m[i - 1] + 1 ELSE m[i - 1]
             /\ wire'[s][i].kind = "frame" => /\ wire'[s][i].list.inputs = made'[o][m[i]]
                                              /\ wire'[s][i].list.test \in Tests(o, m[i])'
  <2> DEFINE j == i + 1
  <2>1. wire'[s][i] = w[j] /\ m[i] = n[j] /\ m[i - 1] = n[j - 1] /\ j \in 1 .. Len(w)
    BY <1>2, <1>3, SMTT(30)
  <2> HIDE DEF j
  <2>2. /\ n[j] = IF w[j].kind = "frame" THEN n[j - 1] + 1 ELSE n[j - 1]
        /\ w[j].kind = "frame" => /\ w[j].list.inputs = made[o][n[j]]
                                  /\ w[j].list.test \in Tests(o, n[j])
    BY <1>1, <2>1 DEF Numbers
  <2>3. Tests(o, n[j])' = Tests(o, n[j])
    BY DEF Tests
  <2> QED BY <2>1, <2>2, <2>3
<1>6. m[0] = Len(applied'[s])
  <2>1. n[1] = IF w[1].kind = "frame" THEN n[0] + 1 ELSE n[0]
    BY <1>1, <1>2 DEF Numbers
  <2>2. n[0] = Len(applied[s])
    BY <1>1 DEF Numbers
  <2>3. Head(w) = w[1] /\ m[0] = n[1]
    BY <1>2
  <2> QED BY <2>1, <2>2, <2>3
<1>7. up' => m[Len(wire'[s])] = Len(made'[o])
  BY <1>1, <1>2, <1>3 DEF Numbers
<1>8. Numbers(m, s)'
  BY <1>5, <1>6, <1>7 DEF Numbers
<1> QED BY <1>4, <1>8 DEF Wired

(* The other side sends the list of its next frame.                         *)
LEMMA WireSends ==
    ASSUME Typed, Typed', NEW s \in Sides, Wired(s), up' => up,
           NEW list \in Lists, list.test \in Tests(Other(s), Len(made[Other(s)]) + 1),
           wire'[s] = SendTo(s, <<Message("frame", list)>>),
           applied'[s] = applied[s], drift'[Other(s)] = drift[Other(s)],
           made'[Other(s)] = Append(made[Other(s)], list.inputs)
    PROVE  Wired(s)'
<1>1. CASE ~up
  <2>1. wire'[s] = wire[s] /\ ~up'
    BY <1>1 DEF SendTo
  <2>2. WireKept(s)
    BY <2>1, WireFacts DEF WireKept
  <2> QED BY <2>2, WireKeeps
<1>2. CASE up
  <2> DEFINE o == Other(s)
             w == wire[s]
             message == Message("frame", list)
  <2> PICK l : l = Len(made[o])
    OBVIOUS
  <2>1. PICK n \in [0 .. Len(w) -> 0 .. l] : Numbers(n, s)
    BY DEF Wired
  <2> PICK m : m = [i \in 0 .. Len(w) + 1 |-> IF i <= Len(w) THEN n[i] ELSE l + 1]
    OBVIOUS
  <2>2. wire'[s] = Append(w, message)
    BY <1>2, WireFacts DEF SendTo
  <2>3. Len(w) \in Nat /\ l \in Nat /\ w \in Seq(Messages) /\ Len(wire'[s]) = Len(w) + 1
    BY <2>2, WireFacts
  <2>4. Len(made'[o]) = l + 1 /\ made'[o][l + 1] = list.inputs
        /\ \A i \in 1 .. l : made'[o][i] = made[o][i]
    BY WireFacts
  <2>5. m \in [0 .. Len(wire'[s]) -> 0 .. Len(made'[o])]
    BY <2>1, <2>3, <2>4
  <2>6. n[0] = Len(applied[s]) /\ n[Len(w)] = l
    BY <1>2, <2>1 DEF Numbers
  <2>7. ASSUME NEW i \in 1 .. Len(wire'[s])
        PROVE  /\ m[i] = IF wire'[s][i].kind = "frame" THEN m[i - 1] + 1 ELSE m[i - 1]
               /\ wire'[s][i].kind = "frame" => /\ wire'[s][i].list.inputs = made'[o][m[i]]
                                                /\ wire'[s][i].list.test \in Tests(o, m[i])'
    <3>0. i \in Nat /\ 1 <= i /\ i <= Len(w) + 1
      BY <2>3
    <3>1. CASE i <= Len(w)
      <4>1. wire'[s][i] = w[i] /\ m[i] = n[i] /\ m[i - 1] = n[i - 1]
        BY <2>2, <2>3, <3>1
      <4>2. /\ n[i] = IF w[i].kind = "frame" THEN n[i - 1] + 1 ELSE n[i - 1]
            /\ w[i].kind = "frame" => /\ w[i].list.inputs = made[o][n[i]]
                                      /\ w[i].list.test \in Tests(o, n[i])
        <5>1. i \in 1 .. Len(w)
          BY <2>3, <3>1
        <5> QED BY <2>1, <5>1 DEF Numbers
      <4>3. w[i].kind = "frame" => n[i] \in 1 .. l
        <5>1. i \in 0 .. Len(w) /\ i - 1 \in 0 .. Len(w)
          BY <2>3, <3>0, <3>1
        <5>2. n[i] \in 0 .. l /\ n[i - 1] \in 0 .. l
          BY <2>1, <5>1
        <5> QED BY <2>3, <4>2, <5>2
      <4>4. Tests(o, n[i])' = Tests(o, n[i])
        BY DEF Tests
      <4> QED BY <2>4, <4>1, <4>2, <4>3, <4>4
    <3>2. CASE i = Len(w) + 1
      <4>1. wire'[s][i] = message /\ message.kind = "frame" /\ message.list = list
        BY <2>2, <2>3, <3>2 DEF Message
      <4>2. m[i] = l + 1 /\ m[i - 1] = l
        BY <2>3, <2>6, <3>2
      <4>3. list.test \in Tests(o, l + 1)'
        BY DEF Tests
      <4> HIDE DEF message
      <4>4. wire'[s][i].kind = "frame" /\ wire'[s][i].list = list
        BY <4>1
      <4>5. m[i] = m[i - 1] + 1 /\ made'[o][m[i]] = list.inputs
        BY <2>3, <2>4, <4>2
      <4>6. list.test \in Tests(o, m[i])'
        BY <4>2, <4>3 DEF Tests
      <4>7. m[i] = IF wire'[s][i].kind = "frame" THEN m[i - 1] + 1 ELSE m[i - 1]
        BY <4>4, <4>5
      <4>8. wire'[s][i].list.inputs = made'[o][m[i]]
        BY <4>4, <4>5
      <4>9. wire'[s][i].list.test \in Tests(o, m[i])'
        BY <4>4, <4>6
      <4> QED BY <4>7, <4>8, <4>9
    <3>3. i <= Len(w) \/ i = Len(w) + 1
      BY <3>0, <2>3
    <3> QED BY <3>3, <3>1, <3>2, Zenon
  <2>8. m[0] = Len(applied'[s]) /\ m[Len(wire'[s])] = Len(made'[o])
    BY <2>3, <2>4, <2>6
  <2>9. Numbers(m, s)'
    BY <2>7, <2>8 DEF Numbers
  <2> QED BY <2>5, <2>9 DEF Wired
<1> QED BY <1>1, <1>2

(* What is on its way is lost.                                              *)
LEMMA WireLoses ==
    ASSUME Typed, Typed', NEW s \in Sides, Wired(s), SameEnds(s), ~up', wire'[s] = <<>>
    PROVE  Wired(s)'
<1> DEFINE o == Other(s)
<1> PICK m : m = [i \in {0} |-> Len(applied[s])]
  OBVIOUS
<1>1. PICK n \in [0 .. Len(wire[s]) -> 0 .. Len(made[o])] : Numbers(n, s)
  BY DEF Wired
<1>2. n[0] = Len(applied[s]) /\ n[0] \in 0 .. Len(made[o])
  BY <1>1, WireFacts DEF Numbers
<1>3. Len(wire'[s]) = 0 /\ m[0] = Len(applied'[s])
  BY DEF SameEnds
<1>4. m \in [0 .. Len(wire'[s]) -> 0 .. Len(made'[o])]
  BY <1>2, <1>3 DEF SameEnds
<1>5. Numbers(m, s)'
  BY <1>3 DEF Numbers
<1> QED BY <1>4, <1>5 DEF Wired

(* A new connection carries nothing yet.                                    *)
LEMMA WireStarts ==
    ASSUME NEW s \in Sides, wire[s] = <<>>, applied[s] = <<>>, made[Other(s)] = <<>>
    PROVE  Wired(s)
<1> PICK m : m = [i \in {0} |-> 0]
  OBVIOUS
<1>1. m \in [0 .. Len(wire[s]) -> 0 .. Len(made[Other(s)])]
  OBVIOUS
<1>2. m[0] = 0
  OBVIOUS
<1>3. Numbers(m, s)
  BY <1>2 DEF Numbers
<1> QED BY <1>1, <1>3 DEF Wired

LEMMA WireRestarts ==
    ASSUME NEW s \in Sides, wire'[s] = <<>>, applied'[s] = <<>>, made'[Other(s)] = <<>>
    PROVE  Wired(s)'
<1> PICK m : m = [i \in {0} |-> 0]
  OBVIOUS
<1>1. m \in [0 .. Len(wire'[s]) -> 0 .. Len(made'[Other(s)])]
  OBVIOUS
<1>2. m[0] = 0
  OBVIOUS
<1>3. Numbers(m, s)'
  BY <1>2 DEF Numbers
<1> QED BY <1>1, <1>3 DEF Wired

-----------------------------------------------------------------------------
(* A side changes its role and its socket where it does not wait.           *)
LEMMA RolesKept ==
    ASSUME Typed, Roles, [Next]_vars
    PROVE  Roles'
<1> USE DEF Roles, Connected, Typed, LinksTyped, Sides, Modes, lists, history
<1>1. CASE StartServer \/ ConnectClient
  BY <1>1 DEF StartServer, ConnectClient
<1>2. CASE Accept \/ ServerConnectTrap \/ ServerGivesUp
  BY <1>2 DEF Accept, ServerConnectTrap, ServerGivesUp
<1>3. CASE GetSnapshot \/ ClientConnectTrap \/ GetSettings \/ ClientGivesUp
  BY <1>3 DEF GetSnapshot, ClientConnectTrap, GetSettings, ClientGivesUp, Gets
<1>4. CASE AnswerPacket \/ SendDelta \/ GetDelta
  BY <1>4 DEF AnswerPacket, SendDelta, GetDelta, Gets
<1>5. ASSUME NEW s \in Sides, Send(s) PROVE Roles'
  <2>1. at[s] = "run" /\ Connected(s)
    BY <1>5 DEF Send, BeginsHook
  <2>2. CASE at' = [at EXCEPT ![s] = "receive"] /\ UNCHANGED <<mode, socket>>
    BY <2>1, <2>2
  <2>3. CASE Disconnect(s, "receive")
    BY <2>1, <2>3 DEF Disconnect
  <2> QED BY <1>5, <2>2, <2>3 DEF Send
<1>6. ASSUME NEW s \in Sides, NoList(s) \/ ReceiveNothing(s) \/ ReceiveSuspend(s) \/ ReceiveHalf(s)
      PROVE  Roles'
  BY <1>6 DEF NoList, ReceiveNothing, ReceiveSuspend, ReceiveHalf
<1>7. ASSUME NEW s \in Sides, Receive(s) PROVE Roles'
  <2>1. CASE at' = [at EXCEPT ![s] = "run"] /\ UNCHANGED <<mode, socket>>
    BY <2>1
  <2>2. CASE Disconnect(s, "run")
    BY <2>2 DEF Disconnect
  <2> QED BY <1>7, <2>1, <2>2 DEF Receive
<1>8. ASSUME NEW s \in Sides, ReceiveFails(s) \/ Leave(s) PROVE Roles'
  BY <1>8 DEF ReceiveFails, Leave, Disconnect
<1>9. ASSUME NEW s \in Sides, \/ SyncTest(s) \/ HandshakeFails(s) \/ OtherTrap(s) \/ Suspend(s)
                              \/ Lose(s) \/ Drift(s) \/ \E e \in Inputs : Record(s, e)
      PROVE  Roles'
  <2>1. CASE SyncTest(s)
    BY <2>1 DEF SyncTest
  <2>2. CASE HandshakeFails(s)
    BY <2>2 DEF HandshakeFails
  <2>3. CASE OtherTrap(s) \/ Suspend(s)
    BY <2>3 DEF OtherTrap, Suspend
  <2>4. CASE Lose(s) \/ Drift(s) \/ \E e \in Inputs : Record(s, e)
    BY <2>4 DEF Lose, Drift, Record, links
  <2> QED BY <1>9, <2>1, <2>2, <2>3, <2>4
<1>10. CASE Break \/ UNCHANGED vars
  BY <1>10 DEF Break, vars
<1> QED BY <1>1, <1>2, <1>3, <1>4, <1>5, <1>6, <1>7, <1>8, <1>9, <1>10
        DEF Next, Handshake, Hook

-----------------------------------------------------------------------------
(* The connection being made.                                               *)

LEMMA HandshakeShakes ==
    ASSUME Typed, Shaking, StartServer \/ ConnectClient \/ Handshake
    PROVE  Shaking'
<1> USE DEF Shaking, Apart, Zero, Connected, Typed, LinksTyped, HistoryTyped, Sides, Modes
<1>1. CASE StartServer
  BY <1>1 DEF StartServer, lists, history
<1>2. CASE ConnectClient
  BY <1>2 DEF ConnectClient, lists
<1>3. CASE Accept
  BY <1>3 DEF Accept, lists, history
<1>4. CASE ServerConnectTrap
  BY <1>4 DEF ServerConnectTrap, lists, history
<1>5. CASE ServerGivesUp
  BY <1>5 DEF ServerGivesUp, lists
<1>6. CASE GetSnapshot
  BY <1>6 DEF GetSnapshot, Gets, lists, history
<1>7. CASE ClientConnectTrap
  BY <1>7 DEF ClientConnectTrap, lists, history
<1>8. CASE GetSettings
  BY <1>8 DEF GetSettings, Gets, lists, history
<1>9. CASE ClientGivesUp
  BY <1>9 DEF ClientGivesUp, Gets, lists
<1>10. CASE AnswerPacket
  BY <1>10 DEF AnswerPacket, Gets, lists, history
<1>11. CASE SendDelta
  BY <1>11 DEF SendDelta, Gets, InitFrameEventList, history
<1>12. CASE GetDelta
  BY <1>12 DEF GetDelta, Gets, InitFrameEventList, history
<1> QED BY <1>1, <1>2, <1>3, <1>4, <1>5, <1>6, <1>7, <1>8, <1>9, <1>10, <1>11, <1>12 DEF Handshake

(* A frame begins and ends only where the connection has been made.         *)
LEMMA HookShakes ==
    ASSUME Typed, Shaking, NEW s \in Sides, Hook(s)
    PROVE  Shaking'
<1> USE DEF Shaking, Apart, Zero, Connected, Typed, LinksTyped, HistoryTyped, Modes
<1>1. CASE Send(s)
  <2>1. at[s] = "run" /\ Connected(s) /\ trap[s] = "none"
    BY <1>1 DEF Send, BeginsHook
  <2>2. at'[s] \in {"receive", "aborted"}
    BY <1>1 DEF Send, Disconnect
  <2>3. /\ trap' = trap /\ (pending' => pending)
        /\ \A p \in Sides \ {s} : /\ at'[p] = at[p] /\ mode'[p] = mode[p]
                                   /\ frame'[p] = frame[p] /\ made'[p] = made[p]
                                   /\ applied'[p] = applied[p]
    BY <1>1 DEF Send, Disconnect
  <2>4. ASSUME NEW p \in Sides
        PROVE  /\ trap'[p] = "connect" => Apart(p)'
               /\ at'[p] \in {"snapshot", "settings", "delay"} => Zero(p)'
               /\ at'[p] \in {"snapshot", "settings"} => ~Connected(p)'
    <3>1. CASE p = s
      BY <2>1, <2>2, <2>3, <3>1
    <3>2. CASE p # s
      BY <2>3, <3>2
    <3> QED BY <3>1, <3>2
  <2>5. pending' => Apart("server")' /\ trap'["server"] # "connect"
    <3>1. CASE s = "server"
      BY <2>1, <2>3, <3>1
    <3>2. CASE s # "server"
      BY <2>3, <3>2 DEF Sides
    <3> QED BY <3>1, <3>2
  <2> QED BY <2>4, <2>5
<1>2. CASE NoList(s)
  BY <1>2 DEF NoList, BeginsHook, lists, history, Sides
<1>3. CASE ReceiveNothing(s)
  BY <1>3 DEF ReceiveNothing, PrepareNextFrame, Sides
<1>4. CASE ReceiveSuspend(s)
  BY <1>4 DEF ReceiveSuspend, Gets, history, Sides
<1>5. CASE Receive(s)
  <2>1. at[s] = "receive" /\ trap'[s] = "sync_test" /\ at'[s] \in {"run", "aborted"}
    BY <1>5 DEF Receive, Gets, PrepareNextFrame, Disconnect
  <2>2. /\ pending' => pending
        /\ \A p \in Sides \ {s} : /\ at'[p] = at[p] /\ mode'[p] = mode[p]
                                   /\ frame'[p] = frame[p] /\ made'[p] = made[p]
                                   /\ applied'[p] = applied[p] /\ trap'[p] = trap[p]
    BY <1>5 DEF Receive, PrepareNextFrame, Disconnect
  <2>3. ASSUME NEW p \in Sides
        PROVE  /\ trap'[p] = "connect" => Apart(p)'
               /\ at'[p] \in {"snapshot", "settings", "delay"} => Zero(p)'
               /\ at'[p] \in {"snapshot", "settings"} => ~Connected(p)'
    <3>1. CASE p = s
      BY <2>1, <2>2, <3>1
    <3>2. CASE p # s
      BY <2>2, <3>2
    <3> QED BY <3>1, <3>2
  <2>4. pending' => Apart("server")' /\ trap'["server"] # "connect"
    <3>1. CASE s = "server"
      BY <2>1, <2>2, <3>1
    <3>2. CASE s # "server"
      BY <2>2, <3>2 DEF Sides
    <3> QED BY <3>1, <3>2
  <2> QED BY <2>3, <2>4
<1>6. CASE ReceiveFails(s)
  BY <1>6 DEF ReceiveFails, Disconnect, lists, history, Sides
<1>7. CASE ReceiveHalf(s)
  BY <1>7 DEF ReceiveHalf, lists, history, Sides
<1> QED BY <1>1, <1>2, <1>3, <1>4, <1>5, <1>6, <1>7 DEF Hook

LEMMA WorldShakes ==
    ASSUME Typed, Shaking,
           \/ Break
           \/ \E s \in Sides : \/ SyncTest(s) \/ HandshakeFails(s) \/ OtherTrap(s)
                              \/ Suspend(s) \/ Leave(s) \/ Lose(s) \/ Drift(s)
                              \/ \E e \in Inputs : Record(s, e)
    PROVE  Shaking'
<1> USE DEF Shaking, Apart, Zero, Connected, Typed, LinksTyped, HistoryTyped, Modes, Sides
<1>1. CASE Break
  BY <1>1 DEF Break, lists
<1>2. ASSUME NEW s \in Sides, SyncTest(s) PROVE Shaking'
  BY <1>2 DEF SyncTest, history
<1>3. ASSUME NEW s \in Sides, HandshakeFails(s) PROVE Shaking'
  BY <1>3 DEF HandshakeFails, lists, history
<1>4. ASSUME NEW s \in Sides, OtherTrap(s) PROVE Shaking'
  BY <1>4 DEF OtherTrap, lists
<1>5. ASSUME NEW s \in Sides, Suspend(s) PROVE Shaking'
  BY <1>5 DEF Suspend
<1>6. ASSUME NEW s \in Sides, Leave(s) PROVE Shaking'
  BY <1>6 DEF Leave, Disconnect, lists
<1>7. ASSUME NEW s \in Sides, Lose(s) PROVE Shaking'
  BY <1>7 DEF Lose, lists, history
<1>8. ASSUME NEW s \in Sides, Drift(s) PROVE Shaking'
  BY <1>8 DEF Drift, links, lists
<1>9. ASSUME NEW s \in Sides, NEW e \in Inputs, Record(s, e) PROVE Shaking'
  <2>1. UNCHANGED <<pending, trap, at, mode, frame, made, applied>>
    BY <1>9 DEF Record, links
  <2> QED BY <2>1
<1> QED BY <1>1, <1>2, <1>3, <1>4, <1>5, <1>6, <1>7, <1>8, <1>9

-----------------------------------------------------------------------------
(* Steps that play nothing.                                                 *)

Linked == \A s \in Sides : Wired(s) /\ Side(s)

Quiet ==
    /\ UNCHANGED <<listed, ring, current, toPlay, full, frame, made, applied, drift>>
    /\ up' => up

LEMMA QuietSide ==
    ASSUME Typed, Typed', Linked, Quiet, NEW s \in Sides,
           Dead(s) => wire'[s] = <<>>,
           Playing(s)' => Playing(s) /\ at'[s] = at[s]
    PROVE  Side(s)'
<1>1. SideKept(s)
  BY DEF SideKept, Quiet, Typed, HistoryTyped
<1> QED BY <1>1, SideKeeps DEF Linked

LEMMA QuietWire ==
    ASSUME Typed, Typed', Linked, Quiet, NEW s \in Sides, wire'[s] = wire[s]
    PROVE  Wired(s)'
<1>1. WireKept(s)
  BY WireFacts DEF WireKept, Quiet
<1> QED BY <1>1, WireKeeps DEF Linked

LEMMA QuietTell ==
    ASSUME Typed, Typed', Linked, Quiet, NEW s \in Sides,
           NEW kind \in Kinds, kind # "frame", wire'[s] = SendTo(s, <<Tell(kind)>>)
    PROVE  Wired(s)' /\ (Dead(s) => wire'[s] = <<>>)
<1> DEFINE ms == <<Tell(kind)>>
<1>1. ms \in Seq(Messages) /\ \A i \in 1 .. Len(ms) : ms[i].kind # "frame"
  BY TellType
<1>2. SameEnds(s)
  BY DEF SameEnds, Quiet
<1>3. wire'[s] = SendTo(s, ms)
  OBVIOUS
<1>4. Dead(s) => wire'[s] = <<>>
  BY DEF Dead, SendTo
<1> HIDE DEF ms
<1>5. Wired(s)'
  BY <1>1, <1>2, <1>3, WireTells DEF Linked, Quiet
<1> QED BY <1>4, <1>5

LEMMA QuietTake ==
    ASSUME Typed, Typed', Linked, Quiet, NEW s \in Sides,
           wire[s] # <<>>, Head(wire[s]).kind # "frame", wire'[s] = Tail(wire[s])
    PROVE  Wired(s)' /\ ~Dead(s)
<1>1. Wired(s)'
  BY WireTakes DEF Quiet, Linked
<1> QED BY <1>1 DEF Dead

LEMMA ConnectLinks ==
    ASSUME Typed, Typed', Linked, StartServer \/ ConnectClient
    PROVE  Linked'
<1>1. CASE StartServer
  <2>1. Quiet /\ wire' = wire
    BY <1>1 DEF StartServer, Quiet, lists, history
  <2>2. ASSUME NEW s \in Sides, Playing(s)'
        PROVE  Playing(s) /\ at'[s] = at[s]
    BY <1>1, <2>2 DEF StartServer, Playing, Connected, Typed, LinksTyped
  <2> QED BY <2>1, <2>2, QuietSide, QuietWire DEF Linked, Dead
<1>2. CASE ConnectClient
  <2>1. ASSUME NEW s \in Sides
        PROVE  Wired(s)' /\ Side(s)'
    <3>1. Other(s) \in Sides
      BY OtherSide
    <3>2. wire'[s] = <<>> /\ applied'[s] = <<>> /\ made'[Other(s)] = <<>>
      BY <1>2, <3>1 DEF ConnectClient
    <3>3. Wired(s)'
      BY <3>2, WireRestarts
    <3>4. ~Playing(s)'
      BY <1>2 DEF ConnectClient, Playing, Connected, Sides, Typed, LinksTyped
    <3> QED BY <3>3, <3>4, Idle
  <2> QED BY <2>1 DEF Linked
<1> QED BY <1>1, <1>2

(* The first frame is begun when nothing has been played.                   *)
LEMMA FirstFrame ==
    ASSUME Typed, Typed', NEW s \in Sides, Zero(s), InitFrameEventList(s),
           UNCHANGED history, at'[s] = "run"
    PROVE  Side(s)'
<1>1. /\ frame'[s] = 0 /\ made'[s] = <<>> /\ applied'[s] = <<>>
      /\ current'[s] = 0 /\ ~full'[s] /\ ring'[s] = [i \in Slots |-> EmptyList]
  BY DEF Zero, history, InitFrameEventList, Typed, HistoryTyped, ListsTyped
<1>2. Counts(s)'
  BY <1>1, SlotFacts DEF Counts
<1>3. ASSUME NEW i \in Slots
      PROVE  InSlot(s, i)'
  <2>1. ring'[s][i].test = NoTest /\ Len(made'[s]) = 0
    BY <1>1 DEF EmptyList
  <2>2. Num(s, i)' \in Int
    BY <1>1, SlotFacts DEF Num
  <2> QED BY <2>1, <2>2 DEF InSlot, Tests
<1>4. Ringed(s)'
  BY <1>1, <1>3, SlotFacts DEF Ringed, Played
<1> QED BY <1>2, <1>4 DEF Side

LEMMA HandshakeLinks ==
    ASSUME Typed, Typed', Shaking, Linked, Handshake
    PROVE  Linked' /\ UNCHANGED <<made, applied>>
<1> USE DEF Playing, Connected, lists, history
<1>1. CASE Accept
  <2>1. Quiet /\ wire' = wire /\ at' = at /\ mode' = mode
    BY <1>1 DEF Accept, Quiet
  <2> QED BY <2>1, QuietSide, QuietWire DEF Linked, Dead, Quiet
<1>2. CASE ServerConnectTrap
  <2> DEFINE ms == <<Tell("snapshot"), Tell("settings"), Tell("packet")>>
  <2>1. Quiet /\ wire'["server"] = wire["server"] /\ wire'["client"] = SendTo("client", ms)
    BY <1>2 DEF ServerConnectTrap, Quiet, Typed, WireTyped, Sides
  <2>2. ms \in Seq(Messages) /\ \A i \in 1 .. Len(ms) : ms[i].kind # "frame"
    BY TellType DEF Kinds
  <2>3. Dead("client") => wire'["client"] = <<>>
    BY <2>1 DEF Dead, SendTo
  <2> HIDE DEF ms
  <2>4. Wired("client")'
    <3>1. SameEnds("client")
      BY <2>1 DEF SameEnds, Quiet
    <3> QED BY <2>1, <2>2, <3>1, WireTells DEF Linked, Quiet, Sides
  <2>5. at'["server"] = "delay" /\ at'["client"] = at["client"] /\ mode'["client"] = mode["client"]
    BY <1>2 DEF ServerConnectTrap, Typed, LinksTyped, Sides
  <2>6. Side("client")' /\ Side("server")'
    BY <2>1, <2>3, <2>5, QuietSide DEF Sides, Dead
  <2>7. Wired("server")'
    BY <2>1, QuietWire DEF Sides
  <2> QED BY <2>1, <2>4, <2>6, <2>7 DEF Linked, Sides, Quiet
<1>3. CASE ServerGivesUp
  <2>1. Quiet /\ wire' = wire /\ at' = at /\ mode' = mode
    BY <1>3 DEF ServerGivesUp, Quiet
  <2> QED BY <2>1, QuietSide, QuietWire DEF Linked, Dead, Quiet
<1>4. ASSUME NEW s \in Sides, NEW p \in Sides, p # s, Quiet, mode' = mode \/ at'[s] = "delay",
             wire'[p] = wire[p], at'[p] = at[p], mode'[p] = mode[p],
             wire[s] # <<>>, Head(wire[s]).kind # "frame", wire'[s] = Tail(wire[s]),
             Playing(s)' => Playing(s) /\ at'[s] = at[s]
      PROVE  Linked' /\ UNCHANGED <<made, applied>>
  <2>1. Wired(s)' /\ ~Dead(s)
    BY <1>4, QuietTake
  <2>2. Side(s)' /\ Side(p)'
    BY <1>4, <2>1, QuietSide DEF Dead
  <2>3. Wired(p)'
    BY <1>4, QuietWire
  <2> QED BY <1>4, <2>1, <2>2, <2>3 DEF Linked, Sides, Quiet
<1>5. CASE GetSnapshot
  <2>1. Quiet /\ ~Connected("client")
    BY <1>5 DEF GetSnapshot, Gets, Quiet, Shaking, Sides
  <2> QED BY <1>4, <1>5, <2>1 DEF GetSnapshot, Gets, Sides, Typed, LinksTyped, WireTyped
<1>6. CASE ClientConnectTrap
  <2>1. Quiet /\ wire' = wire /\ mode' = mode
    BY <1>6 DEF ClientConnectTrap, Quiet
  <2>2. at'["server"] = at["server"] /\ at'["client"] = "settings"
    BY <1>6 DEF ClientConnectTrap, Typed, LinksTyped, Sides
  <2> QED BY <2>1, <2>2, QuietSide, QuietWire DEF Linked, Dead, Quiet, Sides
<1>7. CASE GetSettings
  <2>1. Quiet
    BY <1>7 DEF GetSettings, Quiet
  <2> QED BY <1>4, <1>7, <2>1 DEF GetSettings, Gets, Sides, Typed, LinksTyped, WireTyped
<1>8. CASE ClientGivesUp
  <2>1. Quiet /\ ~Connected("client")
    BY <1>8 DEF ClientGivesUp, Gets, Quiet, Shaking, Sides
  <2> QED BY <1>4, <1>8, <2>1 DEF ClientGivesUp, Gets, Sides, Typed, LinksTyped, WireTyped
<1>9. CASE AnswerPacket
  <2>1. Quiet /\ at' = at /\ mode' = mode
    BY <1>9 DEF AnswerPacket, Quiet
  <2>2. /\ wire["client"] # <<>> /\ Head(wire["client"]).kind # "frame"
        /\ wire'["client"] = Tail(wire["client"])
        /\ wire'["server"] = SendTo("server", <<Tell("packet")>>)
    BY <1>9 DEF AnswerPacket, Gets, Typed, WireTyped, Sides
  <2>3. Wired("client")' /\ ~Dead("client")
    BY <2>1, <2>2, QuietTake DEF Sides
  <2>4. Wired("server")' /\ (Dead("server") => wire'["server"] = <<>>)
    BY <2>1, <2>2, QuietTell DEF Sides, Kinds
  <2>5. Side("server")' /\ Side("client")'
    BY <2>1, <2>3, <2>4, QuietSide DEF Sides
  <2> QED BY <2>1, <2>3, <2>4, <2>5 DEF Linked, Sides, Quiet
<1>10. CASE SendDelta
  <2>1. /\ UNCHANGED <<frame, made, applied, drift>> /\ up' = up /\ mode' = mode
        /\ wire["server"] # <<>> /\ Head(wire["server"]).kind # "frame"
        /\ wire'["server"] = Tail(wire["server"])
        /\ wire'["client"] = SendTo("client", <<Tell("delta")>>)
        /\ at'["client"] = at["client"] /\ at'["server"] = "run"
    BY <1>10 DEF SendDelta, Gets, Typed, WireTyped, LinksTyped, Sides
  <2>2. Wired("server")'
    BY <2>1, WireTakes DEF Linked, Sides
  <2>3. Wired("client")'
    <3> DEFINE ms == <<Tell("delta")>>
    <3>1. ms \in Seq(Messages) /\ \A i \in 1 .. Len(ms) : ms[i].kind # "frame"
      BY TellType DEF Kinds
    <3>2. SameEnds("client") /\ wire'["client"] = SendTo("client", ms)
      BY <2>1 DEF SameEnds
    <3> HIDE DEF ms
    <3> QED BY <2>1, <3>1, <3>2, WireTells DEF Linked, Sides
  <2>4. Side("client")'
    <3>1. SideKept("client")
      BY <1>10, <2>1 DEF SideKept, SendDelta, InitFrameEventList, Typed, ListsTyped, HistoryTyped,
                         Sides, Dead, SendTo
    <3> QED BY <3>1, SideKeeps DEF Linked, Sides
  <2>5. Side("server")'
    <3>1. Zero("server")
      BY <1>10 DEF SendDelta, Gets, Shaking, Sides
    <3> QED BY <1>10, <2>1, <3>1, FirstFrame DEF SendDelta, Sides
  <2> QED BY <2>1, <2>2, <2>3, <2>4, <2>5 DEF Linked, Sides
<1>11. CASE GetDelta
  <2>1. /\ UNCHANGED <<frame, made, applied, drift>> /\ up' = up /\ mode' = mode
        /\ wire["client"] # <<>> /\ Head(wire["client"]).kind # "frame"
        /\ wire'["client"] = Tail(wire["client"]) /\ wire'["server"] = wire["server"]
        /\ at'["server"] = at["server"] /\ at'["client"] = "run"
    BY <1>11 DEF GetDelta, Gets, Typed, WireTyped, LinksTyped, Sides
  <2>2. Wired("client")'
    BY <2>1, WireTakes DEF Linked, Sides
  <2>3. Wired("server")'
    <3>1. WireKept("server")
      BY <2>1, WireFacts DEF WireKept, Sides
    <3> QED BY <3>1, WireKeeps DEF Linked, Sides
  <2>4. Side("server")'
    <3>1. SideKept("server")
      BY <1>11, <2>1 DEF SideKept, GetDelta, InitFrameEventList, Typed, ListsTyped, HistoryTyped,
                         Sides, Dead
    <3> QED BY <3>1, SideKeeps DEF Linked, Sides
  <2>5. Side("client")'
    <3>1. Zero("client")
      BY <1>11 DEF GetDelta, Gets, Shaking, Sides
    <3> QED BY <1>11, <2>1, <3>1, FirstFrame DEF GetDelta, Sides
  <2> QED BY <2>1, <2>2, <2>3, <2>4, <2>5 DEF Linked, Sides
<1> QED BY <1>1, <1>2, <1>3, <1>5, <1>6, <1>7, <1>8, <1>9, <1>10, <1>11 DEF Handshake

LEMMA QuietStep ==
    ASSUME Typed, Typed', Linked, Quiet,
           \A s \in Sides : wire'[s] = wire[s] /\ (Playing(s)' => Playing(s) /\ at'[s] = at[s])
    PROVE  Linked' /\ UNCHANGED <<made, applied>>
BY QuietSide, QuietWire DEF Linked, Dead, Quiet

(* What is recorded now is part of a frame that is not complete.            *)
LEMMA RingWrites ==
    ASSUME Typed, Typed', NEW s \in Sides, Side(s), at[s] = "run",
           UNCHANGED <<mode, at, wire, up, full, current, toPlay, frame, made, applied, drift>>,
           ring'[s] = [ring[s] EXCEPT ![current[s]] = ring'[s][current[s]]],
           \/ ring'[s][current[s]].test = ring[s][current[s]].test
           \/ ring'[s][current[s]].test = [played |-> Len(applied[s]), drift |-> drift[s]]
    PROVE  Side(s)'
<1> SUFFICES ASSUME Playing(s)'
             PROVE  Counts(s)' /\ (Dead(s)' \/ Ringed(s)')
  BY DEF Side
<1>1. Counts(s) /\ (Dead(s) \/ Ringed(s))
  BY DEF Side, Playing, Connected
<1>2. Counts(s)'
  BY <1>1 DEF Counts
<1>3. Dead(s) => Dead(s)'
  BY DEF Dead
<1>4. ASSUME Ringed(s)
      PROVE  Ringed(s)'
  <2>1. ASSUME NEW i \in Slots
        PROVE  InSlot(s, i)'
    <3> PICK k : k = Num(s, i)
      OBVIOUS
    <3>1. Num(s, i)' = k /\ k \in Int
      BY SlotFacts DEF Num, Typed, HistoryTyped, ListsTyped
    <3>2. Tests(s, k)' = Tests(s, k)
      BY DEF Tests
    <3>3. /\ 1 <= k /\ k <= Len(made[s]) => ring[s][i].inputs = made[s][k]
          /\ 1 <= k => ring[s][i].test \in Tests(s, k)
      BY <1>4 DEF Ringed, InSlot
    <3>4. CASE i # current[s]
      <4>1. ring'[s][i] = ring[s][i]
        BY <3>4 DEF Typed, ListsTyped
      <4> QED BY <3>1, <3>2, <3>3, <4>1 DEF InSlot
    <3>5. CASE i = current[s]
      <4>1. k = frame[s] + 1 /\ frame[s] \in Nat
        BY <3>5, SlotFacts DEF Num, Typed, HistoryTyped, ListsTyped
      <4>2. Len(made[s]) = frame[s] /\ Len(applied[s]) = Played(k) /\ drift[s] \in 0 .. drift[s]
        BY <1>4, <4>1 DEF Ringed, Typed, HistoryTyped
      <4>3. ring'[s][i].test \in Tests(s, k)
        <5>1. CASE ring'[s][current[s]].test = ring[s][current[s]].test
          BY <3>3, <3>5, <4>1, <5>1
        <5>2. CASE ring'[s][current[s]].test = [played |-> Len(applied[s]), drift |-> drift[s]]
          <6>1. ring'[s][i].test = [played |-> Played(k), drift |-> drift[s]]
            BY <3>5, <4>2, <5>2
          <6> QED BY <4>2, <6>1 DEF Tests
        <5> QED BY <5>1, <5>2
      <4>4. ~(k <= Len(made'[s]))
        BY <4>1, <4>2
      <4> QED BY <3>1, <3>2, <4>3, <4>4 DEF InSlot
    <3> QED BY <3>4, <3>5
  <2> QED BY <1>4, <2>1 DEF Ringed
<1> QED BY <1>1, <1>2, <1>3, <1>4

LEMMA WorldLinks ==
    ASSUME Typed, Typed', Shaking, Linked,
           \/ Break
           \/ \E s \in Sides : \/ SyncTest(s) \/ HandshakeFails(s) \/ OtherTrap(s)
                              \/ Suspend(s) \/ Leave(s) \/ Lose(s) \/ Drift(s)
                              \/ \E e \in Inputs : Record(s, e)
    PROVE  Linked' /\ UNCHANGED <<made, applied>>
<1> USE DEF lists, history, links
<1>1. CASE Break
  <2>1. Quiet /\ UNCHANGED <<at, mode, wire>>
    BY <1>1 DEF Break, Quiet
  <2> QED BY <2>1, QuietStep DEF Playing, Connected
<1>2. ASSUME NEW s \in Sides, OtherTrap(s)
      PROVE  Linked' /\ UNCHANGED <<made, applied>>
  <2>1. Quiet /\ UNCHANGED <<at, mode, wire>>
    BY <1>2 DEF OtherTrap, Quiet
  <2> QED BY <2>1, QuietStep DEF Playing, Connected
<1>3. ASSUME NEW s \in Sides, Leave(s)
      PROVE  Linked' /\ UNCHANGED <<made, applied>>
  <2>1. Quiet /\ wire' = wire
    BY <1>3 DEF Leave, Disconnect, Quiet, Typed, LinksTyped
  <2>2. ~Playing(s)'
    BY <1>3 DEF Leave, Disconnect, Playing, Connected, Typed, LinksTyped
  <2>3. \A p \in Sides \ {s} : at'[p] = at[p] /\ mode'[p] = mode[p]
    BY <1>3 DEF Leave, Disconnect, Typed, LinksTyped
  <2> QED BY <2>1, <2>2, <2>3, QuietStep DEF Playing, Connected
<1>4. ASSUME NEW s \in Sides, Suspend(s)
      PROVE  Linked' /\ UNCHANGED <<made, applied>>
  <2> DEFINE o == Other(s)
  <2>1. o \in Sides /\ o # s /\ Sides = {s, o}
    BY OtherSide
  <2>2. Quiet /\ UNCHANGED <<at, mode>>
    BY <1>4 DEF Suspend, Quiet
  <2>3. wire'[s] = wire[s] /\ wire'[o] = SendTo(o, <<Tell("suspend")>>)
    BY <1>4, <2>1 DEF Suspend, Typed, WireTyped
  <2>4. Wired(o)' /\ (Dead(o) => wire'[o] = <<>>)
    BY <2>1, <2>2, <2>3, QuietTell DEF Kinds
  <2>5. Wired(s)'
    BY <2>2, <2>3, QuietWire
  <2>6. Side(s)' /\ Side(o)'
    BY <2>1, <2>2, <2>3, <2>4, QuietSide DEF Dead, Playing, Connected
  <2> QED BY <2>1, <2>2, <2>4, <2>5, <2>6 DEF Linked, Quiet
<1>5. ASSUME NEW s \in Sides, Lose(s)
      PROVE  Linked' /\ UNCHANGED <<made, applied>>
  <2> DEFINE o == Other(s)
  <2>1. o \in Sides /\ o # s /\ Sides = {s, o}
    BY OtherSide
  <2>2. Quiet /\ UNCHANGED <<at, mode>> /\ ~up'
    BY <1>5 DEF Lose, Quiet
  <2>3. wire'[s] = <<>> /\ wire'[o] = wire[o]
    BY <1>5, <2>1 DEF Lose, Typed, WireTyped
  <2>4. Wired(s)'
    BY <2>2, <2>3, WireLoses DEF SameEnds, Quiet, Linked
  <2>5. Wired(o)'
    BY <2>1, <2>2, <2>3, QuietWire
  <2>6. Side(s)' /\ Side(o)'
    BY <2>1, <2>2, <2>3, QuietSide DEF Dead, Playing, Connected
  <2> QED BY <2>1, <2>2, <2>4, <2>5, <2>6 DEF Linked, Quiet
<1>6. ASSUME NEW s \in Sides, Drift(s)
      PROVE  Linked' /\ UNCHANGED <<made, applied>>
  <2>1. \A p \in Sides : drift'[p] >= drift[p]
    BY <1>6 DEF Drift, Typed, HistoryTyped
  <2>2. ASSUME NEW p \in Sides
        PROVE  Wired(p)' /\ Side(p)'
    <3>1. WireKept(p)
      BY <1>6, <2>1, WireFacts DEF Drift, WireKept
    <3>2. SideKept(p)
      BY <1>6, <2>1 DEF Drift, SideKept, Dead, Playing, Connected
    <3> QED BY <3>1, <3>2, SideKeeps, WireKeeps DEF Linked
  <2> QED BY <1>6, <2>2 DEF Linked, Drift
<1>7. ASSUME NEW s \in Sides, HandshakeFails(s)
      PROVE  Linked' /\ UNCHANGED <<made, applied>>
  <2>1. Quiet /\ UNCHANGED <<mode, wire>>
    BY <1>7 DEF HandshakeFails, Quiet
  <2>2. ASSUME NEW p \in Sides, p # s
        PROVE  Side(p)'
    <3>1. at'[p] = at[p] /\ mode'[p] = mode[p]
      BY <1>7, <2>2 DEF HandshakeFails, Typed, LinksTyped
    <3> QED BY <2>1, <3>1, QuietSide DEF Dead, Playing, Connected
  <2>3. Side(s)'
    <3>1. Zero(s) /\ Dead(s)'
      BY <1>7 DEF HandshakeFails, Shaking, Dead
    <3>2. Counts(s)'
      <4>1. frame'[s] = 0 /\ made'[s] = <<>> /\ applied'[s] = <<>> /\ current'[s] \in Nat
        BY <2>1, <3>1, SlotFacts DEF Zero, Quiet, Typed, ListsTyped
      <4>2. at'[s] = "run"
        BY <1>7 DEF HandshakeFails, Typed, LinksTyped
      <4> QED BY <4>1, <4>2, SlotFacts DEF Counts
    <3> QED BY <3>1, <3>2 DEF Side
  <2> QED BY <2>1, <2>2, <2>3, QuietWire DEF Linked, Quiet
<1>8. ASSUME NEW s \in Sides, SyncTest(s) \/ \E e \in Inputs : Record(s, e)
      PROVE  Linked' /\ UNCHANGED <<made, applied>>
  <2>1. UNCHANGED <<mode, at, wire, up, full, current, toPlay, frame, made, applied, drift>>
    BY <1>8 DEF SyncTest, Record
  <2>2. /\ at[s] = "run" /\ \A p \in Sides \ {s} : ring'[p] = ring[p]
        /\ ring'[s] = [ring[s] EXCEPT ![current[s]] = ring'[s][current[s]]]
        /\ \/ ring'[s][current[s]].test = ring[s][current[s]].test
           \/ ring'[s][current[s]].test = [played |-> Len(applied[s]), drift |-> drift[s]]
    <3>1. current[s] \in Slots /\ ring[s][current[s]] \in Lists
      BY DEF Typed, ListsTyped
    <3>2. CASE SyncTest(s)
      BY <3>1, <3>2 DEF SyncTest, Typed, ListsTyped, Lists
    <3>3. CASE \E e \in Inputs : Record(s, e)
      BY <3>1, <3>3 DEF Record, Typed, ListsTyped, Lists
    <3> QED BY <1>8, <3>2, <3>3
  <2>3. Side(s)'
    BY <2>1, <2>2, RingWrites DEF Linked
  <2>4. ASSUME NEW p \in Sides, p # s
        PROVE  Side(p)'
    <3>1. SideKept(p)
      BY <2>1, <2>2, <2>4 DEF SideKept, Dead, Playing, Connected, Typed, HistoryTyped
    <3> QED BY <3>1, SideKeeps DEF Linked
  <2>5. ASSUME NEW p \in Sides
        PROVE  Wired(p)'
    <3>1. WireKept(p)
      BY <2>1, WireFacts DEF WireKept
    <3> QED BY <3>1, WireKeeps DEF Linked
  <2> QED BY <2>1, <2>3, <2>4, <2>5 DEF Linked
<1> QED BY <1>1, <1>2, <1>3, <1>4, <1>5, <1>6, <1>7, <1>8

-----------------------------------------------------------------------------
(* The hook of a frame.                                                     *)

LEMMA SlotTypes ==
    ASSUME Typed, NEW s \in Sides
    PROVE  /\ frame[s] \in Nat /\ Len(made[s]) \in Nat /\ Len(applied[s]) \in Nat
           /\ current[s] \in Nat /\ current[s] < FrameDelta
           /\ FrameDelta \in Nat /\ FrameDelta >= 1
BY SlotFacts DEF Typed, HistoryTyped, ListsTyped

(* A list could not be sent before: it is sent again and nothing is new.    *)
LEMMA SendAgain ==
    ASSUME Typed, Typed', Linked, NEW s \in Sides, Send(s), Len(made[s]) > frame[s]
    PROVE  Linked' /\ UNCHANGED <<made, applied>>
<1> DEFINE o == Other(s)
<1>1. o \in Sides /\ o # s /\ Sides = {s, o}
  BY OtherSide
<1>2. at[s] = "run" /\ Connected(s)
  BY DEF Send, BeginsHook
<1>3. Counts(s) /\ (Dead(s) \/ Ringed(s))
  BY <1>2 DEF Linked, Side, Playing
<1>4. Len(made[s]) = frame[s] + 1 /\ ~up /\ Dead(s)
  BY <1>2, <1>3, SlotTypes DEF Counts, Ringed
<1>5. wire' = wire /\ ~up' /\ UNCHANGED <<made, applied>>
  <2>1. made' = made
    <3>1. made' = [made EXCEPT ![s] = made[s]]
      BY DEF Send
    <3> QED BY <3>1 DEF Typed, HistoryTyped
  <2>2. wire' = wire
    <3>1. wire' = wire \/ wire' = [wire EXCEPT ![o] = wire[o]]
      BY <1>4 DEF Send, SendTo
    <3> QED BY <1>1, <3>1 DEF Typed, WireTyped
  <2>3. ~up' /\ applied' = applied
    BY <1>4 DEF Send, Disconnect, Typed, LinksTyped
  <2> QED BY <2>1, <2>2, <2>3
<1>6. ASSUME NEW p \in Sides
      PROVE  Wired(p)'
  <2>1. WireKept(p)
    BY <1>5, WireFacts DEF WireKept, Send
  <2> QED BY <2>1, WireKeeps DEF Linked
<1>7. Side(o)'
  <2>1. SideKept(o)
    BY <1>1, <1>5 DEF SideKept, Send, Disconnect, Dead, Playing, Connected, Typed, LinksTyped,
                      ListsTyped, HistoryTyped
  <2> QED BY <1>1, <2>1, SideKeeps DEF Linked
<1>8. Side(s)'
  <2>1. Dead(s)'
    BY <1>4, <1>5 DEF Dead
  <2>2. ASSUME Playing(s)'
        PROVE  Counts(s)'
    <3>1. at'[s] # "run" /\ (~full'[s] => ~full[s] /\ current[s] # FrameDelta - 1)
      BY DEF Send, Disconnect, Typed, LinksTyped, ListsTyped
    <3>2. frame'[s] = frame[s] /\ current'[s] = current[s] /\ made'[s] = made[s]
      BY <1>5 DEF Send
    <3> QED BY <1>3, <1>4, <3>1, <3>2, SlotTypes DEF Counts
  <2> QED BY <2>1, <2>2 DEF Side
<1> QED BY <1>1, <1>5, <1>6, <1>7, <1>8 DEF Linked

(* A new list is sent: the player has played another frame.                 *)
LEMMA SendNew ==
    ASSUME Typed, Typed', Linked, NEW s \in Sides, Send(s), ~(Len(made[s]) > frame[s])
    PROVE  Linked' /\ Promise!Make(s)
<1> DEFINE o == Other(s)
<1> PICK list : list = ring[s][current[s]]
  OBVIOUS
<1>1. o \in Sides /\ o # s /\ Sides = {s, o} /\ Other(o) = s
  BY OtherSide
<1>2. at[s] = "run" /\ Connected(s)
  BY DEF Send, BeginsHook
<1>3. Counts(s) /\ (Dead(s) \/ Ringed(s))
  BY <1>2 DEF Linked, Side, Playing
<1>4. Len(made[s]) = frame[s] /\ frame[s] < Len(applied[s]) + FrameDelta
  BY <1>2, <1>3, SlotTypes DEF Counts
<1>5. list \in Lists /\ list.inputs \in Seq(Inputs)
  BY FrameMessage
<1>6. made' = [made EXCEPT ![s] = Append(@, list.inputs)]
  BY <1>4 DEF Send
<1>7. /\ made'[s] = Append(made[s], list.inputs) /\ made'[o] = made[o]
      /\ Len(made'[s]) = frame[s] + 1 /\ made'[s][frame[s] + 1] = list.inputs
      /\ \A i \in 1 .. frame[s] : made'[s][i] = made[s][i]
      /\ made[s] \in Seq(Seq(Inputs))
  BY <1>1, <1>4, <1>5, <1>6, SMTT(30) DEF Typed, HistoryTyped
<1>8. Promise!Make(s)
  BY <1>4, <1>5, <1>6, <1>7 DEF Promise!Make, Send
<1>9. /\ wire'[s] = wire[s] /\ (up' => up)
      /\ \/ wire'[o] = SendTo(o, <<Message("frame", list)>>)
         \/ wire'[o] = wire[o] /\ ~up
  BY <1>1 DEF Send, Disconnect, Typed, WireTyped, LinksTyped
<1>10. /\ frame'[s] = frame[s] /\ applied' = applied /\ drift' = drift
       /\ current'[s] = current[s] /\ toPlay'[s] = toPlay[s] /\ ring'[s] = ring[s]
       /\ (full'[s] <=> full[s] \/ current[s] = FrameDelta - 1) /\ at'[s] # "run"
  BY DEF Send, Disconnect, Typed, LinksTyped, ListsTyped, HistoryTyped
<1>11. Wired(s)'
  <2>1. WireKept(s)
    BY <1>1, <1>7, <1>9, <1>10, WireFacts DEF WireKept
  <2> QED BY <2>1, WireKeeps DEF Linked
<1>12. Wired(o)'
  <2>1. CASE wire'[o] = wire[o] /\ ~up
    <3>1. Len(made'[s]) = Len(made[s]) + 1
          /\ \A i \in 1 .. Len(made[s]) : made'[s][i] = made[s][i]
      BY <1>4, <1>7
    <3>2. drift[s] \in Nat /\ Len(made[s]) \in Nat
      BY DEF Typed, HistoryTyped
    <3>3. WireKept(o)
      BY <1>1, <1>9, <1>10, <2>1, <3>1, <3>2 DEF WireKept
    <3> QED BY <1>1, <3>3, WireKeeps DEF Linked
  <2>2. CASE wire'[o] = SendTo(o, <<Message("frame", list)>>) /\ up
    <3>1. Ringed(s)
      BY <1>3, <2>2 DEF Dead
    <3>2. Num(s, current[s]) = frame[s] + 1
      BY SlotTypes DEF Num
    <3>3. current[s] \in Slots
      BY DEF Typed, ListsTyped
    <3>4. list.test \in Tests(s, Len(made[s]) + 1)
      BY <1>4, <3>1, <3>2, <3>3, SlotTypes DEF Ringed, InSlot
    <3>5. made'[Other(o)] = Append(made[Other(o)], list.inputs)
          /\ list.test \in Tests(Other(o), Len(made[Other(o)]) + 1)
      BY <1>1, <1>7, <3>4
    <3>6. applied'[o] = applied[o] /\ drift'[Other(o)] = drift[Other(o)] /\ Wired(o)
      BY <1>1, <1>10 DEF Linked
    <3> QED BY <1>1, <1>5, <1>9, <2>2, <3>5, <3>6, WireSends
  <2> QED BY <1>9, <2>1, <2>2 DEF SendTo
<1>13. Side(o)'
  <2>1. Dead(o) => wire'[o] = <<>>
    BY <1>9 DEF Dead, SendTo
  <2>2. SideKept(o)
    BY <1>1, <1>7, <1>9, <1>10, <2>1 DEF SideKept, Send, Disconnect, Playing, Connected, Typed,
                                        LinksTyped, ListsTyped, HistoryTyped
  <2> QED BY <1>1, <2>2, SideKeeps DEF Linked
<1>14. Side(s)'
  <2>1. Counts(s)'
    BY <1>3, <1>7, <1>10, SlotTypes DEF Counts
  <2>2. Dead(s) => Dead(s)'
    BY <1>9 DEF Dead
  <2>3. ASSUME Ringed(s)
        PROVE  Ringed(s)'
    <3>1. ASSUME NEW i \in Slots
          PROVE  InSlot(s, i)'
      <4> PICK k : k = Num(s, i)
        OBVIOUS
      <4>1. Num(s, i)' = k /\ k \in Int
        BY <1>10, SlotFacts, SlotTypes DEF Num
      <4>2. Tests(s, k)' = Tests(s, k)
        BY <1>10 DEF Tests
      <4>3. /\ 1 <= k /\ k <= frame[s] => ring[s][i].inputs = made[s][k]
            /\ 1 <= k => ring[s][i].test \in Tests(s, k)
        BY <1>4, <2>3 DEF Ringed, InSlot
      <4>4. k = frame[s] + 1 => i = current[s]
        BY SlotFacts, SlotTypes DEF Num
      <4>5. 1 <= k /\ k <= frame[s] + 1 => ring[s][i].inputs = made'[s][k]
        BY <1>7, <4>1, <4>3, <4>4, SlotTypes
      <4> QED BY <1>7, <1>10, <4>1, <4>2, <4>3, <4>5 DEF InSlot
    <3>2. full'[s] <=> Len(made'[s]) >= FrameDelta
      BY <1>4, <1>7, <1>10, <2>3, SlotTypes DEF Ringed
    <3> QED BY <1>10, <2>3, <3>1, <3>2 DEF Ringed
  <2> QED BY <1>3, <2>1, <2>2, <2>3 DEF Side
<1> QED BY <1>1, <1>8, <1>11, <1>12, <1>13, <1>14 DEF Linked

\* The other slots keep their numbers when the next frame is begun.
LEMMA NumberStays ==
    ASSUME Typed, NEW s \in Sides, NEW i \in Slots, NEW next \in Slots, i # next,
           next = IF current[s] = FrameDelta - 1 THEN 0 ELSE current[s] + 1,
           frame'[s] = frame[s] + 1, current'[s] = next
    PROVE  Num(s, i)' = Num(s, i)
<1>1. /\ frame[s] \in Nat /\ current[s] \in Nat /\ current[s] < FrameDelta
      /\ i \in Nat /\ i < FrameDelta /\ next \in Nat /\ FrameDelta \in Nat
  BY SlotFacts, SlotTypes
<1>2. CASE current[s] = FrameDelta - 1
  BY <1>1, <1>2 DEF Num
<1>3. CASE current[s] # FrameDelta - 1
  BY <1>1, <1>3 DEF Num
<1> QED BY <1>2, <1>3

\* The slot to play is that of the frame FrameDelta - 1 frames ago.
LEMMA NumberToPlay ==
    ASSUME Typed, NEW s \in Sides, toPlay[s] = current[s] + 1
    PROVE  Num(s, toPlay[s]) = frame[s] + 2 - FrameDelta
<1>1. frame[s] \in Nat /\ current[s] \in Nat /\ FrameDelta \in Nat
  BY SlotTypes
<1> QED BY <1>1 DEF Num

\* The ring after the list of the frame has been put in its slot.
LEMMA NextSlot ==
    ASSUME Typed, Typed', NEW s \in Sides, PrepareNextFrame(s), Ringed(s),
           Len(made[s]) = frame[s] + 1, Len(applied'[s]) = Played(frame[s] + 2),
           UNCHANGED <<made, full, drift>>
    PROVE  Ringed(s)'
<1>0. PICK next : next = (current[s] + 1) % FrameDelta
  OBVIOUS
<1>1. next \in Slots /\ next = IF current[s] = FrameDelta - 1 THEN 0 ELSE current[s] + 1
  BY <1>0, SlotAfter DEF Typed, ListsTyped
<1>2. /\ frame'[s] = frame[s] + 1 /\ current'[s] = next
      /\ toPlay'[s] = (next + 1) % FrameDelta
      /\ ring'[s] = [ring[s] EXCEPT ![next] = EmptyList]
  BY <1>0 DEF PrepareNextFrame, Typed, HistoryTyped, ListsTyped
<1>3. toPlay'[s] = IF next = FrameDelta - 1 THEN 0 ELSE next + 1
  BY <1>1, <1>2, SlotAfter
<1>4. ASSUME NEW i \in Slots
      PROVE  InSlot(s, i)'
  <2> PICK k : k = Num(s, i)
    OBVIOUS
  <2>0. i \in Nat /\ i < FrameDelta /\ next \in Nat /\ next < FrameDelta
    BY <1>1, SlotFacts
  <2>1. /\ k \in Int
        /\ 1 <= k /\ k <= Len(made[s]) => ring[s][i].inputs = made[s][k]
        /\ 1 <= k => ring[s][i].test \in Tests(s, k)
    <3>1. Num(s, i) \in Int
      <4>1. current[s] \in Nat /\ frame[s] \in Nat /\ FrameDelta \in Nat
        BY SlotTypes
      <4> QED BY <2>0, <4>1 DEF Num
    <3>2. InSlot(s, i)
      BY DEF Ringed
    <3> QED BY <3>1, <3>2 DEF InSlot
  <2>2. CASE i # next
    <3>1. Num(s, i)' = k
      BY <1>1, <1>2, <2>2, NumberStays
    <3>2. ring'[s][i] = ring[s][i]
      BY <1>2, <2>2 DEF Typed, ListsTyped
    <3>3. Tests(s, k)' = Tests(s, k)
      BY DEF Tests
    <3> QED BY <2>1, <3>1, <3>2, <3>3 DEF InSlot
  <2>3. CASE i = next
    <3>1. Num(s, i)' = frame[s] + 2
      BY <1>2, <2>0, <2>3, SlotTypes DEF Num
    <3>2. ring'[s][i].test = NoTest
      BY <1>1, <1>2, <2>3 DEF EmptyList, Typed, ListsTyped
    <3>3. ~(Num(s, i)' <= Len(made'[s]))
      BY <3>1, SlotTypes
    <3> QED BY <3>2, <3>3 DEF InSlot, Tests
  <2> QED BY <2>2, <2>3
<1>5. ~full'[s] => current'[s] = frame'[s]
  <2>1. ~full[s] => current[s] = frame[s] /\ current[s] # FrameDelta - 1
    BY SlotTypes DEF Ringed
  <2> QED BY <1>1, <1>2, <2>1, SlotTypes
<1>6. Len(applied'[s]) = Played(frame'[s] + 1)
  BY <1>2, SlotTypes
<1> QED BY <1>2, <1>3, <1>4, <1>5, <1>6, SlotTypes DEF Ringed

LEMMA NothingToPlay ==
    ASSUME Typed, Typed', Linked, NEW s \in Sides, ReceiveNothing(s)
    PROVE  Linked' /\ UNCHANGED <<made, applied>>
<1>1. at[s] = "receive" /\ ~full[s] /\ PrepareNextFrame(s)
  BY DEF ReceiveNothing
<1>2. UNCHANGED <<made, applied, full, drift, wire, up, mode>> /\ at'[s] = "run"
  BY DEF ReceiveNothing, Typed, LinksTyped
<1>3. Counts(s) /\ (Dead(s) \/ Ringed(s))
  BY <1>1 DEF Linked, Side, Playing
<1>4. /\ Len(made[s]) = frame[s] + 1 /\ frame[s] <= current[s] /\ current[s] < FrameDelta - 1
  BY <1>1, <1>3 DEF Counts
<1>5. frame'[s] = frame[s] + 1 /\ current'[s] = current[s] + 1
  <2>1. current'[s] = (current[s] + 1) % FrameDelta /\ current[s] \in Slots
    BY <1>1 DEF PrepareNextFrame, Typed, ListsTyped
  <2>2. current'[s] = current[s] + 1
    <3>1. current[s] # FrameDelta - 1
      BY <1>4, SlotTypes
    <3> QED BY <2>1, <3>1, SlotAfter
  <2> QED BY <1>1, <2>2 DEF PrepareNextFrame, Typed, HistoryTyped
<1>6. Counts(s)'
  BY <1>1, <1>2, <1>4, <1>5, SlotTypes DEF Counts
<1>7. Dead(s) => Dead(s)'
  BY <1>2 DEF Dead
<1>8. Ringed(s) => Ringed(s)'
  <2>1. Ringed(s) => Len(applied'[s]) = Played(frame[s] + 2)
    BY <1>2, <1>4, SlotTypes DEF Ringed, Played
  <2> QED BY <1>1, <1>2, <1>4, <2>1, NextSlot
<1>9. Side(s)'
  BY <1>3, <1>6, <1>7, <1>8 DEF Side
<1>10. ASSUME NEW p \in Sides
       PROVE  Wired(p)' /\ (p # s => Side(p)')
  <2>1. WireKept(p)
    BY <1>2, WireFacts DEF WireKept
  <2>2. ASSUME p # s PROVE SideKept(p)
    BY <1>1, <1>2, <2>2 DEF ReceiveNothing, PrepareNextFrame, SideKept, Dead, Playing, Connected,
                            Typed, LinksTyped, ListsTyped, HistoryTyped
  <2> QED BY <2>1, <2>2, SideKeeps, WireKeeps DEF Linked
<1> QED BY <1>2, <1>9, <1>10 DEF Linked

\* What is to be played is the list after those that have been played.
LEMMA ToPlay ==
    ASSUME Typed, NEW s \in Sides, at[s] = "receive", full[s], Counts(s), Ringed(s)
    PROVE  /\ Len(made[s]) = frame[s] + 1 /\ frame[s] + 1 >= FrameDelta
           /\ Len(applied[s]) = frame[s] + 1 - FrameDelta
           /\ InSlot(s, toPlay[s]) /\ Num(s, toPlay[s]) = Len(applied[s]) + 1
<1>1. toPlay[s] \in Slots /\ toPlay[s] \in Nat /\ toPlay[s] < FrameDelta
  BY SlotFacts DEF Typed, ListsTyped
<1>2. /\ Len(made[s]) = frame[s] + 1 /\ frame[s] + 1 >= FrameDelta
      /\ Len(applied[s]) = frame[s] + 1 - FrameDelta
  BY SlotTypes DEF Counts, Ringed, Played
<1>3. Num(s, toPlay[s]) = Len(applied[s]) + 1
  <2>1. CASE frame[s] >= 1 /\ current[s] = FrameDelta - 1
    <3>1. toPlay[s] = 0
      BY <2>1 DEF Ringed
    <3> QED BY <1>2, <2>1, <3>1, SlotTypes DEF Num
  <2>2. CASE frame[s] >= 1 /\ current[s] # FrameDelta - 1
    <3>1. toPlay[s] = current[s] + 1
      BY <2>2 DEF Ringed
    <3>2. Num(s, toPlay[s]) = frame[s] + 2 - FrameDelta
      BY <3>1, NumberToPlay
    <3> QED BY <1>2, <3>2, SlotTypes
  <2>3. CASE frame[s] = 0
    <3>1. FrameDelta \in Nat /\ FrameDelta >= 1 /\ current[s] \in Nat /\ current[s] < FrameDelta
      BY SlotTypes
    <3>2. FrameDelta = 1
      BY <1>2, <2>3, <3>1
    <3>3. current[s] = 0 /\ toPlay[s] = 0
      BY <1>1, <3>1, <3>2
    <3> QED BY <1>2, <2>3, <3>2, <3>3 DEF Num
  <2> QED BY <2>1, <2>2, <2>3, SlotTypes
<1> QED BY <1>1, <1>2, <1>3 DEF Ringed

\* The first list on its way is the one after those that have been played.
LEMMA FirstOnWire ==
    ASSUME Typed, NEW s \in Sides, Wired(s), wire[s] # <<>>, Head(wire[s]).kind = "frame"
    PROVE  /\ Len(applied[s]) + 1 <= Len(made[Other(s)])
           /\ Head(wire[s]).list.inputs = made[Other(s)][Len(applied[s]) + 1]
           /\ Head(wire[s]).list.test \in Tests(Other(s), Len(applied[s]) + 1)
<1> DEFINE o == Other(s)
           w == wire[s]
<1>1. PICK n \in [0 .. Len(w) -> 0 .. Len(made[o])] : Numbers(n, s)
  BY DEF Wired
<1>2. Len(w) \in Nat /\ Len(w) >= 1 /\ Head(w) = w[1] /\ Len(made[o]) \in Nat
  BY WireFacts
<1>3. /\ n[1] = IF w[1].kind = "frame" THEN n[0] + 1 ELSE n[0]
      /\ w[1].kind = "frame" => /\ w[1].list.inputs = made[o][n[1]]
                                /\ w[1].list.test \in Tests(o, n[1])
      /\ n[0] = Len(applied[s])
  BY <1>1, <1>2 DEF Numbers
<1>4. n[1] = Len(applied[s]) + 1 /\ n[1] \in 0 .. Len(made[o])
  BY <1>1, <1>2, <1>3
<1> QED BY <1>2, <1>3, <1>4

LEMMA ReceiveLinks ==
    ASSUME Typed, Typed', Roles, Linked, NEW s \in Sides, Receive(s)
    PROVE  Linked' /\ Promise!Apply(s)
<1> DEFINE o == Other(s)
<1>0. PICK k : k = Len(applied[s]) + 1
  OBVIOUS
<1>1. o \in Sides /\ o # s /\ Sides = {s, o} /\ Other(o) = s
  BY OtherSide
<1>2. /\ at[s] = "receive" /\ full[s] /\ wire[s] # <<>> /\ Head(wire[s]).kind = "frame"
      /\ wire' = [wire EXCEPT ![s] = Tail(@)] /\ PrepareNextFrame(s)
      /\ applied' = [applied EXCEPT ![s] = Append(@, InOrder(s))]
      /\ UNCHANGED <<made, full, drift>> /\ (up' => up) /\ socket[s] = "open"
  BY DEF Receive, Gets, Disconnect, Typed, LinksTyped
<1>3. Counts(s) /\ Ringed(s)
  BY <1>2 DEF Linked, Side, Playing, Dead
<1>4. /\ Len(made[s]) = frame[s] + 1 /\ frame[s] + 1 >= FrameDelta
      /\ Len(applied[s]) = frame[s] + 1 - FrameDelta
  BY <1>2, <1>3, SlotTypes DEF Counts, Ringed, Played
<1>5. ring[s][toPlay[s]].inputs = made[s][k]
  <2>1. InSlot(s, toPlay[s]) /\ Num(s, toPlay[s]) = k
    BY <1>0, <1>2, <1>3, ToPlay
  <2> QED BY <1>0, <1>4, <2>1, SlotTypes DEF InSlot
<1>6. k <= Len(made[o]) /\ Head(wire[s]).list.inputs = made[o][k]
  BY <1>0, <1>2, FirstOnWire DEF Linked
<1>7. InOrder(s) = <<made["server"][k], made["client"][k]>> /\ k <= Len(made[s])
  <2>1. Connected(s)
    BY <1>2 DEF Roles
  <2>2. k <= Len(made[s])
    BY <1>0, <1>4, SlotTypes
  <2>3. CASE s = "server"
    <3>1. mode[s] = "SERVER_CONNECTED" /\ o = "client"
      BY <2>1, <2>3 DEF Roles, Connected, Other
    <3> QED BY <1>5, <1>6, <2>2, <2>3, <3>1 DEF InOrder
  <2>4. CASE s = "client"
    <3>1. mode[s] # "SERVER_CONNECTED" /\ o = "server"
      BY <2>4 DEF Roles, Other
    <3> QED BY <1>5, <1>6, <2>2, <2>4, <3>1 DEF InOrder
  <2> QED BY <2>3, <2>4 DEF Sides
<1>8. Promise!Apply(s)
  <2>1. Len(made[s]) = Len(applied[s]) + FrameDelta
    BY <1>4, SlotTypes
  <2>2. \A p \in Promise!Sides : k <= Len(made[p])
    BY <1>1, <1>6, <1>7 DEF Promise!Sides, Sides
  <2>3. applied' = [applied EXCEPT ![s] = Append(@, <<made["server"][k], made["client"][k]>>)]
    BY <1>2, <1>7
  <2> QED BY <1>0, <1>2, <2>1, <2>2, <2>3 DEF Promise!Apply
<1>9. /\ wire'[s] = Tail(wire[s]) /\ wire'[o] = wire[o]
      /\ applied'[o] = applied[o] /\ Len(applied'[s]) = Len(applied[s]) + 1
  <2>1. applied'[s] = Append(applied[s], InOrder(s)) /\ applied'[o] = applied[o]
    BY <1>1, <1>2 DEF Typed, HistoryTyped
  <2>2. Len(applied'[s]) = Len(applied[s]) + 1
    BY <2>1 DEF Typed, HistoryTyped
  <2> QED BY <1>1, <1>2, <2>1, <2>2 DEF Typed, WireTyped
<1>10. Wired(s)'
  BY <1>1, <1>2, <1>9, WireTakes DEF Linked
<1>11. Wired(o)'
  <2>1. WireKept(o)
    BY <1>1, <1>2, <1>9, WireFacts DEF WireKept
  <2> QED BY <1>1, <2>1, WireKeeps DEF Linked
<1>12. Side(o)'
  <2>1. SideKept(o)
    <3>1. /\ frame'[o] = frame[o] /\ made' = made /\ full' = full /\ drift' = drift
          /\ current'[o] = current[o] /\ toPlay'[o] = toPlay[o] /\ ring'[o] = ring[o]
      BY <1>1, <1>2 DEF Receive, PrepareNextFrame, Typed, ListsTyped, HistoryTyped
    <3>2. up' => up
      BY <1>2 DEF Receive, Disconnect
    <3>3. at'[o] = at[o] /\ mode'[o] = mode[o]
      BY <1>1, <1>2 DEF Receive, Disconnect, Typed, LinksTyped
    <3>4. drift[o] \in Nat
      BY <1>1 DEF Typed, HistoryTyped
    <3>5. Playing(o)' => Playing(o)
      BY <3>3 DEF Playing, Connected
    <3>6. Dead(o) => wire'[o] = <<>>
      BY <1>9 DEF Dead
    <3> QED BY <1>9, <3>1, <3>2, <3>3, <3>4, <3>5, <3>6 DEF SideKept
  <2> QED BY <1>1, <2>1, SideKeeps DEF Linked
<1>13. Side(s)'
  <2>1. frame'[s] = frame[s] + 1
    BY <1>2 DEF PrepareNextFrame, Typed, HistoryTyped
  <2>2. Ringed(s)'
    <3>1. Len(applied'[s]) = Played(frame[s] + 2)
      BY <1>4, <1>9, SlotTypes DEF Played
    <3> QED BY <1>2, <1>3, <1>4, <3>1, NextSlot
  <2>3. Counts(s)'
    <3>1. at'[s] # "receive" /\ full'[s]
      BY <1>2 DEF Receive, Disconnect, Typed, LinksTyped
    <3>2. Len(applied'[s]) = frame[s] + 2 - FrameDelta /\ Len(made'[s]) = frame'[s]
      BY <1>2, <1>4, <1>9, <2>1, SlotTypes
    <3> QED BY <2>1, <3>1, <3>2, SlotTypes DEF Counts
  <2> QED BY <2>2, <2>3 DEF Side
<1> QED BY <1>1, <1>8, <1>10, <1>11, <1>12, <1>13 DEF Linked

LEMMA HookLinks ==
    ASSUME Typed, Typed', Roles, Linked, NEW s \in Sides, Hook(s)
    PROVE  /\ Linked'
           /\ UNCHANGED <<made, applied>> \/ Promise!Make(s) \/ Promise!Apply(s)
<1> DEFINE o == Other(s)
<1>1. o \in Sides /\ o # s /\ Sides = {s, o}
  BY OtherSide
<1> USE DEF lists, history
<1>2. CASE Send(s)
  BY <1>2, SendAgain, SendNew
<1>3. CASE NoList(s)
  <2>1. Quiet /\ wire' = wire /\ UNCHANGED <<made, applied>>
    BY <1>3 DEF NoList, Quiet
  <2>2. at'[s] = "crashed" /\ at'[o] = at[o] /\ mode' = mode
    BY <1>1, <1>3 DEF NoList, Typed, LinksTyped
  <2> QED BY <1>1, <2>1, <2>2, QuietStep DEF Playing, Connected
<1>4. CASE ReceiveNothing(s)
  BY <1>4, NothingToPlay
<1>5. CASE ReceiveSuspend(s)
  <2>1. Quiet /\ UNCHANGED <<at, mode, made, applied>>
    BY <1>5 DEF ReceiveSuspend, Quiet
  <2>2. /\ wire[s] # <<>> /\ Head(wire[s]).kind # "frame"
        /\ wire'[s] = Tail(wire[s]) /\ wire'[o] = wire[o]
    BY <1>1, <1>5 DEF ReceiveSuspend, Gets, Typed, WireTyped
  <2>3. Wired(s)' /\ ~Dead(s)
    BY <2>1, <2>2, QuietTake
  <2>4. Wired(o)'
    BY <1>1, <2>1, <2>2, QuietWire
  <2>5. Side(s)' /\ Side(o)'
    BY <1>1, <2>1, <2>2, <2>3, QuietSide DEF Dead, Playing, Connected
  <2> QED BY <1>1, <2>1, <2>3, <2>4, <2>5 DEF Linked
<1>6. CASE Receive(s)
  BY <1>6, ReceiveLinks
<1>7. CASE ReceiveFails(s)
  <2>1. Quiet /\ wire' = wire /\ UNCHANGED <<made, applied>>
    BY <1>7 DEF ReceiveFails, Disconnect, Quiet, Typed, LinksTyped
  <2>2. ~Playing(s)' /\ at'[o] = at[o] /\ mode'[o] = mode[o]
    BY <1>1, <1>7 DEF ReceiveFails, Disconnect, Playing, Connected, Typed, LinksTyped
  <2> QED BY <1>1, <2>1, <2>2, QuietStep DEF Playing, Connected
<1>8. CASE ReceiveHalf(s)
  <2>1. Quiet /\ UNCHANGED <<mode, made, applied, drift>> /\ ~up'
    BY <1>8 DEF ReceiveHalf, Quiet
  <2>2. /\ at[s] = "receive" /\ full[s] /\ at'[s] = "run" /\ at'[o] = at[o]
        /\ wire'[s] = <<>> /\ wire'[o] = wire[o]
    BY <1>1, <1>8 DEF ReceiveHalf, Typed, LinksTyped, WireTyped
  <2>3. Wired(s)'
    BY <2>1, <2>2, WireLoses DEF SameEnds, Linked
  <2>4. Wired(o)'
    BY <1>1, <2>1, <2>2, QuietWire
  <2>5. Side(o)'
    BY <1>1, <2>1, <2>2, QuietSide DEF Dead, Playing, Connected
  <2>6. Side(s)'
    <3>1. Counts(s)
      BY <2>2 DEF Linked, Side, Playing
    <3>2. Counts(s)'
      BY <2>1, <2>2, <3>1, SlotTypes DEF Counts, Quiet
    <3>3. Dead(s)'
      BY <2>1, <2>2 DEF Dead
    <3> QED BY <3>2, <3>3 DEF Side
  <2> QED BY <1>1, <2>1, <2>3, <2>4, <2>5, <2>6 DEF Linked
<1> QED BY <1>2, <1>3, <1>4, <1>5, <1>6, <1>7, <1>8 DEF Hook

-----------------------------------------------------------------------------
LEMMA InitInv == Init => Inv
<1> SUFFICES ASSUME Init PROVE Inv
  OBVIOUS
<1>1. Typed
  BY InitTyped
<1>2. Roles /\ Shaking
  BY DEF Init, Roles, Shaking, Sides
<1>3. ASSUME NEW s \in Sides
      PROVE  Wired(s) /\ Side(s)
  <2>1. wire[s] = <<>> /\ applied[s] = <<>> /\ made[Other(s)] = <<>>
    BY OtherSide DEF Init
  <2>2. ~Playing(s)
    BY DEF Init, Playing, Connected
  <2> QED BY <2>1, <2>2, WireStarts DEF Side
<1> QED BY <1>1, <1>2, <1>3 DEF Inv

(* Every step keeps the invariant and is one of the promise, or none.       *)
LEMMA Step ==
    ASSUME Inv, [Next]_vars
    PROVE  Inv' /\ [Promise!Next]_<<made, applied>>
<1>1. Typed /\ Roles /\ Shaking /\ Linked /\ Typed' /\ Roles'
  BY NextTyped, RolesKept DEF Inv, Linked
<1>2. CASE StartServer
  <2>1. UNCHANGED <<made, applied>>
    BY <1>2 DEF StartServer, history
  <2> QED BY <1>1, <1>2, <2>1, ConnectLinks, HandshakeShakes DEF Inv, Linked
<1>3. CASE ConnectClient
  <2>1. Promise!Restart
    BY <1>3 DEF ConnectClient, Promise!Restart, Promise!Init, Promise!Sides, Sides
  <2> QED BY <1>1, <1>3, <2>1, ConnectLinks, HandshakeShakes DEF Inv, Linked, Promise!Next
<1>4. CASE Handshake
  BY <1>1, <1>4, HandshakeLinks, HandshakeShakes DEF Inv, Linked
<1>5. ASSUME NEW s \in Sides, Hook(s)
      PROVE  Inv' /\ [Promise!Next]_<<made, applied>>
  BY <1>1, <1>5, HookLinks, HookShakes DEF Inv, Linked, Promise!Next, Promise!Sides, Sides
<1>6. CASE \/ Break
           \/ \E s \in Sides : \/ SyncTest(s) \/ HandshakeFails(s) \/ OtherTrap(s)
                              \/ Suspend(s) \/ Leave(s) \/ Lose(s) \/ Drift(s)
                              \/ \E e \in Inputs : Record(s, e)
  BY <1>1, <1>6, WorldLinks, WorldShakes DEF Inv, Linked
<1>7. CASE UNCHANGED vars
  <2>1. Quiet /\ UNCHANGED <<at, mode, wire, made, applied, trap, pending>>
    BY <1>7 DEF vars, Quiet
  <2>2. Linked'
    BY <1>1, <2>1, QuietStep DEF Playing, Connected
  <2>3. Shaking'
    BY <1>1, <2>1 DEF Shaking, Apart, Zero, Connected, Quiet
  <2> QED BY <1>1, <2>1, <2>2, <2>3 DEF Inv, Linked
<1> QED BY <1>2, <1>3, <1>4, <1>5, <1>6, <1>7 DEF Next

LEMMA Invariant == Spec => []Inv
<1>1. Inv /\ [Next]_vars => Inv'
  BY Step
<1> QED BY <1>1, InitInv, PTL DEF Spec

LEMMA AlarmIsTrue == Inv => NoFalseAlarm
<1> SUFFICES ASSUME Inv, NEW s \in Sides, Gets(s, "receive", "frame"), full[s], OutOfSync(s),
                    \A p \in Sides : drift[p] = 0
             PROVE  FALSE
  BY DEF NoFalseAlarm
<1> DEFINE o == Other(s)
           local == ring[s][toPlay[s]].test
           remote == Head(wire[s]).list.test
<1> PICK k : k = Len(applied[s]) + 1
  OBVIOUS
<1>1. o \in Sides /\ Typed
  BY OtherSide DEF Inv
<1>2. /\ at[s] = "receive" /\ wire[s] # <<>> /\ Head(wire[s]).kind = "frame"
      /\ local # NoTest /\ remote # NoTest /\ local # remote
  BY DEF Gets, OutOfSync
<1>3. Counts(s) /\ Ringed(s) /\ Wired(s)
  BY <1>2 DEF Inv, Side, Playing, Dead
<1>4. InSlot(s, toPlay[s]) /\ Num(s, toPlay[s]) = k
  BY <1>1, <1>2, <1>3, ToPlay
<1>5. local \in Tests(s, k)
  <2>1. k \in Nat /\ k >= 1
    BY <1>1, SlotTypes
  <2> QED BY <1>4, <2>1 DEF InSlot
<1>6. remote \in Tests(o, k)
  BY <1>1, <1>2, <1>3, FirstOnWire
<1>7. drift[s] = 0 /\ drift[o] = 0
  BY <1>1
<1>8. local = [played |-> Played(k), drift |-> 0]
  BY <1>2, <1>5, <1>7 DEF Tests
<1>9. remote = [played |-> Played(k), drift |-> 0]
  BY <1>2, <1>6, <1>7 DEF Tests
<1> QED BY <1>2, <1>8, <1>9

(* The machines are told to be out of sync only if something has changed    *)
(* one of them that is not exchanged.                                       *)
THEOREM AlarmsAreTrue == Spec => []NoFalseAlarm
BY Invariant, AlarmIsTrue, PTL

(* Both machines get the same inputs in the same frame, whatever breaks.    *)
THEOREM KeepsPromise == Spec => ImplementsDelayedInputs
<1>1. Init => Promise!Init
  BY DEF Init, Promise!Init, Promise!Sides, Sides
<1>2. Inv /\ [Next]_vars => [Promise!Next]_<<made, applied>>
  BY Step
<1> QED BY <1>1, <1>2, Invariant, PTL DEF Spec, ImplementsDelayedInputs, Promise!Spec, Promise!vars
=============================================================================
