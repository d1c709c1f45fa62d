---------------------------- MODULE ViewmanProofs ----------------------------
(***************************************************************************)
(* Theorems about Viewman, for any windows, slots, commands and accidents: *)
(* every variable keeps its type, no window is forgotten, and the graphs   *)
(* that windows show are recorded.                                         *)
(***************************************************************************)
EXTENDS Viewman, ListLemmas, FiniteSetTheorems, TLAPS

Keys2D == [Slot -> Key \cup {0}]
LinkTable == [Key -> [Viewport -> Nat]]

(* What is picked is a graph, also when an end of file repeats a pick. *)
PickedIsKnown == picked \/ viewCommand = "pick2D" => currentGraph \in Key

(* While a window is waited for, a request of Lisp is being served, and while
   goodbye waits, it is for some window.                                   *)
ServesRequest ==
  /\ pc \in {"ready", "window", "ack"} => spad \in Request /\ cur \in Viewport
  /\ pc = "goodbye" => rest # <<>>

TypeInv == ViewmanTypeOK /\ PickedIsKnown /\ ServesRequest

-----------------------------------------------------------------------------
(* Counting records *)

(* The larger of two numbers. *)
LEMMA MaxOfTwo ==
  ASSUME NEW a \in Int, NEW b \in Int
  PROVE  Max({a, b}) = IF a >= b THEN a ELSE b
<1> DEFINE m == IF a >= b THEN a ELSE b
<1>1. m \in {a, b} /\ \A y \in {a, b} : m >= y
  OBVIOUS
<1>2. \A x \in {a, b} : (\A y \in {a, b} : x >= y) => x = m
  OBVIOUS
<1> HIDE DEF m
<1>3. Max({a, b}) = m
  BY <1>1, <1>2 DEF Max
<1> QED BY <1>3 DEF m

(* A key occurs a number of times. *)
LEMMA OccurrencesNat == \A k, ks : Occurrences(k, ks) \in Nat
<1> SUFFICES ASSUME NEW k, NEW ks PROVE Occurrences(k, ks) \in Nat
  OBVIOUS
<1>1. IsFiniteSet({s \in Slot : ks[s] = k})
  BY ViewmanAssumption, FS_Subset
<1> QED BY <1>1, FS_CardinalityType DEF Occurrences

(* Recording a window, or taking it out, keeps the table of records. *)
LEMMA LinksStayTyped ==
  ASSUME links \in LinkTable, NEW v \in Viewport
  PROVE  /\ \A k \in Key : Linked(v, k) \in LinkTable
         /\ \A ks : AllLinked(v, ks) \in LinkTable /\ Unlinked(v, ks) \in LinkTable
<1>1. ASSUME NEW k \in Key PROVE Linked(v, k) \in LinkTable
  BY DEF Linked, LinkTable
<1>2. ASSUME NEW ks PROVE AllLinked(v, ks) \in LinkTable
  BY OccurrencesNat DEF AllLinked, LinkTable
<1>3. ASSUME NEW ks PROVE Unlinked(v, ks) \in LinkTable
  <2>1. \A k \in Key : Max({0, links[k][v] - Occurrences(k, ks)}) \in Nat
    <3> SUFFICES ASSUME NEW k \in Key
                 PROVE  Max({0, links[k][v] - Occurrences(k, ks)}) \in Nat
      OBVIOUS
    <3>1. links[k][v] \in Nat /\ Occurrences(k, ks) \in Nat
      BY OccurrencesNat DEF LinkTable
    <3> DEFINE d == links[k][v] - Occurrences(k, ks)
    <3>2. d \in Int
      BY <3>1
    <3> HIDE DEF d
    <3>3. Max({0, d}) = IF 0 >= d THEN 0 ELSE d
      BY <3>2, MaxOfTwo
    <3>4. Max({0, d}) \in Nat
      BY <3>2, <3>3
    <3> QED BY <3>4 DEF d
  <2> QED BY <2>1 DEF Unlinked, LinkTable
<1> QED BY <1>1, <1>2, <1>3

-----------------------------------------------------------------------------
(* Type correctness, in parts *)

ChildState == Dead \cup {"none", "new", "starting", "idle", "dropping", "stuck",
                         "exiting", "termed"}

ControlTypes ==
  /\ viewports \in Seq(Viewport) /\ rest \in Seq(Viewport)
  /\ checkClosedChild \in BOOLEAN /\ interrupted \in BOOLEAN
  /\ viewCommand \in {"pick2D", "drop2D", "viewportClosing", "other"}
  /\ errno \in {"EINTR", "other"}
  /\ pc \in {"select", "ready", "window", "ack", "wait", "goodbye"} \cup Final
  /\ cur \in Viewport \cup {Null}
GraphTypes ==
  /\ graphList \subseteq Key /\ wild \subseteq Key
  /\ links \in LinkTable
  /\ graphKey \in 1..(MaxKey + 1)
  /\ picked \in BOOLEAN
  /\ currentGraph \in Key \cup {0}
WindowTypes ==
  /\ child \in [Viewport -> ChildState]
  /\ slots \in [Viewport -> Keys2D]
PipeTypes == in \in [Viewport -> Seq(FromChild)] /\ out \in [Viewport -> Seq(ToChild)]
LispTypes ==
  /\ spad \in Request \cup {Null}
  /\ requests \in 0..MaxRequests /\ clicks \in 0..MaxClicks
  /\ lapses \in SUBSET Accident

(* The type invariant, by the parts of the state that actions change. *)
LEMMA TypesInParts ==
  ViewmanTypeOK <=> ControlTypes /\ GraphTypes /\ WindowTypes /\ PipeTypes /\ LispTypes
BY DEF ViewmanTypeOK, ControlTypes, GraphTypes, WindowTypes, PipeTypes, LispTypes,
       LinkTable, Keys2D, ChildState

(* The types hold at the start. *)
LEMMA InitTypes == ViewmanInit => TypeInv
<1> SUFFICES ASSUME ViewmanInit PROVE TypeInv
  OBVIOUS
<1> USE DEF ViewmanInit
<1>1. <<>> \in Seq(Viewport) /\ <<>> \in Seq(FromChild) /\ <<>> \in Seq(ToChild)
  OBVIOUS
<1>2. ControlTypes
  BY <1>1 DEF ControlTypes
<1>3. GraphTypes
  <2>1. MaxKey \in Nat
    BY ViewmanAssumption
  <2>2. links \in LinkTable
    BY DEF LinkTable
  <2>3. graphKey \in 1..(MaxKey + 1)
    BY <2>1
  <2>4. picked \in BOOLEAN
    OBVIOUS
  <2> QED BY <2>2, <2>3, <2>4 DEF GraphTypes
<1>4. WindowTypes
  BY DEF WindowTypes, ChildState, Keys2D, NoKeys
<1>5. PipeTypes
  BY <1>1 DEF PipeTypes
<1>6. LispTypes
  BY ViewmanAssumption DEF LispTypes
<1>7. PickedIsKnown /\ ServesRequest
  BY DEF PickedIsKnown, ServesRequest
<1> QED BY <1>2, <1>3, <1>4, <1>5, <1>6, <1>7, TypesInParts DEF TypeInv

(* What is sent and what is taken. *)
LEMMA MessageTypes ==
  /\ \A m \in {"ready", "window", "ack", "drop2D"} : [msg |-> m] \in FromChild
  /\ \A k \in Key : [msg |-> "pick2D", key |-> k] \in FromChild
  /\ \A ks \in Keys2D : /\ [msg |-> "viewportClosing", keys |-> ks] \in FromChild
                        /\ [msg |-> "make", keys |-> ks] \in ToChild
  /\ \A m \in {"plain", "closeAll", "axesColor2D", "viewError"} : [msg |-> m] \in ToChild
  /\ \A k \in Key : [msg |-> "viewOkay", key |-> k] \in ToChild
  /\ \A k \in Key, s \in Slot : [msg |-> "putGraph", key |-> k, slot |-> s] \in ToChild
BY DEF FromChild, ToChild, Keys2D

(* What the messages of and to a viewport carry. *)
LEMMA MessageFields ==
  /\ \A m \in FromChild : m.msg = "pick2D" => m.key \in Key
  /\ \A m \in FromChild : m.msg = "viewportClosing" => m.keys \in Keys2D
  /\ \A m \in ToChild : m.msg = "make" => m.keys \in Keys2D
  /\ \A m \in ToChild : m.msg = "viewOkay" => m.key \in Key
  /\ \A m \in ToChild : m.msg = "putGraph" => m.key \in Key /\ m.slot \in Slot
BY DEF FromChild, ToChild, Keys2D

(* What the requests of the interpreter carry. *)
LEMMA RequestFields ==
  ASSUME NEW r \in Request
  PROVE  /\ r.req = "makeView2D" => r.keys \in Keys2D
         /\ r.req = "fun" => /\ r.view \in Viewport
                              /\ r.cmd \in Command \cup {"putGraph"}
         /\ r.req = "fun" /\ r.cmd = "putGraph" => r.key \in Key /\ r.slot \in Slot
<1>1. r.req = "makeView2D" => r.keys \in Keys2D
  BY DEF Request, Keys2D
<1>2. r.req = "fun" => r.view \in Viewport
  BY DEF Request
<1>3. r.req = "fun" /\ r.cmd = "putGraph" => r.key \in Key /\ r.slot \in Slot
  BY DEF Request
<1>4. r.req = "fun" => r.cmd \in Command \cup {"putGraph"}
  BY DEF Request
<1> QED BY <1>1, <1>2, <1>3, <1>4

(* Reading from a viewport. *)
LEMMA TakeTypes ==
  ASSUME PipeTypes, NEW v \in Viewport, in[v] # <<>>, Take(v)
  PROVE  in' \in [Viewport -> Seq(FromChild)] /\ Head(in[v]) \in FromChild
<1>1. in[v] \in Seq(FromChild)
  BY DEF PipeTypes
<1>2. Tail(in[v]) \in Seq(FromChild) /\ Head(in[v]) \in FromChild
  BY <1>1
<1> QED BY <1>2 DEF PipeTypes, Take

(* Writing to a viewport. *)
LEMMA WriteTypes ==
  ASSUME PipeTypes, errno \in {"EINTR", "other"}, NEW v \in Viewport,
         NEW m \in ToChild, Write(v, m)
  PROVE  out' \in [Viewport -> Seq(ToChild)] /\ errno' \in {"EINTR", "other"}
<1>1. out[v] \in Seq(ToChild)
  BY DEF PipeTypes
<1>2. Append(out[v], m) \in Seq(ToChild)
  BY <1>1
<1> QED BY <1>2 DEF PipeTypes, Write

(* What a viewport sends. *)
LEMMA SendTypes ==
  ASSUME PipeTypes, NEW v \in Viewport, NEW ms \in Seq(FromChild), Send(v, ms)
  PROVE  in' \in [Viewport -> Seq(FromChild)]
<1>1. in[v] \in Seq(FromChild)
  BY DEF PipeTypes
<1>2. in[v] \o ms \in Seq(FromChild)
  BY <1>1
<1> QED BY <1>2 DEF PipeTypes, Send

(* What a viewport reads. *)
LEMMA ReceivedTypes ==
  ASSUME PipeTypes, NEW v \in Viewport, out[v] # <<>>, Received(v)
  PROVE  out' \in [Viewport -> Seq(ToChild)] /\ Head(out[v]) \in ToChild
<1>1. out[v] \in Seq(ToChild)
  BY DEF PipeTypes
<1>2. Tail(out[v]) \in Seq(ToChild) /\ Head(out[v]) \in ToChild
  BY <1>1
<1> QED BY <1>2 DEF PipeTypes, Received

(* The window that is served is in the list, and leaves it alone when it is
   closed.                                                                 *)
LEMMA TurnListed ==
  ASSUME NEW v, Turn(v)
  PROVE  pc = "select" /\ v \in Listed
BY DEF Turn, Range, Listed

(* closeChildViewport takes the viewport off the list. *)
LEMMA CloseChildTypes ==
  ASSUME ControlTypes, GraphTypes, NEW v \in Viewport, v \in Listed, NEW ks,
         closeChildViewport(v, ks)
  PROVE  /\ viewports' \in Seq(Viewport) /\ pc' = "wait"
         /\ links' \in LinkTable /\ graphList' \subseteq Key
<1> DEFINE i == CHOOSE i \in DOMAIN viewports : viewports[i] = v
<1>1. viewports \in Seq(Viewport) /\ i \in DOMAIN viewports
  BY DEF ControlTypes, Listed, Range
<1>2. viewports' = RemoveAt(viewports, i)
  BY DEF closeChildViewport, CloseChild
<1> HIDE DEF i
<1>3. viewports' \in Seq(Viewport)
  BY <1>1, <1>2, RemoveAtType
<1>4. graphList' \subseteq Key
  BY DEF closeChildViewport, CloseChild, Kept, GraphTypes
<1>5. links' \in LinkTable
  BY LinksStayTyped DEF closeChildViewport, CloseChild, GraphTypes
<1> QED BY <1>3, <1>4, <1>5 DEF closeChildViewport, CloseChild

(* drop2D only sends a graph that was picked. *)
LEMMA DropTypes ==
  ASSUME TypeInv, NEW v \in Viewport, DropTo(v)
  PROVE  /\ out' \in [Viewport -> Seq(ToChild)] /\ errno' \in {"EINTR", "other"}
         /\ links' \in LinkTable /\ pc' \in {pc, "quit"}
<1>1. PipeTypes /\ errno \in {"EINTR", "other"} /\ links \in LinkTable /\ picked \in BOOLEAN
  BY TypesInParts DEF TypeInv, ControlTypes, GraphTypes
<1>2. CASE ~picked
  BY <1>1, <1>2, WriteTypes, MessageTypes DEF DropTo
<1>3. CASE picked
  <2>1. currentGraph \in Key /\ DropPicked(v)
    BY <1>3 DEF TypeInv, PickedIsKnown, DropTo
  <2>2. [msg |-> "viewOkay", key |-> currentGraph] \in ToChild
    BY <2>1, MessageTypes
  <2>3. out' \in [Viewport -> Seq(ToChild)] /\ errno' \in {"EINTR", "other"}
    BY <1>1, <2>1, <2>2, WriteTypes DEF DropPicked
  <2> QED BY <1>1, <2>1, <2>3, LinksStayTyped DEF DropPicked
<1> QED BY <1>2, <1>3

(* What the manager does when a window has sent something or is gone. *)
LEMMA ReadTypes ==
  ASSUME TypeInv, NEW v \in Viewport,
         ReadPick(v) \/ ReadDrop(v) \/ ReadClosing(v) \/ ReadEof(v)
  PROVE  TypeInv'
<1> USE DEF graphVars, pickVars, signalVars, managerVars, childVars, boundVars
<1>1. ControlTypes /\ GraphTypes /\ WindowTypes /\ PipeTypes /\ LispTypes
  BY TypesInParts DEF TypeInv
<1>2. UNCHANGED <<slots, child, spad, boundVars, rest, cur, wild, graphKey,
                  checkClosedChild>> /\ interrupted' = FALSE
  BY DEF ReadPick, ReadDrop, ReadClosing, ReadEof
<1>3. WindowTypes' /\ LispTypes'
  BY <1>1, <1>2 DEF WindowTypes, LispTypes
<1>4. Turn(v) /\ pc = "select" /\ v \in Listed
  BY TurnListed DEF ReadPick, ReadDrop, ReadClosing, ReadEof
<1> DEFINE
  Fine == /\ viewports' \in Seq(Viewport)
          /\ viewCommand' \in {"pick2D", "drop2D", "viewportClosing", "other"}
          /\ errno' \in {"EINTR", "other"}
          /\ pc' \in {"select", "quit", "wait"}
          /\ graphList' \subseteq Key /\ links' \in LinkTable
          /\ picked' \in BOOLEAN /\ currentGraph' \in Key \cup {0}
          /\ in' \in [Viewport -> Seq(FromChild)]
          /\ out' \in [Viewport -> Seq(ToChild)]
          /\ PickedIsKnown'
<1>5. SUFFICES Fine
  <2> SUFFICES ASSUME Fine PROVE TypeInv'
    OBVIOUS
  <2>1. ControlTypes'
    BY <1>1, <1>2 DEF ControlTypes, Final
  <2>2. GraphTypes'
    BY <1>1, <1>2 DEF GraphTypes
  <2>3. PipeTypes'
    BY DEF PipeTypes
  <2>4. ServesRequest'
    BY DEF ServesRequest
  <2>5. ViewmanTypeOK'
    BY <1>3, <2>1, <2>2, <2>3, TypesInParts, PTL
  <2> QED BY <2>4, <2>5 DEF TypeInv
<1>6. CASE ReadPick(v)
  <2>1. in[v] # <<>> /\ Take(v) /\ Head(in[v]).msg = "pick2D"
    BY <1>6 DEF ReadPick, Says
  <2>2. in' \in [Viewport -> Seq(FromChild)] /\ Head(in[v]) \in FromChild
    BY <1>1, <2>1, TakeTypes
  <2>3. Head(in[v]).key \in Key
    BY <2>1, <2>2, MessageFields
  <2>4. viewCommand' = "pick2D" /\ picked' = TRUE /\ currentGraph' = Head(in[v]).key
    BY <1>6 DEF ReadPick
  <2>5. UNCHANGED <<viewports, graphList, links, errno, pc, out>>
    BY <1>6 DEF ReadPick
  <2>6. PickedIsKnown'
    BY <2>3, <2>4 DEF PickedIsKnown
  <2> QED BY <1>1, <1>4, <2>2, <2>3, <2>4, <2>5, <2>6 DEF ControlTypes, GraphTypes, PipeTypes
<1>7. CASE ReadDrop(v)
  <2>1. in[v] # <<>> /\ Take(v) /\ DropTo(v)
    BY <1>7 DEF ReadDrop, Says
  <2>2. in' \in [Viewport -> Seq(FromChild)]
    BY <1>1, <2>1, TakeTypes
  <2>3. /\ out' \in [Viewport -> Seq(ToChild)] /\ errno' \in {"EINTR", "other"}
        /\ links' \in LinkTable /\ pc' \in {pc, "quit"}
    BY <2>1, DropTypes
  <2>4. viewCommand' = "drop2D" /\ UNCHANGED <<viewports, graphList, picked, currentGraph>>
    BY <1>7 DEF ReadDrop
  <2>5. PickedIsKnown'
    BY <2>4 DEF PickedIsKnown, TypeInv
  <2> QED BY <1>1, <1>4, <2>2, <2>3, <2>4, <2>5 DEF ControlTypes, GraphTypes
<1>8. CASE ReadClosing(v)
  <2>1. in[v] # <<>> /\ Take(v) /\ closeChildViewport(v, Head(in[v]).keys)
    BY <1>8 DEF ReadClosing, Says
  <2>2. in' \in [Viewport -> Seq(FromChild)]
    BY <1>1, <2>1, TakeTypes
  <2>3. /\ viewports' \in Seq(Viewport) /\ pc' = "wait"
        /\ links' \in LinkTable /\ graphList' \subseteq Key
    BY <1>1, <1>4, <2>1, CloseChildTypes
  <2>4. /\ viewCommand' = "viewportClosing"
        /\ UNCHANGED <<picked, currentGraph, errno, out>>
    BY <1>8 DEF ReadClosing
  <2>5. PickedIsKnown'
    BY <2>4 DEF PickedIsKnown, TypeInv
  <2> QED BY <1>1, <2>2, <2>3, <2>4, <2>5 DEF ControlTypes, GraphTypes, PipeTypes
<1>9. CASE ReadEof(v)
  <2>1. UNCHANGED <<currentGraph, viewCommand, in>>
    BY <1>9 DEF ReadEof
  <2>2. CASE viewCommand = "pick2D"
    <3>1. picked' = TRUE /\ UNCHANGED <<viewports, graphList, links, errno, out, pc>>
      BY <1>9, <2>2 DEF ReadEof
    <3>2. PickedIsKnown'
      BY <2>1, <2>2 DEF PickedIsKnown, TypeInv
    <3> QED BY <1>1, <1>4, <2>1, <3>1, <3>2 DEF ControlTypes, GraphTypes, PipeTypes
  <2>3. CASE viewCommand = "drop2D"
    <3>1. DropTo(v) /\ UNCHANGED <<viewports, graphList, picked>>
      BY <1>9, <2>3 DEF ReadEof
    <3>2. /\ out' \in [Viewport -> Seq(ToChild)] /\ errno' \in {"EINTR", "other"}
          /\ links' \in LinkTable /\ pc' \in {pc, "quit"}
      BY <3>1, DropTypes
    <3>3. PickedIsKnown'
      BY <2>1, <3>1 DEF PickedIsKnown, TypeInv
    <3> QED BY <1>1, <1>4, <2>1, <3>1, <3>2, <3>3 DEF ControlTypes, GraphTypes, PipeTypes
  <2>4. CASE viewCommand = "viewportClosing"
    <3>1. closeChildViewport(v, NoKeys) /\ UNCHANGED <<picked, errno, out>>
      BY <1>9, <2>4 DEF ReadEof
    <3>2. /\ viewports' \in Seq(Viewport) /\ pc' = "wait"
          /\ links' \in LinkTable /\ graphList' \subseteq Key
      BY <1>1, <1>4, <3>1, CloseChildTypes
    <3>3. PickedIsKnown'
      BY <2>1, <3>1 DEF PickedIsKnown, TypeInv
    <3> QED BY <1>1, <2>1, <3>1, <3>2, <3>3 DEF ControlTypes, GraphTypes, PipeTypes
  <2>5. CASE viewCommand = "other"
    <3>1. UNCHANGED <<viewports, graphList, links, picked, errno, out, pc>>
      BY <1>9, <2>5 DEF ReadEof
    <3>2. PickedIsKnown'
      BY <2>1, <3>1 DEF PickedIsKnown, TypeInv
    <3> QED BY <1>1, <1>4, <2>1, <3>1, <3>2 DEF ControlTypes, GraphTypes, PipeTypes
  <2> QED BY <1>1, <2>2, <2>3, <2>4, <2>5 DEF ControlTypes
<1> QED BY <1>6, <1>7, <1>8, <1>9

(* What Lisp asks. *)
LEMMA ServeTypes ==
  ASSUME TypeInv,
         \/ makeGraph \/ ReadReady \/ ReadWindow \/ funViewUnknown \/ funView \/ ReadAck
         \/ \E v \in Viewport : forkView(v)
  PROVE  TypeInv'
<1> USE DEF graphVars, pickVars, signalVars, managerVars, childVars, boundVars
<1>1. ControlTypes /\ GraphTypes /\ WindowTypes /\ PipeTypes /\ LispTypes
  BY TypesInParts DEF TypeInv
<1>2. SUFFICES /\ ControlTypes' /\ GraphTypes' /\ WindowTypes' /\ PipeTypes' /\ LispTypes'
               /\ PickedIsKnown' /\ ServesRequest'
  <2>1. ControlTypes' /\ GraphTypes' /\ WindowTypes' /\ PipeTypes' /\ LispTypes'
          => ViewmanTypeOK'
    BY TypesInParts, PTL
  <2> QED BY <2>1 DEF TypeInv
<1>4. CASE makeGraph
  <2>1. /\ graphList' = graphList \cup {graphKey} /\ graphKey <= MaxKey
        /\ wild' \in {wild, wild \cup {graphKey}} /\ graphKey' = graphKey + 1
        /\ UNCHANGED <<links, picked, currentGraph>>
    BY <1>4 DEF makeGraph
  <2>2. MaxKey \in Nat /\ graphKey \in Key
    BY <1>1, <2>1, ViewmanAssumption DEF GraphTypes, Key
  <2>3. GraphTypes'
    BY <1>1, <2>1, <2>2 DEF GraphTypes, Key
  <2>4. ControlTypes'
    BY <1>1, <1>4 DEF makeGraph, ControlTypes
  <2>5. WindowTypes' /\ PipeTypes' /\ LispTypes'
    BY <1>1, <1>4 DEF makeGraph, WindowTypes, PipeTypes, LispTypes, Answered
  <2>6. PickedIsKnown'
    BY <1>4, <2>1 DEF PickedIsKnown, makeGraph, TypeInv
  <2>7. ServesRequest'
    BY <1>4 DEF makeGraph, SpadTurn, ServesRequest
  <2> QED BY <2>3, <2>4, <2>5, <2>6, <2>7
<1>5. CASE \E v \in Viewport : forkView(v)
  <2>1. PICK v \in Viewport : forkView(v)
    BY <1>5
  <2>2. <<v>> \o viewports \in Seq(Viewport)
    BY <1>1 DEF ControlTypes
  <2>3. ControlTypes'
    BY <1>1, <2>1, <2>2 DEF forkView, ControlTypes
  <2>4. child' \in [Viewport -> ChildState]
    BY <1>1, <2>1 DEF forkView, WindowTypes, ChildState
  <2>5. GraphTypes' /\ WindowTypes' /\ PipeTypes' /\ LispTypes'
    BY <1>1, <2>1, <2>4 DEF forkView, GraphTypes, WindowTypes, PipeTypes, LispTypes
  <2>6. spad \in Request /\ spad' = spad /\ cur' = v
    BY <1>1, <2>1 DEF forkView, SpadTurn, LispTypes
  <2>7. PickedIsKnown' /\ ServesRequest'
    BY <2>1, <2>6 DEF forkView, PickedIsKnown, ServesRequest, TypeInv
  <2> QED BY <2>3, <2>5, <2>7
<1>6. CASE ReadReady
  <2>1. pc = "ready" /\ in[cur] # <<>> /\ Take(cur)
    BY <1>6 DEF ReadReady, Says
  <2>2. cur \in Viewport /\ spad \in Request
    BY <2>1 DEF TypeInv, ServesRequest
  <2>3. in' \in [Viewport -> Seq(FromChild)]
    BY <1>1, <2>1, <2>2, TakeTypes
  <2>4. Keys \in Keys2D
    BY <2>2, RequestFields DEF Keys, NoKeys, Keys2D
  <2>5. [msg |-> "make", keys |-> Keys] \in ToChild
    BY <2>4, MessageTypes
  <2>6. Write(cur, [msg |-> "make", keys |-> Keys])
    BY <1>6 DEF ReadReady
  <2>7. out' \in [Viewport -> Seq(ToChild)] /\ errno' \in {"EINTR", "other"}
    BY <1>1, <2>2, <2>5, <2>6, WriteTypes DEF ControlTypes
  <2>8. AllLinked(cur, Keys) \in LinkTable
    BY <1>1, <2>2, LinksStayTyped DEF GraphTypes
  <2>9. links' \in LinkTable /\ pc' \in {"quit", "window"}
    BY <1>1, <1>6, <2>8 DEF ReadReady, GraphTypes
  <2>10. UNCHANGED <<viewports, graphList, wild, graphKey, pickVars, viewCommand,
                     checkClosedChild, interrupted, cur, rest, child, slots, spad>>
    BY <1>6 DEF ReadReady
  <2>11. ControlTypes' /\ GraphTypes'
    BY <1>1, <2>7, <2>9, <2>10 DEF ControlTypes, GraphTypes, Final
  <2>12. WindowTypes' /\ PipeTypes' /\ LispTypes'
    BY <1>1, <1>6, <2>3, <2>7, <2>10 DEF ReadReady, WindowTypes, PipeTypes, LispTypes
  <2>13. PickedIsKnown' /\ ServesRequest'
    BY <2>2, <2>9, <2>10 DEF PickedIsKnown, ServesRequest, TypeInv
  <2> QED BY <2>11, <2>12, <2>13
<1>7. CASE ReadWindow \/ ReadAck
  <2>1. cur \in Viewport
    BY <1>7 DEF ReadWindow, ReadAck, TypeInv, ServesRequest
  <2>2. in' \in [Viewport -> Seq(FromChild)]
    <3>1. in' = in \/ (in[cur] # <<>> /\ Take(cur))
      BY <1>7 DEF ReadWindow, ReadAck, Says
    <3> QED BY <1>1, <2>1, <3>1, TakeTypes DEF PipeTypes
  <2>3. /\ spad' = Null /\ pc' = "select" /\ cur' = Null
        /\ UNCHANGED <<viewports, graphVars, pickVars, viewCommand, signalVars, rest,
                       child, slots, out, boundVars>>
    BY <1>7 DEF ReadWindow, ReadAck, Answered
  <2>4. ControlTypes' /\ GraphTypes'
    BY <1>1, <2>3 DEF ControlTypes, GraphTypes
  <2>5. WindowTypes' /\ PipeTypes' /\ LispTypes'
    BY <1>1, <2>2, <2>3 DEF WindowTypes, PipeTypes, LispTypes
  <2>6. PickedIsKnown' /\ ServesRequest'
    BY <2>3 DEF PickedIsKnown, ServesRequest, TypeInv
  <2> QED BY <2>4, <2>5, <2>6
<1>8. CASE funViewUnknown
  <2>1. /\ viewCommand' \in {"viewportClosing", "other"} /\ spad' = Null
        /\ interrupted' = FALSE /\ pc = "select"
        /\ UNCHANGED <<viewports, graphVars, pickVars, checkClosedChild, errno, pc,
                       cur, rest, childVars, boundVars>>
    BY <1>8 DEF funViewUnknown, UnknownView, SpadTurn
  <2>2. ControlTypes' /\ GraphTypes'
    BY <1>1, <2>1 DEF ControlTypes, GraphTypes
  <2>3. WindowTypes' /\ PipeTypes' /\ LispTypes'
    BY <1>1, <2>1 DEF WindowTypes, PipeTypes, LispTypes
  <2>4. PickedIsKnown' /\ ServesRequest'
    BY <2>1 DEF PickedIsKnown, ServesRequest, TypeInv
  <2> QED BY <2>2, <2>3, <2>4
<1>9. CASE funView
  <2>1. /\ spad \in Request /\ spad.req = "fun" /\ pc = "select"
    BY <1>1, <1>9 DEF funView, SpadTurn, LispTypes
  <2>2. /\ spad.view \in Viewport /\ spad.cmd \in Command \cup {"putGraph"}
        /\ spad.cmd = "putGraph" => spad.key \in Key /\ spad.slot \in Slot
    BY <2>1, RequestFields
  <2>3. ToWindow(spad) \in ToChild
    <3>1. CASE spad.cmd = "putGraph"
      BY <2>2, <3>1, MessageTypes DEF ToWindow
    <3>2. CASE spad.cmd \in {"plain", "scale"}
      BY <3>2, MessageTypes DEF ToWindow
    <3>3. CASE spad.cmd \in {"closeAll", "axesColor2D"}
      BY <3>3, MessageTypes DEF ToWindow
    <3> QED BY <2>2, <3>1, <3>2, <3>3, ViewmanAssumption
  <2>4. Write(spad.view, ToWindow(spad))
    BY <1>9 DEF funView
  <2>5. out' \in [Viewport -> Seq(ToChild)] /\ errno' \in {"EINTR", "other"}
    BY <1>1, <2>2, <2>3, <2>4, WriteTypes DEF ControlTypes
  <2>6. links' \in LinkTable
    BY <1>1, <1>9, <2>2, LinksStayTyped DEF funView, PutLinked, GraphTypes
  <2>7. /\ viewCommand' \in {"viewportClosing", "other"} /\ pc' \in {"quit", "ack"}
        /\ cur' = spad.view /\ interrupted' = FALSE
        /\ UNCHANGED <<viewports, graphList, wild, graphKey, pickVars,
                       checkClosedChild, rest, child, slots, in, spad, boundVars>>
    BY <1>9 DEF funView
  <2>8. ControlTypes' /\ GraphTypes'
    BY <1>1, <2>2, <2>5, <2>6, <2>7 DEF ControlTypes, GraphTypes, Final
  <2>9. WindowTypes' /\ PipeTypes' /\ LispTypes'
    BY <1>1, <2>5, <2>7 DEF WindowTypes, PipeTypes, LispTypes
  <2>10. PickedIsKnown' /\ ServesRequest'
    BY <2>1, <2>2, <2>7 DEF PickedIsKnown, ServesRequest, TypeInv
  <2> QED BY <2>8, <2>9, <2>10
<1> QED BY <1>4, <1>5, <1>6, <1>7, <1>8, <1>9

(* Waiting for children, and giving up. *)
LEMMA ReapTypes ==
  ASSUME TypeInv,
         \/ superSelect \/ Waited \/ ReadSpins \/ ReadReadyFails \/ AckMisread
         \/ forkFails \/ goodbye \/ goodbyeWaited
  PROVE  TypeInv'
<1> USE DEF graphVars, pickVars, signalVars, managerVars, childVars, boundVars
<1>1. ControlTypes /\ GraphTypes /\ WindowTypes /\ PipeTypes /\ LispTypes
  BY TypesInParts DEF TypeInv
<1>2. UNCHANGED <<viewports, graphVars, pickVars, viewCommand, cur, slots, in, out,
                  spad, requests, clicks>>
  BY DEF superSelect, Waited, ReadSpins, ReadReadyFails, AckMisread, forkFails,
         Abandon, goodbye, GoodbyeTo, goodbyeWaited
<1>3. GraphTypes' /\ PipeTypes' /\ PickedIsKnown'
  BY <1>1, <1>2 DEF GraphTypes, PipeTypes, PickedIsKnown, TypeInv
<1> DEFINE
  Fine == /\ rest' \in Seq(Viewport)
          /\ checkClosedChild' \in BOOLEAN /\ interrupted' \in BOOLEAN
          /\ errno' \in {"EINTR", "other"}
          /\ \/ pc' = pc
             \/ pc' \in {"select", "goodbye"} \cup Final
          /\ pc' = "goodbye" => rest' # <<>>
          /\ child' \in [Viewport -> ChildState]
          /\ lapses' \in SUBSET Accident
<1>4. SUFFICES Fine
  <2> SUFFICES ASSUME Fine PROVE TypeInv'
    OBVIOUS
  <2>1. ControlTypes' /\ WindowTypes' /\ LispTypes'
    BY <1>1, <1>2 DEF ControlTypes, WindowTypes, LispTypes
  <2>2. ServesRequest'
    BY <1>2 DEF ServesRequest, TypeInv, Final
  <2>3. ControlTypes' /\ GraphTypes' /\ WindowTypes' /\ PipeTypes' /\ LispTypes'
          => ViewmanTypeOK'
    BY TypesInParts, PTL
  <2> QED BY <1>3, <2>1, <2>2, <2>3 DEF TypeInv
<1>5. ASSUME NEW k \in Accident, NEW b, Lapses(k, b)
      PROVE  lapses' \in SUBSET Accident
  BY <1>1, <1>5 DEF Lapses, LispTypes
<1>6. ASSUME NEW v \in Viewport
      PROVE  [child EXCEPT ![v] = "reaped"] \in [Viewport -> ChildState]
  BY <1>1 DEF WindowTypes, ChildState, Dead
<1>7. ASSUME NEW left PROVE Terminated(left) \in [Viewport -> ChildState]
  BY <1>1 DEF Terminated, WindowTypes, ChildState
<1>8. CASE superSelect
  <2>1. /\ Lapses("early", \E v \in Listed : Ready(v)) /\ interrupted' = FALSE
        /\ errno' = "EINTR" /\ pc = "select" /\ UNCHANGED <<pc, rest>>
    BY <1>8 DEF superSelect
  <2>2. PICK v \in Viewport : /\ child' = [child EXCEPT ![v] = "reaped"]
                              /\ checkClosedChild' = (v \notin Listed)
    BY <1>8 DEF superSelect
  <2>3. checkClosedChild' \in BOOLEAN
    BY <2>2
  <2>4. lapses' \in SUBSET Accident
    BY <1>5, <2>1 DEF Accident
  <2> QED BY <1>1, <1>6, <2>1, <2>2, <2>3, <2>4 DEF ControlTypes
<1>9. CASE Waited
  <2>1. PICK v \in Viewport : child' = [child EXCEPT ![v] = "reaped"]
    BY <1>9 DEF Waited
  <2> QED BY <1>1, <1>6, <1>9, <2>1 DEF Waited, ControlTypes, LispTypes
<1>10. CASE ReadSpins \/ ReadReadyFails \/ AckMisread
  <2>1. /\ pc' \in {"spin", "desync"} /\ UNCHANGED <<rest, signalVars, child, lapses>>
    BY <1>10 DEF ReadSpins, ReadReadyFails, AckMisread, Abandon
  <2> QED BY <1>1, <2>1 DEF ControlTypes, WindowTypes, LispTypes, Final
<1>11. CASE forkFails
  <2>1. lapses' \in SUBSET Accident
    BY <1>5, <1>11 DEF forkFails, Accident
  <2> QED BY <1>1, <1>11, <2>1 DEF forkFails, Abandon, ControlTypes, WindowTypes, Final
<1>12. CASE goodbye
  BY <1>1, <1>7, <1>12 DEF goodbye, GoodbyeTo, ControlTypes, LispTypes, Final
<1>13. CASE goodbyeWaited
  <2>1. PICK z \in Viewport : child' = [Terminated(Tail(rest)) EXCEPT ![z] = "reaped"]
    BY <1>13 DEF goodbyeWaited
  <2>2. child' \in [Viewport -> ChildState]
    BY <1>7, <2>1 DEF ChildState, Dead
  <2>3. rest' \in Seq(Viewport)
    <3>1. rest \in Seq(Viewport) /\ rest' = Tail(rest) /\ rest # <<>>
      BY <1>1, <1>13 DEF goodbyeWaited, ControlTypes, TypeInv, ServesRequest
    <3> QED BY <3>1
  <2> QED BY <1>1, <1>13, <2>2, <2>3 DEF goodbyeWaited, ControlTypes, LispTypes, Final
<1> QED BY <1>8, <1>9, <1>10, <1>11, <1>12, <1>13

(* The windows and their users. *)
LEMMA WindowStepTypes ==
  ASSUME TypeInv, NEW v \in Viewport,
         ChildStep(v) \/ UserStep(v) \/ ChildExit(v) \/ Crash(v)
  PROVE  TypeInv'
<1> USE DEF graphVars, pickVars, signalVars, managerVars, childVars, boundVars
<1>1. ControlTypes /\ GraphTypes /\ WindowTypes /\ PipeTypes /\ LispTypes
  BY TypesInParts DEF TypeInv
<1>2. ASSUME UNCHANGED <<viewports, rest, viewCommand, errno, pc, cur, graphVars,
                         pickVars, spad, requests>>,
             checkClosedChild' \in BOOLEAN, interrupted' \in BOOLEAN,
             child' \in [Viewport -> ChildState], slots' \in [Viewport -> Keys2D],
             in' \in [Viewport -> Seq(FromChild)], out' \in [Viewport -> Seq(ToChild)],
             clicks' \in 0..MaxClicks, lapses' \in SUBSET Accident
      PROVE  TypeInv'
  <2>1. ControlTypes' /\ GraphTypes'
    BY <1>1, <1>2 DEF ControlTypes, GraphTypes
  <2>2. WindowTypes' /\ PipeTypes' /\ LispTypes'
    BY <1>1, <1>2 DEF WindowTypes, PipeTypes, LispTypes
  <2>3. PickedIsKnown' /\ ServesRequest'
    BY <1>2 DEF PickedIsKnown, ServesRequest, TypeInv
  <2>4. ControlTypes' /\ GraphTypes' /\ WindowTypes' /\ PipeTypes' /\ LispTypes'
          => ViewmanTypeOK'
    BY TypesInParts, PTL
  <2> QED BY <2>1, <2>2, <2>3, <2>4 DEF TypeInv
<1>3. ASSUME NEW s \in ChildState, Becomes(v, s)
      PROVE  child' \in [Viewport -> ChildState]
  BY <1>1, <1>3 DEF Becomes, WindowTypes
<1>4. slots[v] \in Keys2D /\ Closing(v) \in FromChild
  BY <1>1, MessageTypes DEF WindowTypes, Closing
<1>5. ASSUME NEW k \in Accident, NEW b, Lapses(k, b)
      PROVE  lapses' \in SUBSET Accident
  BY <1>1, <1>5 DEF Lapses, LispTypes
<1>6. ASSUME NEW ks \in Keys2D, NEW k \in Key \cup {0}, NEW s \in Slot
      PROVE  [ks EXCEPT ![s] = k] \in Keys2D
  BY DEF Keys2D
<1>7. CASE ChildStep(v)
  <2>1. /\ UNCHANGED <<viewports, rest, viewCommand, errno, pc, cur, graphVars,
                       pickVars, spad, requests, checkClosedChild, interrupted, lapses>>
        /\ ChildReady(v) \/ ChildMake(v) \/ ChildCommand(v) \/ ChildDrop(v)
    BY <1>7 DEF ChildStep
  <2>2. clicks' \in 0..MaxClicks
    BY <1>1, <2>1 DEF ChildReady, ChildMake, ChildCommand, ChildDrop, LispTypes
  <2> SUFFICES /\ child' \in [Viewport -> ChildState] /\ slots' \in [Viewport -> Keys2D]
               /\ in' \in [Viewport -> Seq(FromChild)]
               /\ out' \in [Viewport -> Seq(ToChild)]
    BY <1>1, <1>2, <2>1, <2>2 DEF ControlTypes, LispTypes
  <2>3. /\ <<[msg |-> "ready"]>> \in Seq(FromChild)
        /\ <<[msg |-> "window"]>> \in Seq(FromChild)
        /\ <<[msg |-> "ack"]>> \in Seq(FromChild)
    BY MessageTypes
  <2>4. <<[msg |-> "ack"], Closing(v)>> \in Seq(FromChild)
    <3>1. [msg |-> "ack"] \in FromChild
      BY MessageTypes
    <3> QED BY <1>4, <3>1
  <2>5. CASE ChildReady(v)
    <3>1. /\ Send(v, <<[msg |-> "ready"]>>) /\ Becomes(v, "starting")
          /\ UNCHANGED <<slots, out>>
      BY <2>5 DEF ChildReady
    <3>2. child' \in [Viewport -> ChildState]
      BY <1>3, <3>1 DEF ChildState
    <3>3. in' \in [Viewport -> Seq(FromChild)]
      BY <1>1, <2>3, <3>1, SendTypes
    <3> QED BY <1>1, <3>1, <3>2, <3>3 DEF WindowTypes, PipeTypes
  <2>6. CASE ChildMake(v)
    <3>1. /\ Receives(v, "make") /\ Received(v)
          /\ slots' = [slots EXCEPT ![v] = Head(out[v]).keys]
          /\ Send(v, <<[msg |-> "window"]>>) /\ Becomes(v, "idle")
      BY <2>6 DEF ChildMake
    <3>2. out' \in [Viewport -> Seq(ToChild)] /\ Head(out[v]) \in ToChild
      BY <1>1, <3>1, ReceivedTypes DEF Receives
    <3>3. Head(out[v]).keys \in Keys2D
      BY <3>1, <3>2, MessageFields DEF Receives
    <3>4. child' \in [Viewport -> ChildState]
      BY <1>3, <3>1 DEF ChildState
    <3>5. in' \in [Viewport -> Seq(FromChild)]
      BY <1>1, <2>3, <3>1, SendTypes
    <3> QED BY <1>1, <3>1, <3>2, <3>3, <3>4, <3>5 DEF WindowTypes
  <2>7. CASE ChildCommand(v)
    <3>1. /\ out[v] # <<>> /\ Received(v)
          /\ ChildPlain(v) \/ ChildPut(v) \/ ChildCloseAll(v) \/ ChildStuck(v)
      BY <2>7 DEF ChildCommand
    <3>2. out' \in [Viewport -> Seq(ToChild)] /\ Head(out[v]) \in ToChild
      BY <1>1, <3>1, ReceivedTypes
    <3>3. slots' \in [Viewport -> Keys2D]
      <4>1. CASE ChildPut(v)
        <5>1. Head(out[v]).key \in Key /\ Head(out[v]).slot \in Slot
          BY <3>2, <4>1, MessageFields DEF ChildPut, Receives
        <5>2. slots' = [slots EXCEPT ![v] = [slots[v] EXCEPT ![Head(out[v]).slot]
                                                              = Head(out[v]).key]]
          BY <4>1 DEF ChildPut
        <5>3. [slots[v] EXCEPT ![Head(out[v]).slot] = Head(out[v]).key] \in Keys2D
          BY <1>4, <1>6, <5>1
        <5> QED BY <1>1, <5>2, <5>3 DEF WindowTypes
      <4> QED BY <1>1, <3>1, <4>1 DEF ChildPlain, ChildCloseAll, ChildStuck, WindowTypes
    <3>4. child' \in [Viewport -> ChildState]
      BY <1>1, <1>3, <3>1 DEF ChildPlain, ChildPut, ChildCloseAll, ChildStuck,
         WindowTypes, ChildState
    <3>5. in' \in [Viewport -> Seq(FromChild)]
      <4>1. \/ Send(v, <<[msg |-> "ack"]>>) \/ Send(v, <<[msg |-> "ack"], Closing(v)>>)
            \/ in' = in
        BY <3>1 DEF ChildPlain, ChildPut, ChildCloseAll, ChildStuck
      <4> QED BY <1>1, <2>3, <2>4, <4>1, SendTypes DEF PipeTypes
    <3> QED BY <3>2, <3>3, <3>4, <3>5
  <2>8. CASE ChildDrop(v)
    <3>1. /\ Received(v) /\ Becomes(v, "idle") /\ UNCHANGED in /\ out[v] # <<>>
          /\ \/ UNCHANGED slots
             \/ /\ Receives(v, "viewOkay")
                /\ \E s \in Slot :
                     slots' = [slots EXCEPT ![v] = [slots[v] EXCEPT ![s] = Head(out[v]).key]]
      BY <2>8 DEF ChildDrop, Receives
    <3>2. out' \in [Viewport -> Seq(ToChild)] /\ Head(out[v]) \in ToChild
      BY <1>1, <3>1, ReceivedTypes
    <3>3. slots' \in [Viewport -> Keys2D]
      <4>1. CASE UNCHANGED slots
        BY <1>1, <4>1 DEF WindowTypes
      <4>2. CASE ~UNCHANGED slots
        <5>1. Head(out[v]).key \in Key
          BY <3>1, <3>2, <4>2, MessageFields DEF Receives
        <5>2. PICK s \in Slot :
                slots' = [slots EXCEPT ![v] = [slots[v] EXCEPT ![s] = Head(out[v]).key]]
          BY <3>1, <4>2
        <5>3. [slots[v] EXCEPT ![s] = Head(out[v]).key] \in Keys2D
          BY <1>4, <1>6, <5>1
        <5> QED BY <1>1, <5>2, <5>3 DEF WindowTypes
      <4> QED BY <4>1, <4>2
    <3>4. child' \in [Viewport -> ChildState]
      BY <1>3, <3>1 DEF ChildState
    <3> QED BY <1>1, <3>1, <3>2, <3>3, <3>4 DEF PipeTypes
  <2> QED BY <2>1, <2>5, <2>6, <2>7, <2>8
<1>8. CASE UserStep(v)
  <2>1. /\ Lapses("hasty", Awaited(v))
        /\ UNCHANGED <<viewports, rest, viewCommand, errno, pc, cur, graphVars,
                       pickVars, spad, requests, checkClosedChild, interrupted>>
        /\ Pick(v) \/ Drop(v) \/ CloseWindow(v)
    BY <1>8 DEF UserStep
  <2>2. lapses' \in SUBSET Accident
    BY <1>5, <2>1 DEF Accident
  <2>3. UNCHANGED <<slots, out>>
    BY <2>1 DEF Pick, Drop, CloseWindow
  <2>4. clicks' \in 0..MaxClicks
    BY <1>1, <2>1, ViewmanAssumption DEF Pick, Drop, CloseWindow, LispTypes
  <2>5. child' \in [Viewport -> ChildState]
    BY <1>1, <1>3, <2>1 DEF Pick, Drop, CloseWindow, WindowTypes, ChildState
  <2>6. in' \in [Viewport -> Seq(FromChild)]
    <3>1. CASE Pick(v)
      <4>1. PICK s \in Slot : /\ slots[v][s] # 0
                              /\ Send(v, <<[msg |-> "pick2D", key |-> slots[v][s]]>>)
        BY <3>1 DEF Pick
      <4>2. slots[v][s] \in Key
        BY <1>4, <4>1 DEF Keys2D
      <4>3. [msg |-> "pick2D", key |-> slots[v][s]] \in FromChild
        BY <4>2, MessageTypes
      <4>4. <<[msg |-> "pick2D", key |-> slots[v][s]]>> \in Seq(FromChild)
        BY <4>3
      <4> QED BY <1>1, <4>1, <4>4, SendTypes
    <3>2. CASE Drop(v)
      <4>1. <<[msg |-> "drop2D"]>> \in Seq(FromChild)
        BY MessageTypes
      <4> QED BY <1>1, <3>2, <4>1, SendTypes DEF Drop
    <3>3. CASE CloseWindow(v)
      <4>1. <<Closing(v)>> \in Seq(FromChild)
        BY <1>4
      <4> QED BY <1>1, <3>3, <4>1, SendTypes DEF CloseWindow
    <3> QED BY <2>1, <3>1, <3>2, <3>3
  <2> QED BY <1>1, <1>2, <2>1, <2>2, <2>3, <2>4, <2>5, <2>6
      DEF ControlTypes, WindowTypes, PipeTypes
<1>9. CASE ChildExit(v) \/ Crash(v)
  <2>1. Dies(v)
    BY <1>9 DEF ChildExit, Crash
  <2>2. lapses' \in SUBSET Accident
    BY <1>1, <1>5, <1>9 DEF ChildExit, Crash, Accident, LispTypes
  <2>3. child' \in [Viewport -> ChildState]
    BY <1>3, <2>1 DEF Dies, ChildState, Dead
  <2>4. checkClosedChild' \in BOOLEAN /\ interrupted' \in BOOLEAN
    BY <2>1 DEF Dies
  <2>5. UNCHANGED <<viewports, rest, viewCommand, errno, pc, cur, graphVars,
                    pickVars, spad, requests, clicks, slots, in, out>>
    BY <2>1 DEF Dies
  <2> QED BY <1>1, <1>2, <2>2, <2>3, <2>4, <2>5 DEF WindowTypes, PipeTypes, LispTypes
<1> QED BY <1>7, <1>8, <1>9

(* Lisp only names graphs and windows that there were. *)
LEMMA AskTypes ==
  ASSUME TypeInv, Ask
  PROVE  TypeInv'
<1> USE DEF graphVars, pickVars, signalVars, managerVars, childVars, boundVars
<1>1. ControlTypes /\ GraphTypes /\ WindowTypes /\ PipeTypes /\ LispTypes
  BY TypesInParts DEF TypeInv
<1>2. Made \subseteq Key
  BY <1>1, ViewmanAssumption DEF Made, Key, GraphTypes
<1>3. /\ UNCHANGED <<managerVars, childVars, clicks>>
      /\ requests < MaxRequests /\ requests' = requests + 1
      /\ Lapses("colour", spad'.req = "fun" /\ spad'.cmd = "axesColor2D")
  BY DEF Ask
<1>4. spad' \in Request
  <2>1. [req |-> "makeGraph"] \in Request /\ [req |-> "makeView3D"] \in Request
    BY DEF Request
  <2>2. ASSUME NEW ks \in [Slot -> Made \cup {0}]
        PROVE  [req |-> "makeView2D", keys |-> ks] \in Request
    <3>1. ks \in [Slot -> Key \cup {0}]
      BY <1>2
    <3> QED BY <3>1 DEF Request
  <2>3. ASSUME NEW v \in Viewport, NEW c \in Command \ {"putGraph"}
        PROVE  [req |-> "fun", cmd |-> c, view |-> v] \in Request
    BY DEF Request
  <2>4. ASSUME NEW v \in Flat, NEW k \in Made, NEW s \in Slot
        PROVE  [req |-> "fun", cmd |-> "putGraph", view |-> v, key |-> k, slot |-> s]
                 \in Request
    <3>1. v \in Viewport /\ k \in Key
      BY <1>2, ViewmanAssumption
    <3> QED BY <3>1 DEF Request
  <2> QED BY <2>1, <2>2, <2>3, <2>4 DEF Ask
<1>5. LispTypes'
  <2>1. lapses' \in SUBSET Accident
    BY <1>1, <1>3 DEF Lapses, LispTypes, Accident
  <2>2. requests' \in 0..MaxRequests /\ clicks' \in 0..MaxClicks
    BY <1>1, <1>3, ViewmanAssumption DEF LispTypes
  <2> QED BY <1>4, <2>1, <2>2 DEF LispTypes
<1>6. ControlTypes' /\ GraphTypes'
  BY <1>1, <1>3 DEF ControlTypes, GraphTypes
<1>7. WindowTypes' /\ PipeTypes'
  BY <1>1, <1>3 DEF WindowTypes, PipeTypes
<1>8. PickedIsKnown' /\ ServesRequest'
  BY <1>3, <1>4 DEF PickedIsKnown, ServesRequest, TypeInv
<1>9. ControlTypes' /\ GraphTypes' /\ WindowTypes' /\ PipeTypes' /\ LispTypes'
        => ViewmanTypeOK'
  BY TypesInParts, PTL
<1> QED BY <1>5, <1>6, <1>7, <1>8, <1>9 DEF TypeInv

(* Every step keeps the types. *)
LEMMA TypeStep == TypeInv /\ [ViewmanNext]_viewmanVars => TypeInv'
<1> SUFFICES ASSUME TypeInv, [ViewmanNext]_viewmanVars PROVE TypeInv'
  OBVIOUS
<1>1. CASE ManagerStep
  BY <1>1, ReadTypes, ServeTypes, ReapTypes DEF ManagerStep
<1>2. CASE forkFails \/ goodbye
  BY <1>2, ReapTypes
<1>3. CASE Ask
  BY <1>3, AskTypes
<1>4. CASE \E v \in Viewport : ChildStep(v) \/ UserStep(v) \/ ChildExit(v) \/ Crash(v)
  BY <1>4, WindowStepTypes
<1>5. CASE UNCHANGED viewmanVars
  <2>1. ViewmanTypeOK'
    BY <1>5, SMTT(30) DEF viewmanVars, managerVars, graphVars, pickVars, signalVars,
       childVars, boundVars, TypeInv, ViewmanTypeOK
  <2>2. PickedIsKnown' /\ ServesRequest'
    BY <1>5 DEF viewmanVars, managerVars, graphVars, pickVars, signalVars, childVars,
       boundVars, TypeInv, PickedIsKnown, ServesRequest
  <2> QED BY <2>1, <2>2 DEF TypeInv
<1> QED BY <1>1, <1>2, <1>3, <1>4, <1>5 DEF ViewmanNext

(* In every behaviour, whatever the windows, Lisp and the users do, every
   variable stays in its domain: no graph is sent that was never picked.   *)
THEOREM TypesKept == ViewmanSpec => []TypeInv
BY InitTypes, TypeStep, PTL DEF ViewmanSpec

-----------------------------------------------------------------------------
(* No window is forgotten *)

Running == {"select", "ready", "window", "ack"}

(* A window that will end by itself, or has. *)
Leaving == Dead \cup {"exiting", "termed"}
Gone(v) == child[v] \in Leaving \cup {"none"}

(* The list has each window once, and only windows that were started. *)
Once == \A i, j \in DOMAIN viewports : viewports[i] = viewports[j] => i = j
Started == \A v \in Listed \cup Range(rest) : child[v] # "none"

(* A window that says that it closes does. *)
ClosingIsLeaving ==
  \A v \in Viewport : \A i \in DOMAIN in[v] :
    in[v][i].msg = "viewportClosing" => child[v] \in Leaving

(* What is not in the list, or not on goodbye's, needs no signal any more. *)
OthersGone ==
  /\ pc \in Running \cup {"wait"} => \A v \in Viewport \ Listed : Gone(v)
  /\ pc = "goodbye" => \A v \in Viewport \ Range(Tail(rest)) : Gone(v)
  /\ pc = "exited" => \A v \in Viewport : Gone(v)

LeaveInv == Once /\ Started /\ ClosingIsLeaving /\ OthersGone

(* Messages that are taken, and those that are added, say no more. *)
LEMMA TakeClosing ==
  ASSUME TypeInv, ClosingIsLeaving, NEW v \in Viewport,
         in' = in \/ (in[v] # <<>> /\ Take(v)),
         \A w \in Viewport : child[w] \in Leaving => child'[w] \in Leaving
  PROVE  ClosingIsLeaving'
<1> SUFFICES ASSUME NEW w \in Viewport, NEW i \in DOMAIN in'[w],
                    in'[w][i].msg = "viewportClosing"
             PROVE  child'[w] \in Leaving
  BY DEF ClosingIsLeaving, Leaving
<1>1. in \in [Viewport -> Seq(FromChild)]
  BY TypesInParts DEF TypeInv, PipeTypes
<1>2. \E j \in DOMAIN in[w] : in[w][j] = in'[w][i]
  <2>1. CASE in'[w] = in[w]
    BY <2>1
  <2>2. CASE in'[w] # in[w]
    <3>1. w = v /\ in[v] # <<>> /\ in'[w] = Tail(in[w])
      BY <1>1, <2>2 DEF Take
    <3> DEFINE s == in[w]
    <3>2. s \in Seq(FromChild) /\ s # <<>> /\ i \in DOMAIN Tail(s) /\ in'[w] = Tail(s)
      BY <1>1, <3>1
    <3> HIDE DEF s
    <3>3. i + 1 \in DOMAIN s /\ Tail(s)[i] = s[i + 1]
      BY <3>2
    <3> QED BY <3>2, <3>3 DEF s
  <2> QED BY <2>1, <2>2
<1>3. child[w] \in Leaving
  BY <1>2 DEF ClosingIsLeaving
<1> QED BY <1>3

(* Only a viewport that leaves says that it closes. *)
LEMMA SendClosing ==
  ASSUME TypeInv, ClosingIsLeaving, NEW v \in Viewport, NEW ms \in Seq(FromChild),
         Send(v, ms),
         \/ child'[v] \in Leaving
         \/ child[v] \notin Leaving /\ \A i \in DOMAIN ms : ms[i].msg # "viewportClosing",
         \A w \in Viewport : child[w] \in Leaving => child'[w] \in Leaving
  PROVE  ClosingIsLeaving'
<1> SUFFICES ASSUME NEW w \in Viewport, NEW i \in DOMAIN in'[w],
                    in'[w][i].msg = "viewportClosing"
             PROVE  child'[w] \in Leaving
  BY DEF ClosingIsLeaving, Leaving
<1>1. in \in [Viewport -> Seq(FromChild)]
  BY TypesInParts DEF TypeInv, PipeTypes
<1>2. CASE w # v
  BY <1>1, <1>2 DEF Send, ClosingIsLeaving
<1>3. CASE w = v /\ child[v] \notin Leaving
                 /\ \A k \in DOMAIN ms : ms[k].msg # "viewportClosing"
  <2> DEFINE s == in[v]
  <2>1. s \in Seq(FromChild) /\ in'[w] = s \o ms
    BY <1>1, <1>3 DEF Send
  <2>2. i \in DOMAIN (s \o ms) /\ (s \o ms)[i].msg = "viewportClosing"
    BY <2>1
  <2>3. \A k \in DOMAIN s : s[k].msg # "viewportClosing"
    BY <1>3 DEF ClosingIsLeaving
  <2> HIDE DEF s
  <2>4. i \in 1..(Len(s) + Len(ms)) /\ Len(s) \in Nat /\ Len(ms) \in Nat
    BY <2>1, <2>2
  <2>5. CASE i <= Len(s)
    <3>1. i \in DOMAIN s /\ (s \o ms)[i] = s[i]
      BY <2>1, <2>4, <2>5
    <3> QED BY <2>2, <2>3, <3>1
  <2>6. CASE ~(i <= Len(s))
    <3>1. i - Len(s) \in DOMAIN ms /\ (s \o ms)[i] = ms[i - Len(s)]
      BY <2>1, <2>4, <2>6
    <3> QED BY <1>3, <2>2, <3>1
  <2> QED BY <2>5, <2>6
<1> QED BY <1>2, <1>3

(* Counting the processes that are not reaped. *)
LEMMA UnreapedFinite ==
  /\ IsFiniteSet(Unreaped)
  /\ Cardinality(Unreaped) \in Nat
<1>1. Unreaped \in SUBSET Viewport
  BY DEF Unreaped
<1>2. IsFiniteSet(Unreaped)
  BY <1>1, FS_Subset, ViewmanAssumption
<1> QED BY <1>2, FS_CardinalityType

(* Waiting for a child leaves one fewer to wait for. *)
LEMMA ReapOne ==
  ASSUME TypeInv, NEW z \in Viewport, child[z] = "zombie",
         \A w \in Viewport \ {z} :
           child'[w] \in {"none", "reaped"} <=> child[w] \in {"none", "reaped"},
         child'[z] = "reaped"
  PROVE  Cardinality(Unreaped)' = Cardinality(Unreaped) - 1
<1>1. Unreaped' = Unreaped \ {z} /\ z \in Unreaped
  BY DEF Unreaped
<1>2. Cardinality(Unreaped') = Cardinality(Unreaped \ {z})
  BY <1>1
<1> QED BY <1>1, <1>2, UnreapedFinite, FS_RemoveElement

(* Forking a child leaves one more to wait for. *)
LEMMA ForkOne ==
  ASSUME TypeInv, NEW v \in Viewport, child[v] = "none",
         child' = [child EXCEPT ![v] = "new"]
  PROVE  Cardinality(Unreaped)' = Cardinality(Unreaped) + 1
<1>1. child \in [Viewport -> ChildState]
  BY TypesInParts DEF TypeInv, WindowTypes
<1>2. Unreaped' = Unreaped \cup {v} /\ v \notin Unreaped
  BY <1>1 DEF Unreaped
<1>3. Cardinality(Unreaped') = Cardinality(Unreaped \cup {v})
  BY <1>2
<1> QED BY <1>2, <1>3, UnreapedFinite, FS_AddElement

(* Steps that leave the lists alone, and every window where it is with
   respect to being started, being told to go and being reaped.            *)
LEMMA QuietStep ==
  ASSUME TypeInv, LeaveInv, ReapingBalanced, ClosingIsLeaving',
         UNCHANGED <<viewports, rest>>, lapses \subseteq lapses',
         \/ pc' = pc
         \/ pc \in Running /\ pc' \in Running \cup {"quit", "spin", "desync"}
         \/ pc' \in {"quit", "spin", "desync"},
         \A w \in Viewport : /\ child'[w] = "none" <=> child[w] = "none"
                             /\ child'[w] = "reaped" <=> child[w] = "reaped"
                             /\ child[w] \in Leaving => child'[w] \in Leaving
  PROVE  LeaveInv' /\ ReapingBalanced'
<1>1. Unreaped' = Unreaped
  BY DEF Unreaped
<1>2. viewports \in Seq(Viewport) /\ rest \in Seq(Viewport)
  BY TypesInParts DEF TypeInv, ControlTypes
<1>3. Listed \subseteq Viewport /\ Range(rest) \subseteq Viewport
  BY <1>2 DEF Listed, Range
<1>4. Listed' = Listed /\ Range(rest)' = Range(rest) /\ Range(Tail(rest))' = Range(Tail(rest))
  BY DEF Listed
<1>5. Once' /\ Started'
  BY <1>3, <1>4 DEF LeaveInv, Once, Started
<1>6. \A w \in Viewport : Gone(w) => Gone(w)'
  BY DEF Gone
<1>7. OthersGone'
  BY <1>3, <1>4, <1>6 DEF LeaveInv, OthersGone, Running
<1>8. ReapingBalanced'
  <2>1. Cardinality(Unreaped') = Cardinality(Unreaped)
    BY <1>1
  <2> QED BY <2>1 DEF ReapingBalanced, Running
<1> QED BY <1>5, <1>7, <1>8 DEF LeaveInv

(* A listed window that is closing, or gone, is taken out of the list. *)
LEMMA CloseStep ==
  ASSUME TypeInv, LeaveInv, ReapingBalanced, NEW v \in Viewport, NEW ks,
         pc = "select", v \in Listed, child[v] \in Leaving,
         closeChildViewport(v, ks), UNCHANGED <<rest, child, lapses>>, ClosingIsLeaving'
  PROVE  LeaveInv' /\ ReapingBalanced'
<1> DEFINE i == CHOOSE i \in DOMAIN viewports : viewports[i] = v
<1>1. viewports \in Seq(Viewport)
  BY TypesInParts DEF TypeInv, ControlTypes
<1>2. i \in DOMAIN viewports /\ viewports[i] = v
  BY DEF Listed, Range
<1>3. viewports' = RemoveAt(viewports, i) /\ pc' = "wait"
  BY DEF closeChildViewport, CloseChild
<1> HIDE DEF i
<1>4. \A j, k \in DOMAIN viewports : viewports[j] = viewports[k] => j = k
  BY DEF LeaveInv, Once
<1>5. /\ viewports' \in Seq(Viewport) /\ Len(viewports') = Len(viewports) - 1
      /\ Range(viewports') = Range(viewports) \ {v}
      /\ \A j, k \in DOMAIN viewports' : viewports'[j] = viewports'[k] => j = k
  BY <1>1, <1>2, <1>3, <1>4, RemoveAtInjective
<1>6. Listed' = Listed \ {v}
  BY <1>5 DEF Listed
<1>7. Once' /\ Started'
  BY <1>5, <1>6 DEF LeaveInv, Once, Started
<1>8. OthersGone'
  BY <1>3, <1>6 DEF LeaveInv, OthersGone, Gone, Running
<1>9. ReapingBalanced'
  <2>1. Unreaped' = Unreaped
    BY DEF Unreaped
  <2>2. Cardinality(Unreaped') = Cardinality(Unreaped) /\ Len(viewports) \in Nat
    BY <1>1, <2>1
  <2> QED BY <1>3, <1>5, <2>2 DEF ReapingBalanced
<1> QED BY <1>7, <1>8, <1>9 DEF LeaveInv

(* Reading from a viewport keeps the account of who leaves. *)
LEMMA ReadLeaves ==
  ASSUME TypeInv, LeaveInv, ReapingBalanced, NEW v \in Viewport,
         ReadPick(v) \/ ReadDrop(v) \/ ReadClosing(v) \/ ReadEof(v)
  PROVE  LeaveInv' /\ ReapingBalanced'
<1> USE DEF boundVars
<1>1. pc = "select" /\ v \in Listed
  BY TurnListed DEF ReadPick, ReadDrop, ReadClosing, ReadEof
<1>2. UNCHANGED <<rest, child, lapses>>
  BY DEF ReadPick, ReadDrop, ReadClosing, ReadEof
<1>3. ClosingIsLeaving'
  <2>1. in' = in \/ (in[v] # <<>> /\ Take(v))
    BY DEF ReadPick, ReadDrop, ReadClosing, ReadEof, Says
  <2> QED BY <1>2, <2>1, TakeClosing DEF LeaveInv
<1>4. CASE ReadClosing(v)
  <2>1. /\ in[v] # <<>> /\ Head(in[v]).msg = "viewportClosing"
        /\ closeChildViewport(v, Head(in[v]).keys)
    BY <1>4 DEF ReadClosing, Says
  <2>2. child[v] \in Leaving
    <3>1. in[v] \in Seq(FromChild)
      BY TypesInParts DEF TypeInv, PipeTypes
    <3>2. 1 \in DOMAIN in[v] /\ Head(in[v]) = in[v][1]
      BY <2>1, <3>1
    <3> QED BY <2>1, <3>2 DEF LeaveInv, ClosingIsLeaving
  <2> QED BY <1>1, <1>2, <1>3, <2>1, <2>2, CloseStep
<1>5. CASE ReadEof(v) /\ viewCommand = "viewportClosing"
  <2>1. AtEof(v) /\ closeChildViewport(v, NoKeys)
    BY <1>5 DEF ReadEof
  <2>2. child[v] \in Leaving
    BY <2>1 DEF AtEof, Leaving
  <2> QED BY <1>1, <1>2, <1>3, <2>1, <2>2, CloseStep
<1>6. CASE ReadPick(v) \/ ReadDrop(v) \/ (ReadEof(v) /\ viewCommand # "viewportClosing")
  <2>1. UNCHANGED viewports /\ pc' \in {pc, "quit"}
    BY <1>6 DEF ReadPick, ReadDrop, ReadEof, DropTo, DropPicked
  <2> QED BY <1>1, <1>2, <1>3, <2>1, QuietStep DEF Running
<1> QED BY <1>4, <1>5, <1>6

(* What the manager does for Lisp, but for making windows, and giving up. *)
LEMMA ServeLeaves ==
  ASSUME TypeInv, LeaveInv, ReapingBalanced,
         \/ makeGraph \/ ReadReady \/ ReadWindow \/ funViewUnknown \/ funView \/ ReadAck
         \/ ReadSpins \/ ReadReadyFails \/ AckMisread \/ forkFails
  PROVE  LeaveInv' /\ ReapingBalanced'
<1> USE DEF boundVars, childVars
<1>1. UNCHANGED <<viewports, rest, child>>
  BY DEF makeGraph, ReadReady, ReadWindow, funViewUnknown, UnknownView, funView,
     ReadAck, ReadSpins, ReadReadyFails, AckMisread, forkFails, Abandon
<1>2. lapses \subseteq lapses'
  BY DEF makeGraph, ReadReady, ReadWindow, funViewUnknown, UnknownView, funView,
     ReadAck, ReadSpins, ReadReadyFails, AckMisread, forkFails, Lapses
<1>3. \/ pc' = pc
      \/ pc \in Running /\ pc' \in Running \cup {"quit", "spin", "desync"}
      \/ pc' \in {"quit", "spin", "desync"}
  BY DEF makeGraph, ReadReady, ReadWindow, funViewUnknown, UnknownView, funView,
     ReadAck, ReadSpins, ReadReadyFails, AckMisread, forkFails, Abandon, SpadTurn, Running
<1>4. in' = in \/ (cur \in Viewport /\ in[cur] # <<>> /\ Take(cur))
  <2>1. CASE ReadReady \/ ReadWindow \/ ReadAck
    BY <2>1 DEF ReadReady, ReadWindow, ReadAck, Says, TypeInv, ServesRequest
  <2>2. CASE ~(ReadReady \/ ReadWindow \/ ReadAck)
    BY <2>2 DEF makeGraph, funViewUnknown, UnknownView, funView, ReadSpins,
       ReadReadyFails, AckMisread, forkFails, Abandon
  <2> QED BY <2>1, <2>2
<1>5. ClosingIsLeaving'
  <2>1. CASE in' = in
    BY <1>1, <2>1 DEF LeaveInv, ClosingIsLeaving
  <2>2. CASE in' # in
    BY <1>1, <1>4, <2>2, TakeClosing DEF LeaveInv
  <2> QED BY <2>1, <2>2
<1> QED BY <1>1, <1>2, <1>3, <1>5, QuietStep

(* A window that is made is the newest of the list. *)
LEMMA ForkLeaves ==
  ASSUME TypeInv, LeaveInv, ReapingBalanced, NEW v \in Viewport, forkView(v)
  PROVE  LeaveInv' /\ ReapingBalanced'
<1>1. /\ child[v] = "none" /\ child' = [child EXCEPT ![v] = "new"]
      /\ viewports' = <<v>> \o viewports /\ pc = "select" /\ pc' = "ready"
      /\ UNCHANGED <<rest, in, lapses>>
  BY DEF forkView, SpadTurn, boundVars
<1>2. viewports \in Seq(Viewport) /\ child \in [Viewport -> ChildState]
      /\ rest \in Seq(Viewport)
  BY TypesInParts DEF TypeInv, ControlTypes, WindowTypes
<1>3. v \notin Range(viewports) /\ v \notin Range(rest)
  BY <1>1 DEF LeaveInv, Started, Listed
<1>4. \A j, k \in DOMAIN viewports : viewports[j] = viewports[k] => j = k
  BY DEF LeaveInv, Once
<1>5. /\ Len(viewports') = Len(viewports) + 1
      /\ Range(viewports') = Range(viewports) \cup {v}
      /\ \A j, k \in DOMAIN viewports' : viewports'[j] = viewports'[k] => j = k
  BY <1>1, <1>2, <1>3, <1>4, FrontInjective
<1>6. Listed' = Listed \cup {v} /\ Listed \subseteq Viewport /\ Range(rest) \subseteq Viewport
  BY <1>2, <1>5 DEF Listed, Range
<1>7. Once'
  BY <1>5 DEF Once
<1>8. Started'
  BY <1>1, <1>2, <1>6 DEF LeaveInv, Started
<1>9. ClosingIsLeaving'
  BY <1>1, <1>2 DEF LeaveInv, ClosingIsLeaving, Leaving, Dead
<1>10. OthersGone'
  BY <1>1, <1>2, <1>6 DEF LeaveInv, OthersGone, Gone, Running
<1>11. ReapingBalanced'
  <2>1. Cardinality(Unreaped)' = Cardinality(Unreaped) + 1
    BY <1>1, ForkOne
  <2> QED BY <1>1, <1>5, <2>1 DEF ReapingBalanced
<1> QED BY <1>7, <1>8, <1>9, <1>10, <1>11 DEF LeaveInv

(* superSelect only takes a process that nobody reads any more: as many are
   not reaped as are listed, so that it would be one of the list.          *)
LEMMA SelectLeaves ==
  ASSUME TypeInv, LeaveInv, ReapingBalanced, superSelect
  PROVE  LeaveInv' /\ ReapingBalanced'
<1>1. PICK v \in Viewport : child[v] = "zombie" /\ child' = [child EXCEPT ![v] = "reaped"]
  BY DEF superSelect
<1>2. /\ pc = "select" /\ UNCHANGED <<viewports, rest, in, pc>>
      /\ Lapses("early", \E w \in Listed : Ready(w))
  BY DEF superSelect
<1>3. viewports \in Seq(Viewport) /\ child \in [Viewport -> ChildState]
      /\ rest \in Seq(Viewport)
  BY TypesInParts DEF TypeInv, ControlTypes, WindowTypes
<1>4. Listed \subseteq Viewport /\ Range(rest) \subseteq Viewport
  BY <1>3 DEF Listed, Range
<1>5. Once' /\ Started'
  BY <1>1, <1>2, <1>3, <1>4 DEF LeaveInv, Once, Started, Listed
<1>6. ClosingIsLeaving'
  BY <1>1, <1>2, <1>3 DEF LeaveInv, ClosingIsLeaving, Leaving, Dead
<1>7. OthersGone'
  BY <1>1, <1>2, <1>3, <1>4 DEF LeaveInv, OthersGone, Gone, Leaving, Dead, Running, Listed
<1>8. ReapingBalanced'
  <2> SUFFICES ASSUME "early" \notin lapses' PROVE FALSE
    BY DEF ReapingBalanced
  <2>1. "early" \notin lapses /\ \A w \in Listed : ~Ready(w)
    BY <1>2 DEF Lapses
  <2>2. Cardinality(Unreaped) = Len(viewports)
    BY <1>2, <2>1 DEF ReapingBalanced
  <2>3. Cardinality(Listed) = Len(viewports)
    BY <1>3, ListCardinality DEF LeaveInv, Once, Listed
  <2>4. Listed \in SUBSET Unreaped
    BY <1>4, <2>1 DEF LeaveInv, Started, Ready, Unreaped, Dead
  <2>5. Unreaped = Listed
    BY <2>2, <2>3, <2>4, UnreapedFinite, FS_Subset
  <2>6. v \in Unreaped
    BY <1>1 DEF Unreaped
  <2>7. Ready(v)
    BY <1>1 DEF Ready, Dead
  <2> QED BY <2>1, <2>5, <2>6, <2>7
<1> QED BY <1>5, <1>6, <1>7, <1>8 DEF LeaveInv

(* The wait for a window that was closed takes one process, whichever. *)
LEMMA WaitLeaves ==
  ASSUME TypeInv, LeaveInv, ReapingBalanced, Waited
  PROVE  LeaveInv' /\ ReapingBalanced'
<1>1. PICK v \in Viewport : child[v] = "zombie" /\ child' = [child EXCEPT ![v] = "reaped"]
  BY DEF Waited
<1>2. /\ pc = "wait" /\ pc' = "select" /\ UNCHANGED <<viewports, rest, in, lapses>>
  BY DEF Waited, boundVars
<1>3. viewports \in Seq(Viewport) /\ child \in [Viewport -> ChildState]
      /\ rest \in Seq(Viewport)
  BY TypesInParts DEF TypeInv, ControlTypes, WindowTypes
<1>4. Listed \subseteq Viewport /\ Range(rest) \subseteq Viewport
  BY <1>3 DEF Listed, Range
<1>5. Once' /\ Started'
  BY <1>1, <1>2, <1>3, <1>4 DEF LeaveInv, Once, Started, Listed
<1>6. ClosingIsLeaving'
  BY <1>1, <1>2, <1>3 DEF LeaveInv, ClosingIsLeaving, Leaving, Dead
<1>7. OthersGone'
  BY <1>1, <1>2, <1>3, <1>4 DEF LeaveInv, OthersGone, Gone, Leaving, Dead, Running, Listed
<1>8. ReapingBalanced'
  <2>1. Cardinality(Unreaped)' = Cardinality(Unreaped) - 1
    BY <1>1, <1>3, ReapOne
  <2>2. Len(viewports) \in Nat
    BY <1>3
  <2> QED BY <1>2, <2>1, <2>2 DEF ReapingBalanced
<1> QED BY <1>5, <1>6, <1>7, <1>8 DEF LeaveInv

(* A signal to the next window of goodbye's list changes no count. *)
LEMMA TerminatedWindows ==
  ASSUME TypeInv, NEW left \in Seq(Viewport),
         \A w \in Range(left) : child[w] # "none"
  PROVE  \A w \in Viewport :
           /\ Terminated(left)[w] = "none" <=> child[w] = "none"
           /\ Terminated(left)[w] = "reaped" <=> child[w] = "reaped"
           /\ child[w] = "zombie" => Terminated(left)[w] = "zombie"
           /\ child[w] \in Leaving => Terminated(left)[w] \in Leaving
           /\ left # <<>> /\ w = Head(left) => Terminated(left)[w] \in Leaving
<1>1. left # <<>> => Head(left) \in Range(left)
  BY TailRange
<1>2. child \in [Viewport -> ChildState]
  BY TypesInParts DEF TypeInv, WindowTypes
<1> QED BY <1>1, <1>2 DEF Terminated, Leaving, Dead

(* So does goodbye, which tells the viewports to close, *)
LEMMA GoodbyeLeaves ==
  ASSUME TypeInv, LeaveInv, ReapingBalanced, goodbye
  PROVE  LeaveInv' /\ ReapingBalanced'
<1>1. /\ pc \in Running \cup {"wait"} \/ pc \notin Running \cup Final \cup {"wait", "goodbye"}
      /\ rest' = viewports /\ child' = Terminated(viewports)
      /\ pc' = (IF viewports = <<>> THEN "exited" ELSE "goodbye")
      /\ UNCHANGED <<viewports, in, lapses>>
  BY DEF goodbye, GoodbyeTo, Running, Final, boundVars
<1>2. viewports \in Seq(Viewport) /\ child \in [Viewport -> ChildState]
      /\ pc \in Running \cup {"wait"}
  BY <1>1, TypesInParts DEF TypeInv, ControlTypes, WindowTypes, Running
<1>3. \A w \in Listed : child[w] # "none"
  BY DEF LeaveInv, Started
<1> DEFINE now == Terminated(viewports)
<1>4. \A w \in Viewport :
        /\ now[w] = "none" <=> child[w] = "none"
        /\ now[w] = "reaped" <=> child[w] = "reaped"
        /\ child[w] \in Leaving => now[w] \in Leaving
        /\ viewports # <<>> /\ w = Head(viewports) => now[w] \in Leaving
  BY <1>2, <1>3, TerminatedWindows DEF Listed
<1> HIDE DEF now
<1>5. child' = now
  BY <1>1 DEF now
<1>6. Listed \subseteq Viewport /\ Listed' = Listed /\ Range(rest)' = Listed
  BY <1>1, <1>2 DEF Listed, Range
<1>7. Once' /\ Started'
  BY <1>1, <1>3, <1>4, <1>5, <1>6 DEF LeaveInv, Once, Started
<1>8. ClosingIsLeaving'
  BY <1>1, <1>4, <1>5 DEF LeaveInv, ClosingIsLeaving, Leaving
<1>9. \A w \in Viewport \ Listed : Gone(w)'
  BY <1>2, <1>4, <1>5 DEF LeaveInv, OthersGone, Gone
<1>10. OthersGone'
  <2>1. CASE viewports = <<>>
    <3>1. Listed = {}
      BY <2>1 DEF Listed, Range
    <3> QED BY <1>1, <1>9, <2>1, <3>1 DEF OthersGone, Running
  <2>2. CASE viewports # <<>>
    <3>1. PICK h \in Viewport : /\ h = Head(viewports)
                               /\ Listed = Range(Tail(viewports)) \cup {h}
      BY <1>2, <2>2, TailRange DEF Listed
    <3>2. Gone(h)'
      BY <1>4, <1>5, <2>2, <3>1 DEF Gone
    <3> QED BY <1>1, <1>9, <2>2, <3>1, <3>2 DEF OthersGone, Running
  <2> QED BY <2>1, <2>2
<1>11. ReapingBalanced'
  <2>1. Unreaped' = Unreaped
    BY <1>4, <1>5 DEF Unreaped
  <2>2. Cardinality(Unreaped') = Cardinality(Unreaped) /\ Len(viewports) \in Nat
    BY <1>2, <2>1
  <2> QED BY <1>1, <1>2, <2>2 DEF ReapingBalanced, Running
<1> QED BY <1>7, <1>8, <1>10, <1>11 DEF LeaveInv

(* and its waiting for them. *)
LEMMA GoodbyeWaitLeaves ==
  ASSUME TypeInv, LeaveInv, ReapingBalanced, goodbyeWaited
  PROVE  LeaveInv' /\ ReapingBalanced'
<1> DEFINE left == Tail(rest)
           now == Terminated(left)
<1>1. PICK z \in Viewport : child[z] = "zombie" /\ child' = [now EXCEPT ![z] = "reaped"]
  BY DEF goodbyeWaited
<1>2. /\ pc = "goodbye" /\ rest' = left
      /\ pc' = (IF left = <<>> THEN "exited" ELSE "goodbye")
      /\ UNCHANGED <<viewports, in, lapses>>
  BY DEF goodbyeWaited, boundVars
<1>3. rest \in Seq(Viewport) /\ rest # <<>> /\ child \in [Viewport -> ChildState]
      /\ viewports \in Seq(Viewport)
  BY <1>2, TypesInParts DEF TypeInv, ControlTypes, WindowTypes, ServesRequest
<1>4. left \in Seq(Viewport) /\ Len(left) = Len(rest) - 1 /\ Range(left) \subseteq Range(rest)
  BY <1>3, TailRange
<1>5. \A w \in Range(left) : child[w] # "none"
  BY <1>4 DEF LeaveInv, Started
<1>6. \A w \in Viewport :
        /\ now[w] = "none" <=> child[w] = "none"
        /\ now[w] = "reaped" <=> child[w] = "reaped"
        /\ child[w] \in Leaving => now[w] \in Leaving
        /\ left # <<>> /\ w = Head(left) => now[w] \in Leaving
  <2> HIDE DEF left
  <2> QED BY <1>4, <1>5, TerminatedWindows
<1>7. now \in [Viewport -> ChildState]
  BY <1>3 DEF Terminated, WindowTypes, ChildState
<1> HIDE DEF now
<1>8. \A w \in Viewport : child'[w] = IF w = z THEN "reaped" ELSE now[w]
  BY <1>1, <1>7
<1>9. Listed \subseteq Viewport /\ Range(rest) \subseteq Viewport /\ Listed' = Listed
  BY <1>2, <1>3 DEF Listed, Range
<1>10. Once' /\ Started'
  BY <1>1, <1>2, <1>4, <1>6, <1>8, <1>9 DEF LeaveInv, Once, Started
<1>11. \A w \in Viewport : /\ child[w] \in Leaving => child'[w] \in Leaving
                           /\ Gone(w) => Gone(w)'
  BY <1>6, <1>8 DEF Gone, Leaving, Dead
<1>12. ClosingIsLeaving'
  BY <1>2, <1>11 DEF LeaveInv, ClosingIsLeaving, Leaving
<1>13. \A w \in Viewport \ Range(left) : Gone(w)'
  BY <1>2, <1>11 DEF LeaveInv, OthersGone
<1>14. OthersGone'
  <2>1. CASE left = <<>>
    <3>1. Range(left) = {}
      BY <2>1 DEF Range
    <3> QED BY <1>2, <1>13, <2>1, <3>1 DEF OthersGone, Running
  <2>2. CASE left # <<>>
    <3> HIDE DEF left
    <3>1. PICK h \in Viewport : h = Head(left) /\ Range(left) = Range(Tail(left)) \cup {h}
      BY <1>4, <2>2, TailRange
    <3>2. Gone(h)'
      BY <1>6, <1>8, <2>2, <3>1 DEF Gone, Leaving, Dead
    <3>3. Range(Tail(rest))' = Range(Tail(left))
      BY <1>2
    <3> QED BY <3>3, <1>2, <1>13, <2>2, <3>1, <3>2 DEF OthersGone, Running
  <2> QED BY <2>1, <2>2
<1>15. ReapingBalanced'
  <2>1. Cardinality(Unreaped)' = Cardinality(Unreaped) - 1
    BY <1>1, <1>6, <1>8, ReapOne
  <2>2. Len(rest') = Len(rest) - 1 /\ Len(rest) \in Nat
    BY <1>2, <1>3, <1>4
  <2>3. "early" \notin lapses => Cardinality(Unreaped) >= Len(rest)
    BY <1>2 DEF ReapingBalanced
  <2>4. pc' \notin {"select", "ready", "window", "ack", "wait"}
    BY <1>2
  <2> HIDE DEF left
  <2>5. "early" \notin lapses => Cardinality(Unreaped)' >= Len(rest')
    BY <2>1, <2>2, <2>3, UnreapedFinite
  <2> QED BY <1>2, <2>4, <2>5 DEF ReapingBalanced
<1> QED BY <1>10, <1>12, <1>14, <1>15 DEF LeaveInv

(* The windows end when they say that they do, and by themselves. *)
LEMMA WindowLeaves ==
  ASSUME TypeInv, LeaveInv, ReapingBalanced, NEW v \in Viewport,
         ChildStep(v) \/ UserStep(v) \/ ChildExit(v) \/ Crash(v)
  PROVE  LeaveInv' /\ ReapingBalanced'
<1> USE DEF managerVars, boundVars
<1>1. child \in [Viewport -> ChildState]
  BY TypesInParts DEF TypeInv, WindowTypes
<1>2. UNCHANGED <<viewports, rest, pc>>
  BY DEF ChildStep, UserStep, ChildExit, Crash, Dies
<1>3. lapses \subseteq lapses'
  BY DEF ChildStep, UserStep, ChildExit, Crash, Lapses
<1>4. \/ child' = child
      \/ \E s \in ChildState \ {"none", "reaped"} :
           /\ child' = [child EXCEPT ![v] = s]
           /\ child[v] \notin {"none", "reaped"}
           /\ child[v] \in Leaving => s \in Leaving
  <2>1. CASE ChildStep(v)
    BY <2>1 DEF ChildStep, ChildReady, ChildMake, ChildCommand, ChildPlain, ChildPut,
       ChildCloseAll, ChildStuck, ChildDrop, Becomes, ChildState, Leaving, Dead
  <2>2. CASE UserStep(v)
    BY <2>2 DEF UserStep, Pick, Drop, CloseWindow, Becomes, ChildState, Leaving, Dead
  <2>3. CASE ChildExit(v) \/ Crash(v)
    BY <2>3 DEF ChildExit, Crash, Dies, Becomes, ChildState, Leaving, Dead
  <2> QED BY <2>1, <2>2, <2>3
<1>5. \A w \in Viewport : /\ child'[w] = "none" <=> child[w] = "none"
                          /\ child'[w] = "reaped" <=> child[w] = "reaped"
                          /\ child[w] \in Leaving => child'[w] \in Leaving
  BY <1>1, <1>4
<1>6. ClosingIsLeaving'
  <2>1. CASE in' = in
    BY <1>5, <2>1 DEF LeaveInv, ClosingIsLeaving, Leaving
  <2>2. CASE in' # in
    <3>1. CASE child'[v] = "exiting"
      <4>1. PICK ms \in {<<[msg |-> "ack"], Closing(v)>>, <<Closing(v)>>} : Send(v, ms)
        BY <1>1, <2>2, <3>1 DEF ChildStep, ChildReady, ChildMake, ChildCommand, ChildPlain,
           ChildPut, ChildCloseAll, ChildStuck, ChildDrop, UserStep, Pick, Drop,
           CloseWindow, ChildExit, Crash, Dies, Becomes
      <4>2. ms \in Seq(FromChild)
        <5>1. Closing(v) \in FromChild /\ [msg |-> "ack"] \in FromChild
          BY TypesInParts, MessageTypes DEF TypeInv, WindowTypes, Closing
        <5>2. /\ <<[msg |-> "ack"], Closing(v)>> \in Seq(FromChild)
              /\ <<Closing(v)>> \in Seq(FromChild)
          BY <5>1
        <5> QED BY <4>1, <5>2
      <4> QED BY <1>5, <3>1, <4>1, <4>2, SendClosing DEF LeaveInv, Leaving
    <3>2. CASE child'[v] # "exiting"
      <4>1. child[v] \notin Leaving
        BY <1>1, <2>2, <3>2 DEF ChildStep, ChildReady, ChildMake, ChildCommand, ChildPlain,
           ChildPut, ChildCloseAll, ChildStuck, ChildDrop, UserStep, Pick, Drop,
           CloseWindow, ChildExit, Crash, Dies, Becomes, Leaving, Dead
      <4>2. PICK m : /\ Send(v, <<m>>)
                     /\ \/ m \in {[msg |-> "ready"], [msg |-> "window"], [msg |-> "ack"],
                                  [msg |-> "drop2D"]}
                        \/ \E s \in Slot : /\ slots[v][s] # 0
                                           /\ m = [msg |-> "pick2D", key |-> slots[v][s]]
        BY <1>1, <2>2, <3>2 DEF ChildStep, ChildReady, ChildMake, ChildCommand, ChildPlain,
           ChildPut, ChildCloseAll, ChildStuck, ChildDrop, UserStep, Pick, Drop,
           CloseWindow, ChildExit, Crash, Dies, Becomes
      <4>3. m \in FromChild /\ m.msg # "viewportClosing"
        <5>1. slots[v] \in Keys2D
          BY TypesInParts DEF TypeInv, WindowTypes
        <5>2. \A s \in Slot : slots[v][s] # 0 => slots[v][s] \in Key
          BY <5>1 DEF Keys2D
        <5> QED BY <4>2, <5>2, MessageTypes
      <4>4. <<m>> \in Seq(FromChild) /\ \A i \in DOMAIN <<m>> : <<m>>[i] = m
        BY <4>3
      <4> QED BY <1>5, <4>1, <4>2, <4>3, <4>4, SendClosing DEF LeaveInv
    <3> QED BY <3>1, <3>2
  <2> QED BY <2>1, <2>2
<1> QED BY <1>2, <1>3, <1>5, <1>6, QuietStep

(* Every step keeps the account of who leaves and who was waited for. *)
LEMMA LeaveStep ==
  TypeInv /\ LeaveInv /\ ReapingBalanced /\ [ViewmanNext]_viewmanVars
    => LeaveInv' /\ ReapingBalanced'
<1> SUFFICES ASSUME TypeInv, LeaveInv, ReapingBalanced, [ViewmanNext]_viewmanVars
             PROVE  LeaveInv' /\ ReapingBalanced'
  OBVIOUS
<1>1. CASE ManagerStep
  BY <1>1, SelectLeaves, WaitLeaves, ReadLeaves, ForkLeaves, ServeLeaves,
     GoodbyeWaitLeaves DEF ManagerStep
<1>2. CASE forkFails \/ goodbye
  BY <1>2, ServeLeaves, GoodbyeLeaves
<1>3. CASE \E v \in Viewport : ChildStep(v) \/ UserStep(v) \/ ChildExit(v) \/ Crash(v)
  BY <1>3, WindowLeaves
<1>4. CASE Ask
  <2>1. UNCHANGED <<viewports, rest, pc, child, in>> /\ lapses \subseteq lapses'
    BY <1>4 DEF Ask, managerVars, childVars, Lapses
  <2>2. ClosingIsLeaving'
    BY <2>1 DEF LeaveInv, ClosingIsLeaving
  <2> QED BY <2>1, <2>2, QuietStep
<1>5. CASE UNCHANGED viewmanVars
  <2>1. UNCHANGED <<viewports, rest, pc, child, in, lapses>>
    BY <1>5 DEF viewmanVars, managerVars, childVars, boundVars
  <2>2. ClosingIsLeaving'
    BY <2>1 DEF LeaveInv, ClosingIsLeaving
  <2> QED BY <2>1, <2>2, QuietStep
<1> QED BY <1>1, <1>2, <1>3, <1>4, <1>5 DEF ViewmanNext

(* Nobody has left at the start. *)
LEMMA InitLeaves == ViewmanInit => LeaveInv /\ ReapingBalanced
<1> SUFFICES ASSUME ViewmanInit PROVE LeaveInv /\ ReapingBalanced
  OBVIOUS
<1> USE DEF ViewmanInit
<1>1. Listed = {} /\ Range(rest) = {}
  BY DEF Listed, Range
<1>2. LeaveInv
  BY <1>1 DEF LeaveInv, Once, Started, ClosingIsLeaving, OthersGone, Gone, Running
<1>3. Unreaped = {}
  BY DEF Unreaped
<1>4. Cardinality(Unreaped) = 0 /\ Len(viewports) = 0
  BY <1>3, FS_EmptySet
<1> QED BY <1>2, <1>4 DEF ReapingBalanced

(* The list has each window once, no window that closes is on it, and there
   are as many processes to wait for as the manager will wait for.         *)
THEOREM ReapingInvariant == ViewmanSpec => [](TypeInv /\ LeaveInv /\ ReapingBalanced)
BY InitTypes, TypeStep, InitLeaves, LeaveStep, PTL DEF ViewmanSpec

(* The wait of closeChildViewport and those of goodbye always have a child to
   wait for, and a manager that has exited has told every window to go: for
   any windows that crash, close, or are asked to, at any moment.          *)
THEOREM NobodyForgotten == ViewmanSpec => []NoneForgotten
<1>1. TypeInv /\ LeaveInv /\ ReapingBalanced => NoneForgotten
  BY DEF LeaveInv, OthersGone, Gone, Leaving, NoneForgotten
<1> QED BY <1>1, ReapingInvariant, PTL

-----------------------------------------------------------------------------
(* What is shown is recorded *)

(* How many slots a message may put a graph in. *)
Puts(m, k) ==
  IF m.msg = "make" THEN Occurrences(k, m.keys)
  ELSE IF m.msg \in {"putGraph", "viewOkay"} /\ m.key = k THEN 1 ELSE 0

(* b bounds how often a window will show a graph, after each of the messages
   that it has still to read; there are records for it.                    *)
Enough(v, k) ==
  \E b \in [0 .. Len(out[v]) -> 0 .. links[k][v]] :
    /\ Occurrences(k, slots[v]) <= b[0]
    /\ \A i \in DOMAIN out[v] : b[i - 1] + Puts(out[v][i], k) <= b[i]

Wanted(v, k) ==
  \/ Occurrences(k, slots[v]) > 0
  \/ \E i \in DOMAIN out[v] : Puts(out[v][i], k) > 0

(* What a listed window shows, or was told to show, is recorded, and listed. *)
Safe(v, k) == Enough(v, k) /\ (Wanted(v, k) => k \in graphList)
AllSafe == pc \notin Final => \A v \in Listed, k \in Key : Safe(v, k)

(* A window that has not been started shows nothing and was sent nothing. *)
Unborn == \A v \in Viewport : child[v] = "none" => out[v] = <<>> /\ slots[v] = NoKeys

ServesListed == pc \in {"ready", "window", "ack"} => cur \in Listed

RecordInv == AllSafe /\ Unborn /\ ServesListed

(* A new picture in a slot: one key comes there at most once more. *)
LEMMA OccurrencesPut ==
  ASSUME NEW ks \in Keys2D, NEW s \in Slot, NEW x, NEW k
  PROVE  Occurrences(k, [ks EXCEPT ![s] = x])
           <= Occurrences(k, ks) + (IF x = k THEN 1 ELSE 0)
<1> DEFINE old == {t \in Slot : ks[t] = k}
           new == {t \in Slot : [ks EXCEPT ![s] = x][t] = k}
<1>1. IsFiniteSet(old) /\ IsFiniteSet(new)
  BY ViewmanAssumption, FS_Subset
<1>2. Cardinality(old) \in Nat /\ Cardinality(new) \in Nat
  BY <1>1, FS_CardinalityType
<1>3. CASE x = k
  <2>1. new \in SUBSET (old \cup {s})
    BY <1>3 DEF Keys2D
  <2>2. /\ IsFiniteSet(old \cup {s})
        /\ Cardinality(old \cup {s}) = IF s \in old THEN Cardinality(old) ELSE Cardinality(old) + 1
    BY <1>1, FS_AddElement
  <2>3. Cardinality(new) <= Cardinality(old \cup {s})
    BY <2>1, <2>2, FS_Subset
  <2>4. Cardinality(new) <= Cardinality(old) + 1
    BY <1>2, <2>2, <2>3
  <2> QED BY <1>3, <2>4 DEF Occurrences
<1>4. CASE x # k
  <2>1. new \in SUBSET old
    BY <1>4 DEF Keys2D
  <2>2. Cardinality(new) <= Cardinality(old)
    BY <1>1, <2>1, FS_Subset
  <2> QED BY <1>2, <1>4, <2>2 DEF Occurrences
<1> QED BY <1>3, <1>4

(* A window without pictures shows no graph. *)
LEMMA NothingShown == \A k \in Key : Occurrences(k, NoKeys) = 0
<1> SUFFICES ASSUME NEW k \in Key PROVE Occurrences(k, NoKeys) = 0
  OBVIOUS
<1>1. {s \in Slot : NoKeys[s] = k} = {}
  BY DEF NoKeys, Key
<1> QED BY <1>1, FS_EmptySet DEF Occurrences

(* The counts of messages are counts. *)
LEMMA PutsNat == \A m, k : Puts(m, k) \in Nat
BY OccurrencesNat DEF Puts

(* What a window wants is recorded at least once. *)
LEMMA WantedRecorded ==
  ASSUME TypeInv, NEW v \in Viewport, NEW k \in Key, Enough(v, k)
  PROVE  /\ links[k][v] \in Nat
         /\ Occurrences(k, slots[v]) <= links[k][v]
         /\ Wanted(v, k) => links[k][v] > 0
<1> DEFINE o == out[v]
           n == Len(o)
           r == links[k][v]
           c == Occurrences(k, slots[v])
<1>1. o \in Seq(ToChild) /\ r \in Nat /\ c \in Nat
  BY OccurrencesNat, TypesInParts DEF TypeInv, PipeTypes, GraphTypes, LinkTable
<1>2. n \in Nat /\ DOMAIN o = 1 .. n
  BY <1>1
<1>3. PICK b \in [0 .. n -> 0 .. r] :
        c <= b[0] /\ \A i \in DOMAIN o : b[i - 1] + Puts(o[i], k) <= b[i]
  BY DEF Enough
<1> HIDE DEF o, n, r, c
<1>4. b[0] \in 0 .. r
  BY <1>2, <1>3
<1>5. c <= r /\ (c > 0 => r > 0)
  BY <1>1, <1>3, <1>4
<1>6. ASSUME NEW i \in DOMAIN o, Puts(o[i], k) > 0
      PROVE  r > 0
  <2>1. i - 1 \in 0 .. n /\ i \in 0 .. n
    BY <1>2
  <2>2. b[i - 1] \in Nat /\ b[i] \in 0 .. r /\ Puts(o[i], k) \in Nat
    BY <1>1, <1>3, <2>1, PutsNat
  <2>3. b[i - 1] + Puts(o[i], k) <= b[i]
    BY <1>3
  <2> QED BY <1>1, <1>6, <2>2, <2>3
<1>7. Wanted(v, k) => r > 0
  BY <1>5, <1>6 DEF Wanted, o, c
<1> QED BY <1>1, <1>5, <1>7 DEF r, c

(* A window of which nothing is taken. *)
LEMMA EnoughStays ==
  ASSUME TypeInv, NEW v \in Viewport, NEW k \in Key, Enough(v, k),
         out'[v] = out[v], slots'[v] = slots[v],
         links'[k][v] \in Nat, links[k][v] <= links'[k][v]
  PROVE  Enough(v, k)' /\ (Wanted(v, k)' => Wanted(v, k))
<1>1. links[k][v] \in Nat
  BY TypesInParts DEF TypeInv, GraphTypes, LinkTable
<1>2. 0 .. links[k][v] \subseteq 0 .. links'[k][v]
  BY <1>1
<1>3. Enough(v, k)'
  BY <1>2 DEF Enough
<1> QED BY <1>3 DEF Wanted

(* A window that is sent what was recorded for it. *)
LEMMA EnoughSent ==
  ASSUME TypeInv, NEW v \in Viewport, NEW k \in Key, NEW m \in ToChild, Enough(v, k),
         out'[v] = Append(out[v], m), slots'[v] = slots[v],
         links'[k][v] \in Nat, links[k][v] + Puts(m, k) <= links'[k][v]
  PROVE  Enough(v, k)' /\ (Wanted(v, k)' => Wanted(v, k) \/ Puts(m, k) > 0)
<1> DEFINE o == out[v]
           n == Len(o)
           r == links[k][v]
           t == links'[k][v]
           p == Puts(m, k)
           c == Occurrences(k, slots[v])
<1>1. o \in Seq(ToChild) /\ r \in Nat /\ t \in Nat /\ p \in Nat /\ r + p <= t
  BY TypesInParts, PutsNat DEF TypeInv, PipeTypes, GraphTypes, LinkTable
<1>2. n \in Nat /\ DOMAIN o = 1 .. n
  BY <1>1
<1>3. PICK b \in [0 .. n -> 0 .. r] :
        c <= b[0] /\ \A i \in DOMAIN o : b[i - 1] + Puts(o[i], k) <= b[i]
  BY DEF Enough
<1>4. /\ Len(out'[v]) = n + 1 /\ DOMAIN out'[v] = 1 .. n + 1
      /\ out'[v][n + 1] = m /\ \A i \in 1 .. n : out'[v][i] = o[i]
  <2>1. out'[v] = Append(o, m)
    OBVIOUS
  <2> HIDE DEF o
  <2>2. /\ Len(Append(o, m)) = Len(o) + 1 /\ DOMAIN Append(o, m) = 1 .. Len(o) + 1
        /\ Append(o, m)[Len(o) + 1] = m /\ \A i \in 1 .. Len(o) : Append(o, m)[i] = o[i]
    BY <1>1
  <2> QED BY <2>1, <2>2
<1>5. c = Occurrences(k, slots'[v])
  BY DEF Occurrences
<1> DEFINE d == [i \in 0 .. n + 1 |-> IF i = n + 1 THEN t ELSE b[i]]
<1> HIDE DEF o, n, r, t, p, c
<1>6. d \in [0 .. n + 1 -> 0 .. t]
  BY <1>1, <1>2, <1>3
<1>7. c <= d[0]
  BY <1>2, <1>3
<1>8. ASSUME NEW i \in 1 .. n + 1
      PROVE  d[i - 1] + Puts(out'[v][i], k) <= d[i]
  <2>1. CASE i = n + 1
    <3>1. d[i] = t /\ d[i - 1] = b[n] /\ Puts(out'[v][i], k) = p /\ b[n] \in 0 .. r
      BY <1>2, <1>3, <1>4, <2>1 DEF p
    <3>2. b[n] \in Nat /\ b[n] <= r
      BY <1>1, <3>1
    <3> HIDE DEF d
    <3>3. b[n] + p <= t
      BY <1>1, <3>2
    <3> QED BY <3>1, <3>3
  <2>2. CASE i \in 1 .. n
    <3>1. d[i] = b[i] /\ d[i - 1] = b[i - 1] /\ out'[v][i] = o[i] /\ i \in DOMAIN o
      BY <1>2, <1>4, <2>2
    <3> HIDE DEF d
    <3> QED BY <1>3, <3>1
  <2>3. i = n + 1 \/ i \in 1 .. n
    BY <1>2
  <2> HIDE DEF d
  <2> QED BY <2>1, <2>2, <2>3
<1> HIDE DEF d
<1>9. Enough(v, k)'
  BY <1>4, <1>5, <1>6, <1>7, <1>8 DEF Enough, t
<1>10. Wanted(v, k)' => Wanted(v, k) \/ p > 0
  <2> SUFFICES ASSUME Wanted(v, k)' PROVE Wanted(v, k) \/ p > 0
    OBVIOUS
  <2>1. CASE c > 0
    BY <2>1 DEF Wanted, c
  <2>2. CASE ~(c > 0)
    <3>1. PICK i \in 1 .. n + 1 : Puts(out'[v][i], k) > 0
      BY <1>4, <1>5, <2>2 DEF Wanted
    <3>2. CASE i = n + 1
      BY <1>4, <3>1, <3>2 DEF p
    <3>3. CASE i \in 1 .. n
      <4>1. i \in DOMAIN o /\ Puts(o[i], k) > 0
        BY <1>2, <1>4, <3>1, <3>3
      <4> QED BY <4>1 DEF Wanted, o
    <3> QED BY <1>2, <3>2, <3>3
  <2> QED BY <2>1, <2>2
<1> QED BY <1>9, <1>10 DEF p

(* A window that reads what it was sent. *)
LEMMA EnoughTaken ==
  ASSUME TypeInv, NEW v \in Viewport, NEW k \in Key, Enough(v, k),
         out[v] # <<>>, out'[v] = Tail(out[v]), links'[k][v] = links[k][v],
         \/ Occurrences(k, slots'[v]) <= Occurrences(k, slots[v]) + Puts(Head(out[v]), k)
         \/ Occurrences(k, slots'[v]) <= Puts(Head(out[v]), k)
  PROVE  Enough(v, k)' /\ (Wanted(v, k)' => Wanted(v, k))
<1> DEFINE o == out[v]
           n == Len(o)
           r == links[k][v]
           p == Puts(Head(o), k)
           c == Occurrences(k, slots[v])
           e == Occurrences(k, slots'[v])
<1>1. o \in Seq(ToChild) /\ o # <<>> /\ r \in Nat /\ p \in Nat /\ c \in Nat /\ e \in Nat
  BY TypesInParts, PutsNat, OccurrencesNat DEF TypeInv, PipeTypes, GraphTypes, LinkTable
<1>2. e <= c + p
  BY <1>1
<1>3. n \in Nat \ {0} /\ DOMAIN o = 1 .. n /\ Head(o) = o[1]
  BY <1>1
<1>4. PICK b \in [0 .. n -> 0 .. r] :
        c <= b[0] /\ \A i \in DOMAIN o : b[i - 1] + Puts(o[i], k) <= b[i]
  BY DEF Enough
<1>5. /\ Len(out'[v]) = n - 1 /\ DOMAIN out'[v] = 1 .. n - 1
      /\ \A i \in 1 .. n - 1 : out'[v][i] = o[i + 1]
  <2>1. out'[v] = Tail(o)
    OBVIOUS
  <2> HIDE DEF o
  <2>2. /\ Len(Tail(o)) = Len(o) - 1 /\ DOMAIN Tail(o) = 1 .. Len(o) - 1
        /\ \A i \in 1 .. Len(o) - 1 : Tail(o)[i] = o[i + 1]
    BY <1>1
  <2> QED BY <2>1, <2>2
<1> DEFINE d == [i \in 0 .. n - 1 |-> b[i + 1]]
<1> HIDE DEF o, n, r, p, c, e
<1>6. d \in [0 .. n - 1 -> 0 .. r]
  BY <1>3, <1>4
<1>7. e <= d[0]
  <2>1. 1 \in DOMAIN o /\ d[0] = b[1] /\ b[0] \in Nat /\ b[1] \in Nat
    BY <1>1, <1>3, <1>4
  <2>2. b[1 - 1] + Puts(o[1], k) <= b[1]
    BY <1>4, <2>1
  <2>3. b[0] + p <= b[1]
    BY <1>3, <2>2 DEF p
  <2> QED BY <1>1, <1>2, <1>4, <2>1, <2>3
<1>8. ASSUME NEW i \in 1 .. n - 1
      PROVE  d[i - 1] + Puts(out'[v][i], k) <= d[i]
  <2>1. i + 1 \in DOMAIN o /\ d[i] = b[i + 1] /\ d[i - 1] = b[i] /\ out'[v][i] = o[i + 1]
    BY <1>3, <1>5
  <2>2. b[(i + 1) - 1] + Puts(o[i + 1], k) <= b[i + 1]
    BY <1>4, <2>1
  <2>3. (i + 1) - 1 = i
    OBVIOUS
  <2> QED BY <2>1, <2>2, <2>3
<1> HIDE DEF d
<1>9. Enough(v, k)'
  BY <1>5, <1>6, <1>7, <1>8 DEF Enough, r, e
<1>10. Wanted(v, k)' => Wanted(v, k)
  <2> SUFFICES ASSUME Wanted(v, k)' PROVE Wanted(v, k)
    OBVIOUS
  <2>1. CASE e > 0
    <3>1. c > 0 \/ p > 0
      BY <1>1, <1>2, <2>1
    <3>2. 1 \in DOMAIN o /\ Puts(o[1], k) = p
      BY <1>3 DEF p
    <3> QED BY <3>1, <3>2 DEF Wanted, c, o
  <2>2. CASE ~(e > 0)
    <3>1. PICK i \in 1 .. n - 1 : Puts(out'[v][i], k) > 0
      BY <1>5, <2>2 DEF Wanted, e
    <3>2. i + 1 \in DOMAIN o /\ Puts(o[i + 1], k) > 0
      BY <1>3, <1>5, <3>1
    <3> QED BY <3>2 DEF Wanted, o
  <2> QED BY <2>1, <2>2
<1> QED BY <1>9, <1>10

(* What a step has to do with each listed window for the records to hold. *)
LEMMA SafeStep ==
  ASSUME TypeInv, AllSafe, pc' \notin Final => pc \notin Final,
         Listed' \subseteq Listed, Listed \subseteq Viewport,
         pc' \notin Final => \A w \in Listed', k \in Key :
             /\ Enough(w, k)'
             /\ Wanted(w, k)' => Wanted(w, k) \/ k \in graphList'
             /\ k \in graphList /\ links[k][w] > 0 => k \in graphList'
  PROVE  AllSafe'
<1> SUFFICES ASSUME pc' \notin Final, NEW w \in Listed', NEW k \in Key
             PROVE  Safe(w, k)'
  BY DEF AllSafe
<1>1. w \in Viewport /\ Safe(w, k)
  BY DEF AllSafe
<1>2. Wanted(w, k) => k \in graphList /\ links[k][w] > 0
  BY <1>1, WantedRecorded DEF Safe
<1> QED BY <1>2 DEF Safe

(* Steps that neither write to a window nor change what it shows. *)
LEMMA QuietRecords ==
  ASSUME TypeInv, RecordInv, UNCHANGED <<viewports, slots, out, links>>,
         graphList \subseteq graphList',
         pc' \notin Final => pc \notin Final,
         \/ pc' \notin {"ready", "window", "ack"}
         \/ pc' \in {pc} \cap {"ready", "window", "ack"} /\ cur' = cur,
         \A w \in Viewport : child'[w] = "none" => child[w] = "none"
  PROVE  RecordInv'
<1>1. Listed \subseteq Viewport /\ Listed' = Listed
  BY TypesInParts DEF TypeInv, ControlTypes, Listed, Range
<1>2. ASSUME pc' \notin Final, NEW w \in Listed, NEW k \in Key
      PROVE  Enough(w, k)' /\ (Wanted(w, k)' => Wanted(w, k))
  <2>1. w \in Viewport /\ Enough(w, k)
    BY <1>1, <1>2 DEF RecordInv, AllSafe, Safe
  <2>2. links[k][w] \in Nat
    BY <2>1, TypesInParts DEF TypeInv, GraphTypes, LinkTable
  <2>3. links'[k][w] \in Nat /\ links[k][w] <= links'[k][w]
    BY <2>2
  <2> QED BY <2>1, <2>3, EnoughStays
<1>3. AllSafe'
  BY <1>1, <1>2, SafeStep DEF RecordInv
<1>4. Unborn'
  BY DEF RecordInv, Unborn
<1>5. ServesListed'
  BY <1>1 DEF RecordInv, ServesListed
<1> QED BY <1>3, <1>4, <1>5 DEF RecordInv

(* The manager records, and writes to, a window. *)
LEMMA SentRecords ==
  ASSUME TypeInv, RecordInv, LeaveInv, NEW v \in Listed, NEW m \in ToChild, Write(v, m),
         UNCHANGED <<viewports, slots, graphList, child>>, links' \in LinkTable,
         pc \notin Final, cur' \in Listed \/ pc' \notin {"ready", "window", "ack"},
         \A k \in Key, w \in Viewport : links[k][w] <= links'[k][w],
         pc' \notin Final => \A k \in Key :
             /\ links[k][v] + Puts(m, k) <= links'[k][v]
             /\ Puts(m, k) > 0 => k \in graphList
  PROVE  RecordInv'
<1>1. Listed \subseteq Viewport /\ Listed' = Listed /\ v \in Viewport
  BY TypesInParts DEF TypeInv, ControlTypes, Listed, Range
<1>2. out \in [Viewport -> Seq(ToChild)]
  BY TypesInParts DEF TypeInv, PipeTypes
<1>3. out' = out \/ out' = [out EXCEPT ![v] = Append(@, m)]
  BY DEF Write
<1>4. ASSUME pc' \notin Final, NEW w \in Listed, NEW k \in Key
      PROVE  Enough(w, k)' /\ (Wanted(w, k)' => Wanted(w, k) \/ k \in graphList')
  <2>1. w \in Viewport /\ Enough(w, k) /\ links'[k][w] \in Nat /\ slots'[w] = slots[w]
    BY <1>1, <1>4 DEF RecordInv, AllSafe, Safe, LinkTable
  <2>2. CASE out'[w] = out[w]
    BY <2>1, <2>2, EnoughStays
  <2>3. CASE out'[w] # out[w]
    <3>1. w = v /\ out'[v] = Append(out[v], m)
      BY <1>1, <1>2, <1>3, <2>1, <2>3
    <3> QED BY <1>4, <2>1, <3>1, EnoughSent
  <2> QED BY <2>2, <2>3
<1>5. AllSafe'
  BY <1>1, <1>4, SafeStep DEF RecordInv
<1>6. Unborn'
  <2> SUFFICES ASSUME NEW w \in Viewport, child[w] = "none"
               PROVE  out'[w] = <<>> /\ slots[w] = NoKeys
    BY DEF Unborn
  <2>1. w # v
    BY DEF LeaveInv, Started
  <2> QED BY <1>2, <1>3, <2>1 DEF RecordInv, Unborn
<1>7. ServesListed'
  BY <1>1 DEF ServesListed
<1> QED BY <1>5, <1>6, <1>7 DEF RecordInv

(* A drop: the picked graph is recorded before the window is told. *)
LEMMA DropRecords ==
  ASSUME TypeInv, RecordInv, LeaveInv, NEW v \in Listed, pc = "select", DropTo(v),
         UNCHANGED <<viewports, slots, graphList, child>>
  PROVE  RecordInv'
<1>1. v \in Viewport /\ links \in LinkTable /\ picked \in BOOLEAN
  BY TypesInParts DEF TypeInv, ControlTypes, GraphTypes, Listed, Range
<1>2. \A k \in Key, w \in Viewport : links[k][w] \in Nat
  BY <1>1 DEF LinkTable
<1>3. CASE ~picked
  <2> DEFINE m == [msg |-> "viewError"]
  <2>1. m \in ToChild /\ Write(v, m) /\ links' = links /\ pc' = pc
    BY <1>3, MessageTypes DEF DropTo
  <2>2. \A k \in Key : Puts(m, k) = 0
    BY DEF Puts
  <2> HIDE DEF m
  <2> QED BY <1>1, <1>2, <2>1, <2>2, SentRecords DEF Final
<1>4. CASE picked
  <2> DEFINE m == [msg |-> "viewOkay", key |-> currentGraph]
  <2>1. currentGraph \in Key /\ DropPicked(v)
    BY <1>4 DEF TypeInv, PickedIsKnown, DropTo
  <2>2. m \in ToChild /\ Write(v, m)
    BY <2>1, MessageTypes DEF DropPicked
  <2>3. \A k \in Key : Puts(m, k) = IF k = currentGraph THEN 1 ELSE 0
    BY DEF Puts
  <2> HIDE DEF m
  <2>4. CASE currentGraph \in graphList
    <3>1. links' = Linked(v, currentGraph) /\ pc' = pc
      BY <2>1, <2>4 DEF DropPicked
    <3>2. links' \in LinkTable
      BY <1>1, <2>1, <3>1, LinksStayTyped
    <3>3. \A k \in Key, w \in Viewport :
            links'[k][w] = IF k = currentGraph /\ w = v THEN links[k][w] + 1 ELSE links[k][w]
      BY <1>1, <2>1, <3>1 DEF Linked, LinkTable
    <3>4. \A k \in Key, w \in Viewport : links[k][w] <= links'[k][w]
      BY <1>2, <3>3
    <3>5. \A k \in Key : /\ links[k][v] + Puts(m, k) <= links'[k][v]
                         /\ Puts(m, k) > 0 => k \in graphList
      BY <1>1, <1>2, <2>3, <2>4, <3>3
    <3> QED BY <2>2, <3>1, <3>2, <3>4, <3>5, SentRecords DEF Final
  <2>5. CASE currentGraph \notin graphList
    <3>1. links' = links /\ pc' = "quit"
      BY <2>1, <2>5 DEF DropPicked
    <3> QED BY <1>1, <1>2, <2>2, <3>1, SentRecords DEF Final
  <2> QED BY <2>4, <2>5
<1> QED BY <1>1, <1>3, <1>4

(* A closed window leaves the list; its graphs stay if another window has a
   record of them, and all that show them have.                            *)
LEMMA CloseRecords ==
  ASSUME TypeInv, RecordInv, LeaveInv, NEW v \in Listed, NEW ks, pc = "select",
         closeChildViewport(v, ks), UNCHANGED <<slots, out, child>>
  PROVE  RecordInv'
<1> DEFINE i == CHOOSE i \in DOMAIN viewports : viewports[i] = v
<1>1. viewports \in Seq(Viewport) /\ links \in LinkTable /\ Listed \subseteq Viewport
  BY TypesInParts DEF TypeInv, ControlTypes, GraphTypes, Listed, Range
<1>2. i \in DOMAIN viewports /\ viewports[i] = v
  BY DEF Listed, Range
<1>3. viewports' = RemoveAt(viewports, i) /\ pc' = "wait"
  BY DEF closeChildViewport, CloseChild
<1> HIDE DEF i
<1>4. \A j, k \in DOMAIN viewports : viewports[j] = viewports[k] => j = k
  BY DEF LeaveInv, Once
<1>5. Range(viewports') = Range(viewports) \ {v}
  BY <1>1, <1>2, <1>3, <1>4, RemoveAtInjective
<1>6. Listed' = Listed \ {v}
  BY <1>5 DEF Listed
<1>7. ASSUME NEW w \in Listed', NEW k \in Key
      PROVE  /\ Enough(w, k)' /\ (Wanted(w, k)' => Wanted(w, k))
             /\ k \in graphList /\ links[k][w] > 0 => k \in graphList'
  <2>1. w \in Viewport /\ w # v /\ Enough(w, k)
    BY <1>1, <1>6 DEF RecordInv, AllSafe, Safe, Final
  <2>2. Unlinked(v, ks)[k][w] = links[k][w] /\ links[k][w] \in Nat
    BY <1>1, <2>1 DEF Unlinked, LinkTable
  <2>3. links'[k][w] = links[k][w]
    BY <2>2 DEF closeChildViewport, CloseChild
  <2>4. Enough(w, k)' /\ (Wanted(w, k)' => Wanted(w, k))
    BY <2>1, <2>2, <2>3, EnoughStays
  <2>5. k \in graphList /\ links[k][w] > 0 => k \in graphList'
    BY <2>1, <2>2 DEF closeChildViewport, CloseChild, Kept
  <2> QED BY <2>4, <2>5
<1>8. AllSafe'
  BY <1>1, <1>3, <1>6, <1>7, SafeStep DEF RecordInv, Final
<1>9. Unborn' /\ ServesListed'
  BY <1>3 DEF RecordInv, Unborn, ServesListed
<1> QED BY <1>8, <1>9 DEF RecordInv

(* What the manager reads of a window. *)
LEMMA ReadRecords ==
  ASSUME TypeInv, RecordInv, LeaveInv, NEW v \in Viewport,
         ReadPick(v) \/ ReadDrop(v) \/ ReadClosing(v) \/ ReadEof(v)
  PROVE  RecordInv'
<1>1. pc = "select" /\ v \in Listed
  BY TurnListed DEF ReadPick, ReadDrop, ReadClosing, ReadEof
<1>2. UNCHANGED <<slots, child>>
  BY DEF ReadPick, ReadDrop, ReadClosing, ReadEof
<1>3. CASE ReadDrop(v) \/ (ReadEof(v) /\ viewCommand = "drop2D")
  <2>1. DropTo(v) /\ UNCHANGED <<viewports, graphList>>
    BY <1>3 DEF ReadDrop, ReadEof
  <2> QED BY <1>1, <1>2, <2>1, DropRecords
<1>4. CASE ReadClosing(v)
  BY <1>1, <1>2, <1>4, CloseRecords DEF ReadClosing
<1>5. CASE ReadEof(v) /\ viewCommand = "viewportClosing"
  BY <1>1, <1>2, <1>5, CloseRecords DEF ReadEof
<1>6. CASE ReadPick(v) \/ (ReadEof(v) /\ viewCommand \notin {"drop2D", "viewportClosing"})
  <2>1. UNCHANGED <<viewports, slots, out, links, graphList, pc, child>>
    BY <1>6 DEF ReadPick, ReadEof, graphVars
  <2> QED BY <1>1, <2>1, QuietRecords
<1> QED BY <1>3, <1>4, <1>5, <1>6

(* A window that is made shows nothing, and has been sent nothing. *)
LEMMA ForkRecords ==
  ASSUME TypeInv, RecordInv, LeaveInv, NEW v \in Viewport, forkView(v)
  PROVE  RecordInv'
<1>1. /\ child[v] = "none" /\ child' = [child EXCEPT ![v] = "new"]
      /\ viewports' = <<v>> \o viewports /\ pc = "select" /\ pc' = "ready" /\ cur' = v
      /\ UNCHANGED <<slots, out, links, graphList>>
  BY DEF forkView, SpadTurn, graphVars
<1>2. viewports \in Seq(Viewport) /\ child \in [Viewport -> ChildState] /\ links \in LinkTable
  BY TypesInParts DEF TypeInv, ControlTypes, WindowTypes, GraphTypes
<1>3. v \notin Range(viewports)
  BY <1>1 DEF LeaveInv, Started, Listed
<1>4. \A j, k \in DOMAIN viewports : viewports[j] = viewports[k] => j = k
  BY DEF LeaveInv, Once
<1>5. Range(viewports') = Range(viewports) \cup {v}
  BY <1>1, <1>2, <1>3, <1>4, FrontInjective
<1>6. Listed' = Listed \cup {v} /\ Listed \subseteq Viewport
  BY <1>2, <1>5 DEF Listed, Range
<1>7. ASSUME NEW w \in Listed', NEW k \in Key
      PROVE  Safe(w, k)'
  <2>1. CASE w \in Listed
    <3>1. w \in Viewport /\ Safe(w, k) /\ links[k][w] \in Nat
      BY <1>1, <1>2, <1>6, <2>1 DEF RecordInv, AllSafe, Final, LinkTable
    <3>2. links'[k][w] \in Nat /\ links[k][w] <= links'[k][w]
      BY <1>1, <3>1
    <3>3. Enough(w, k)' /\ (Wanted(w, k)' => Wanted(w, k))
      BY <1>1, <3>1, <3>2, EnoughStays DEF Safe
    <3> QED BY <1>1, <3>1, <3>3 DEF Safe
  <2>2. CASE w = v
    <3>1. out'[v] = <<>> /\ slots'[v] = NoKeys /\ links'[k][v] \in Nat
      BY <1>1, <1>2 DEF RecordInv, Unborn, LinkTable
    <3>2. Occurrences(k, slots'[v]) = 0
      BY <3>1, NothingShown
    <3>3. Len(out'[v]) = 0 /\ DOMAIN out'[v] = {}
      BY <3>1
    <3> DEFINE b == [i \in 0 .. 0 |-> 0]
    <3>4. b \in [0 .. Len(out'[v]) -> 0 .. links'[k][v]] /\ b[0] = 0
      BY <3>1, <3>3
    <3> HIDE DEF b
    <3>5. Enough(v, k)'
      BY <3>2, <3>3, <3>4 DEF Enough
    <3>6. ~Wanted(v, k)'
      BY <3>2, <3>3 DEF Wanted
    <3> QED BY <2>2, <3>5, <3>6 DEF Safe
  <2> QED BY <1>6, <2>1, <2>2
<1>8. AllSafe'
  BY <1>7 DEF AllSafe
<1>9. Unborn'
  BY <1>1, <1>2 DEF RecordInv, Unborn
<1>10. ServesListed'
  BY <1>1, <1>6 DEF ServesListed
<1> QED BY <1>8, <1>9, <1>10 DEF RecordInv

(* The graphs a window is made with are recorded before it is sent them. *)
LEMMA MakeRecords ==
  ASSUME TypeInv, RecordInv, LeaveInv, ReadReady
  PROVE  RecordInv'
<1>1. /\ pc = "ready" /\ UNCHANGED <<viewports, slots, graphList, child, cur>>
      /\ links' = IF Unknown(Keys) THEN links ELSE AllLinked(cur, Keys)
      /\ pc' = IF Unknown(Keys) THEN "quit" ELSE "window"
  BY DEF ReadReady
<1> DEFINE ks == Keys
           m == [msg |-> "make", keys |-> ks]
<1>2. cur \in Listed /\ cur \in Viewport /\ spad \in Request /\ links \in LinkTable
  BY <1>1, TypesInParts DEF RecordInv, ServesListed, TypeInv, ServesRequest, GraphTypes
<1>3. ks \in Keys2D /\ m \in ToChild /\ Write(cur, m)
  <2>1. ks \in Keys2D
    BY <1>2, RequestFields DEF Keys, NoKeys, Keys2D
  <2> QED BY <2>1, MessageTypes DEF ReadReady
<1>4. \A k : Puts(m, k) = Occurrences(k, ks)
  BY DEF Puts
<1>5. \A k \in Key : Occurrences(k, ks) > 0 => \E s \in Slot : ks[s] = k
  <2> SUFFICES ASSUME NEW k \in Key, ~ \E s \in Slot : ks[s] = k
               PROVE  Occurrences(k, ks) = 0
    BY OccurrencesNat
  <2>1. {s \in Slot : ks[s] = k} = {}
    OBVIOUS
  <2> QED BY <2>1, FS_EmptySet DEF Occurrences
<1>6. \A k \in Key, w \in Viewport : links[k][w] \in Nat
  BY <1>2 DEF LinkTable
<1>7. CASE Unknown(ks)
  <2>1. links' = links /\ pc' = "quit"
    BY <1>1, <1>7
  <2> HIDE DEF m
  <2> QED BY <1>1, <1>2, <1>3, <1>6, <2>1, SentRecords DEF Final
<1>8. CASE ~Unknown(ks)
  <2>1. links' = AllLinked(cur, ks) /\ pc' = "window"
    BY <1>1, <1>8
  <2>2. links' \in LinkTable
    BY <1>2, <2>1, LinksStayTyped
  <2>3. \A k \in Key, w \in Viewport :
          links'[k][w] = IF w = cur THEN links[k][w] + Occurrences(k, ks) ELSE links[k][w]
    BY <1>2, <2>1 DEF AllLinked, LinkTable
  <2>4. \A k \in Key, w \in Viewport : links[k][w] <= links'[k][w]
    BY <1>6, <2>3, OccurrencesNat
  <2>5. \A k \in Key : Occurrences(k, ks) > 0 => k \in graphList
    BY <1>5, <1>8 DEF Unknown, Key
  <2>6. \A k \in Key : /\ links[k][cur] + Puts(m, k) <= links'[k][cur]
                       /\ Puts(m, k) > 0 => k \in graphList
    BY <1>2, <1>4, <1>6, <2>3, <2>5, OccurrencesNat
  <2> HIDE DEF m
  <2> QED BY <1>1, <1>2, <1>3, <2>1, <2>2, <2>4, <2>6, SentRecords DEF Final
<1> QED BY <1>7, <1>8

(* A graph that Lisp puts in a slot is recorded before it is sent. *)
LEMMA FunRecords ==
  ASSUME TypeInv, RecordInv, LeaveInv, funView
  PROVE  RecordInv'
<1> DEFINE v == spad.view
           m == ToWindow(spad)
<1>1. /\ pc = "select" /\ v \in Listed /\ Write(v, m) /\ cur' = v
      /\ UNCHANGED <<viewports, slots, graphList, child>>
      /\ links' = PutLinked
      /\ pc' = IF spad.cmd = "putGraph" /\ spad.key \notin graphList THEN "quit" ELSE "ack"
  BY DEF funView, SpadTurn
<1>2. spad \in Request /\ spad.req = "fun" /\ links \in LinkTable
  BY TypesInParts DEF funView, SpadTurn, TypeInv, LispTypes, GraphTypes
<1>3. /\ v \in Viewport /\ spad.cmd \in Command \cup {"putGraph"}
      /\ spad.cmd = "putGraph" => spad.key \in Key /\ spad.slot \in Slot
  BY <1>2, RequestFields
<1>4. \A k \in Key, w \in Viewport : links[k][w] \in Nat
  BY <1>2 DEF LinkTable
<1>5. CASE spad.cmd = "putGraph"
  <2>1. m = [msg |-> "putGraph", key |-> spad.key, slot |-> spad.slot]
    BY <1>5 DEF ToWindow
  <2>2. m \in ToChild
    BY <1>3, <1>5, <2>1, MessageTypes
  <2>3. \A k : Puts(m, k) = IF spad.key = k THEN 1 ELSE 0
    BY <2>1 DEF Puts
  <2>4. links' = Linked(v, spad.key)
    BY <1>1, <1>5 DEF PutLinked
  <2>5. links' \in LinkTable
    BY <1>2, <1>3, <1>5, <2>4, LinksStayTyped
  <2>6. \A k \in Key, w \in Viewport :
          links'[k][w] = IF k = spad.key /\ w = v THEN links[k][w] + 1 ELSE links[k][w]
    BY <1>2, <1>3, <1>5, <2>4 DEF Linked, LinkTable
  <2>7. \A k \in Key, w \in Viewport : links[k][w] <= links'[k][w]
    BY <1>4, <2>6
  <2>8. pc' \notin Final => \A k \in Key : /\ links[k][v] + Puts(m, k) <= links'[k][v]
                                           /\ Puts(m, k) > 0 => k \in graphList
    BY <1>1, <1>3, <1>4, <1>5, <2>3, <2>6 DEF Final
  <2> HIDE DEF m, v
  <2> QED BY <1>1, <2>2, <2>5, <2>7, <2>8, SentRecords DEF Final
<1>6. CASE spad.cmd # "putGraph"
  <2>1. spad.cmd \in {"plain", "scale", "closeAll", "axesColor2D"}
    BY <1>3, <1>6, ViewmanAssumption
  <2>2. m.msg \in {"plain", "closeAll", "axesColor2D"} /\ m \in ToChild
    BY <2>1, MessageTypes DEF ToWindow
  <2>3. \A k : Puts(m, k) = 0
    BY <2>2 DEF Puts
  <2>4. links' = links
    BY <1>1, <1>6 DEF PutLinked
  <2> HIDE DEF m, v
  <2> QED BY <1>1, <1>2, <1>3, <1>4, <2>2, <2>3, <2>4, SentRecords DEF Final
<1> QED BY <1>5, <1>6

(* A window that takes a message shows what was recorded for it. *)
LEMMA TakenRecords ==
  ASSUME TypeInv, RecordInv, NEW v \in Viewport, child[v] # "none",
         out[v] # <<>>, Received(v), UNCHANGED <<viewports, graphList, links, pc, cur>>,
         \A w \in Viewport : child'[w] = "none" => child[w] = "none",
         NEW ks \in Keys2D, slots' = [slots EXCEPT ![v] = ks],
         \A k \in Key :
           \/ Occurrences(k, ks) <= Occurrences(k, slots[v]) + Puts(Head(out[v]), k)
           \/ Occurrences(k, ks) <= Puts(Head(out[v]), k)
  PROVE  RecordInv'
<1>1. /\ Listed \subseteq Viewport /\ Listed' = Listed /\ links \in LinkTable
      /\ out \in [Viewport -> Seq(ToChild)] /\ slots \in [Viewport -> Keys2D]
  BY TypesInParts DEF TypeInv, ControlTypes, GraphTypes, PipeTypes, WindowTypes, Listed, Range
<1>2. /\ out'[v] = Tail(out[v]) /\ slots'[v] = ks
      /\ \A w \in Viewport \ {v} : out'[w] = out[w] /\ slots'[w] = slots[w]
  BY <1>1 DEF Received
<1>3. ASSUME pc' \notin Final, NEW w \in Listed, NEW k \in Key
      PROVE  Enough(w, k)' /\ (Wanted(w, k)' => Wanted(w, k))
  <2>1. w \in Viewport /\ Enough(w, k) /\ links[k][w] \in Nat
    BY <1>1, <1>3 DEF RecordInv, AllSafe, Safe, LinkTable
  <2>2. CASE w = v
    BY <1>2, <2>1, <2>2, EnoughTaken
  <2>3. CASE w # v
    <3>1. links'[k][w] \in Nat /\ links[k][w] <= links'[k][w]
      BY <2>1
    <3> QED BY <1>2, <2>1, <2>3, <3>1, EnoughStays
  <2> QED BY <2>2, <2>3
<1>4. AllSafe'
  BY <1>1, <1>3, SafeStep DEF RecordInv
<1>5. Unborn'
  BY <1>2 DEF RecordInv, Unborn
<1>6. ServesListed'
  BY <1>1 DEF RecordInv, ServesListed
<1> QED BY <1>4, <1>5, <1>6 DEF RecordInv

(* The windows. *)
LEMMA WindowRecords ==
  ASSUME TypeInv, RecordInv, NEW v \in Viewport,
         ChildStep(v) \/ UserStep(v) \/ ChildExit(v) \/ Crash(v)
  PROVE  RecordInv'
<1> USE DEF managerVars, graphVars, boundVars
<1>1. /\ child \in [Viewport -> ChildState] /\ slots \in [Viewport -> Keys2D]
      /\ out \in [Viewport -> Seq(ToChild)]
  BY TypesInParts DEF TypeInv, WindowTypes, PipeTypes
<1>2. UNCHANGED <<viewports, graphList, links, pc, cur>>
  BY DEF ChildStep, UserStep, ChildExit, Crash, Dies
<1>3. ASSUME UNCHANGED <<slots, out>>, \E s \in ChildState \ {"none"} : Becomes(v, s)
      PROVE  RecordInv'
  <2>1. \A w \in Viewport : child'[w] = "none" => child[w] = "none"
    BY <1>1, <1>3 DEF Becomes
  <2> QED BY <1>2, <1>3, <2>1, QuietRecords
<1>4. CASE ChildExit(v) \/ Crash(v)
  BY <1>3, <1>4 DEF ChildExit, Crash, Dies, ChildState, Dead
<1>5. CASE UserStep(v)
  <2>1. UNCHANGED <<slots, out>> /\ \A w \in Viewport : child'[w] = "none" => child[w] = "none"
    BY <1>1, <1>5 DEF UserStep, Pick, Drop, CloseWindow, Becomes
  <2> QED BY <1>2, <2>1, QuietRecords
<1>6. CASE ChildReady(v) /\ ChildStep(v)
  BY <1>3, <1>6 DEF ChildReady, ChildState
<1>7. ASSUME out[v] # <<>> PROVE Head(out[v]) \in ToChild
  BY <1>1, <1>7
<1>8. CASE ChildMake(v) /\ ChildStep(v)
  <2> DEFINE ks == Head(out[v]).keys
  <2>1. /\ child[v] = "starting" /\ out[v] # <<>> /\ Head(out[v]).msg = "make"
        /\ Received(v) /\ slots' = [slots EXCEPT ![v] = ks] /\ Becomes(v, "idle")
    BY <1>8 DEF ChildMake, Receives
  <2>2. ks \in Keys2D
    BY <1>7, <2>1, MessageFields
  <2>3. \A k \in Key : Occurrences(k, ks) <= Puts(Head(out[v]), k)
    BY <2>1, OccurrencesNat DEF Puts
  <2>4. \A w \in Viewport : child'[w] = "none" => child[w] = "none"
    BY <1>1, <2>1 DEF Becomes
  <2> HIDE DEF ks
  <2> QED BY <1>2, <2>1, <2>2, <2>3, <2>4, TakenRecords
<1>9. ASSUME out[v] # <<>>, Received(v), child[v] # "none",
             \A w \in Viewport : child'[w] = "none" => child[w] = "none",
             \/ UNCHANGED slots
             \/ /\ Head(out[v]).msg \in {"putGraph", "viewOkay"}
                /\ \E s \in Slot : slots' = [slots EXCEPT ![v][s] = Head(out[v]).key]
      PROVE  RecordInv'
  <2>1. CASE UNCHANGED slots
    <3> DEFINE ks == slots[v]
    <3>1. ks \in Keys2D /\ slots' = [slots EXCEPT ![v] = ks]
      BY <1>1, <2>1
    <3>2. \A k \in Key : Occurrences(k, ks) <= Occurrences(k, slots[v]) + Puts(Head(out[v]), k)
      BY OccurrencesNat, PutsNat
    <3> HIDE DEF ks
    <3> QED BY <1>2, <1>9, <3>1, <3>2, TakenRecords
  <2>2. CASE ~UNCHANGED slots
    <3>1. PICK s \in Slot : slots' = [slots EXCEPT ![v][s] = Head(out[v]).key]
      BY <1>9, <2>2
    <3> DEFINE x == Head(out[v]).key
               ks == [slots[v] EXCEPT ![s] = x]
    <3>2. slots[v] \in Keys2D /\ x \in Key
      BY <1>1, <1>7, <1>9, <2>2, MessageFields
    <3>3. ks \in Keys2D
      BY <3>2 DEF Keys2D
    <3>4. slots' = [slots EXCEPT ![v] = ks]
      BY <3>1
    <3>5. \A k \in Key : Puts(Head(out[v]), k) = IF x = k THEN 1 ELSE 0
      BY <1>9, <2>2 DEF Puts
    <3>6. \A k \in Key : Occurrences(k, ks) <= Occurrences(k, slots[v]) + (IF x = k THEN 1 ELSE 0)
      BY <3>2, OccurrencesPut
    <3>7. \A k \in Key : Occurrences(k, ks) <= Occurrences(k, slots[v]) + Puts(Head(out[v]), k)
      BY <3>5, <3>6
    <3> HIDE DEF ks, x
    <3> QED BY <1>2, <1>9, <3>3, <3>4, <3>7, TakenRecords
  <2> QED BY <2>1, <2>2
<1>10. CASE ChildCommand(v) /\ ChildStep(v)
  <2>1. /\ child[v] = "idle" /\ out[v] # <<>> /\ Received(v)
        /\ ChildPlain(v) \/ ChildPut(v) \/ ChildCloseAll(v) \/ ChildStuck(v)
    BY <1>10 DEF ChildCommand
  <2>2. \A w \in Viewport : child'[w] = "none" => child[w] = "none"
    BY <1>1, <2>1 DEF ChildPlain, ChildPut, ChildCloseAll, ChildStuck, Becomes
  <2>3. \/ UNCHANGED slots
        \/ /\ Head(out[v]).msg \in {"putGraph", "viewOkay"}
           /\ \E s \in Slot : slots' = [slots EXCEPT ![v][s] = Head(out[v]).key]
    <3>1. CASE ChildPut(v)
      <4>1. /\ Head(out[v]).msg = "putGraph"
            /\ slots' = [slots EXCEPT ![v][Head(out[v]).slot] = Head(out[v]).key]
        BY <3>1 DEF ChildPut, Receives
      <4>2. Head(out[v]).slot \in Slot
        BY <1>7, <2>1, <4>1, MessageFields
      <4> QED BY <4>1, <4>2
    <3>2. CASE ~ChildPut(v)
      BY <2>1, <3>2 DEF ChildPlain, ChildCloseAll, ChildStuck
    <3> QED BY <3>1, <3>2
  <2> QED BY <1>9, <2>1, <2>2, <2>3
<1>11. CASE ChildDrop(v) /\ ChildStep(v)
  <2>1. /\ child[v] = "dropping" /\ out[v] # <<>> /\ Received(v) /\ Becomes(v, "idle")
        /\ \/ UNCHANGED slots
           \/ /\ Head(out[v]).msg \in {"putGraph", "viewOkay"}
              /\ \E s \in Slot : slots' = [slots EXCEPT ![v][s] = Head(out[v]).key]
    BY <1>11 DEF ChildDrop, Receives
  <2>2. \A w \in Viewport : child'[w] = "none" => child[w] = "none"
    BY <1>1, <2>1 DEF Becomes
  <2> QED BY <1>9, <2>1, <2>2
<1> QED BY <1>4, <1>5, <1>6, <1>8, <1>10, <1>11 DEF ChildStep

(* What the manager does besides: nothing that a window shows. *)
LEMMA OtherRecords ==
  ASSUME TypeInv, RecordInv,
         \/ superSelect \/ Waited \/ ReadSpins \/ makeGraph \/ ReadReadyFails
         \/ ReadWindow \/ funViewUnknown \/ ReadAck \/ AckMisread \/ goodbyeWaited
         \/ forkFails \/ goodbye \/ Ask
  PROVE  RecordInv'
<1> USE DEF managerVars, childVars, graphVars, boundVars
<1>1. UNCHANGED <<viewports, slots, out, links>> /\ graphList \subseteq graphList'
  BY DEF superSelect, Waited, ReadSpins, makeGraph, ReadReadyFails, ReadWindow,
     funViewUnknown, UnknownView, ReadAck, AckMisread, goodbyeWaited, forkFails, goodbye,
     GoodbyeTo, Abandon, Ask
<1>2. /\ pc' \notin Final => pc \notin Final
      /\ \/ pc' \notin {"ready", "window", "ack"}
         \/ pc' \in {pc} \cap {"ready", "window", "ack"} /\ cur' = cur
  BY DEF superSelect, Waited, ReadSpins, makeGraph, ReadReadyFails, ReadWindow,
     funViewUnknown, UnknownView, ReadAck, AckMisread, goodbyeWaited, forkFails, goodbye,
     GoodbyeTo, Abandon, Ask, SpadTurn, Final
<1>3. \A w \in Viewport : child'[w] = "none" => child[w] = "none"
  <2>1. child \in [Viewport -> ChildState]
    BY TypesInParts DEF TypeInv, WindowTypes
  <2>2. CASE superSelect \/ Waited
    <3>1. PICK z \in Viewport : child' = [child EXCEPT ![z] = "reaped"]
      BY <2>2 DEF superSelect, Waited
    <3> QED BY <2>1, <3>1
  <2>3. CASE goodbyeWaited
    <3>1. PICK z \in Viewport : child' = [Terminated(Tail(rest)) EXCEPT ![z] = "reaped"]
      BY <2>3 DEF goodbyeWaited
    <3>2. \A w \in Viewport : child'[w] = IF w = z THEN "reaped" ELSE Terminated(Tail(rest))[w]
      BY <3>1 DEF Terminated
    <3> QED BY <3>2 DEF Terminated
  <2>4. CASE goodbye
    BY <2>4 DEF goodbye, GoodbyeTo, Terminated
  <2>5. CASE ~(superSelect \/ Waited \/ goodbyeWaited \/ goodbye)
    <3>1. child' = child
      BY <2>5 DEF ReadSpins, makeGraph, ReadReadyFails, ReadWindow,
         funViewUnknown, UnknownView, ReadAck, AckMisread, forkFails, Abandon, Ask
    <3> QED BY <3>1
  <2> QED BY <2>2, <2>3, <2>4, <2>5
<1> QED BY <1>1, <1>2, <1>3, QuietRecords

(* At the start there is no window. *)
LEMMA InitRecords == ViewmanInit => RecordInv
<1> SUFFICES ASSUME ViewmanInit PROVE RecordInv
  OBVIOUS
<1>1. Listed = {}
  BY DEF ViewmanInit, Listed, Range
<1> QED BY <1>1 DEF ViewmanInit, RecordInv, AllSafe, Unborn, ServesListed

(* Every step keeps the records. *)
LEMMA RecordStep ==
  TypeInv /\ LeaveInv /\ RecordInv /\ [ViewmanNext]_viewmanVars => RecordInv'
<1> SUFFICES ASSUME TypeInv, LeaveInv, RecordInv, [ViewmanNext]_viewmanVars
             PROVE  RecordInv'
  OBVIOUS
<1>1. CASE ManagerStep
  BY <1>1, ReadRecords, ForkRecords, MakeRecords, FunRecords, OtherRecords DEF ManagerStep
<1>2. CASE forkFails \/ goodbye \/ Ask
  BY <1>2, OtherRecords
<1>3. CASE \E v \in Viewport : ChildStep(v) \/ UserStep(v) \/ ChildExit(v) \/ Crash(v)
  BY <1>3, WindowRecords
<1>4. CASE UNCHANGED viewmanVars
  <2>1. UNCHANGED <<viewports, slots, out, links, graphList, pc, cur, child>>
    BY <1>4 DEF viewmanVars, managerVars, childVars, graphVars
  <2> QED BY <2>1, QuietRecords
<1> QED BY <1>1, <1>2, <1>3, <1>4 DEF ViewmanNext

(* The records of every graph cover what each window shows and what it was
   told to show: the inductive invariant behind the next theorem.          *)
THEOREM RecordInvariant == ViewmanSpec => [](TypeInv /\ RecordInv)
BY InitTypes, TypeStep, InitLeaves, LeaveStep, InitRecords, RecordStep, PTL DEF ViewmanSpec

(* A graph that a window shows is in the list, with a record of the window for
   each slot that shows it, whatever was picked, dropped, put, replaced, closed
   or killed, in any order: rmViewMgr finds what it looks for.             *)
THEOREM ShownAlwaysRecorded == ViewmanSpec => []ShownAreRecorded
<1>1. TypeInv /\ RecordInv => ShownAreRecorded
  <2> SUFFICES ASSUME TypeInv, RecordInv PROVE ShownAreRecorded
    OBVIOUS
  <2>1. ASSUME pc \notin Final, NEW v \in Listed, NEW k \in Key, Occurrences(k, slots[v]) > 0
        PROVE  k \in graphList /\ links[k][v] >= Occurrences(k, slots[v])
    <3>1. v \in Viewport /\ Safe(v, k)
      BY <2>1, TypesInParts DEF RecordInv, AllSafe, TypeInv, ControlTypes, Listed, Range
    <3>2. k \in graphList
      BY <2>1, <3>1 DEF Safe, Wanted
    <3>3. links[k][v] \in Nat /\ Occurrences(k, slots[v]) <= links[k][v]
      BY <3>1, WantedRecorded DEF Safe
    <3> QED BY <3>2, <3>3, OccurrencesNat
  <2> QED BY <2>1 DEF ShownAreRecorded, Recorded, TypeInv
<1> QED BY <1>1, RecordInvariant, PTL
=============================================================================
